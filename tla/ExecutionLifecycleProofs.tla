----------------------- MODULE ExecutionLifecycleProofs -----------------------
(***************************************************************************)
(* Theorems about ExecutionLifecycle, for every number of planned lots,    *)
(* every set of stop ids, every broker and every port.                     *)
(*                                                                         *)
(* The properties read the committed row, but a pass works on its session  *)
(* and is cut at every port call; the inductive invariant therefore says,  *)
(* for each place a pass can stand, which state it serves and how far its  *)
(* session may have run ahead of the row (Sessions), and what the columns  *)
(* of a row have to do with its state (RowOK).                             *)
(***************************************************************************)
EXTENDS ExecutionLifecycle, FiniteSetTheorems, NaturalsInduction, WellFoundedInduction, TLAPS

\* the state a pass serves at each port call
Serves(c, state) ==
  /\ c = "pre" => state \in PreSubmit
  /\ c = "submit" => state = "SUBMITTING"
  /\ c = "recover" => state = "RECONCILING"
  /\ c = "fillsAck" => state = "ACKNOWLEDGED"
  /\ c \in {"fillsPending", "arm", "rearm", "check", "settle"} => state = "PROTECTION_PENDING"
  /\ c = "manage" => state = "PROTECTED"
  /\ c \in {"flatten", "flatCheck"} => state = "EMERGENCY_FLATTEN"

\* what a pass may hold in its session that is not committed
Sessions ==
  /\ Serves(pc, row.state)
  /\ pc = "pre" => ses = [row EXCEPT !.state = "READY_TO_SUBMIT"]
  /\ pc = "settle" =>
       /\ ses.stopId \in StopIds /\ ses = Confirmed(row, ses.stopId)
  /\ pc \notin {"pre", "settle"} => ses = row

\* an intent holds nothing before its first fill, and from then on the row of
\* the protection is as large as the captured fills
NoExposure ==
  {"INTENT_CREATED", "RISK_APPROVED", "READY_TO_SUBMIT", "SUBMITTING", "AMBIGUOUS",
   "RECONCILING", "ACKNOWLEDGED", "CANCELLED"}
Exposure == {"PROTECTION_PENDING", "PROTECTED", "MANAGING", "EMERGENCY_FLATTEN", "CLOSED"}

RowOK ==
  /\ row.state \in NoExposure \cup Exposure
  /\ row.state \in NoExposure =>
       row.fills = 0 /\ row.stopLots = 0 /\ row.confirmed = 0 /\ row.stopId = NoStop
  /\ row.state \in Exposure =>
       0 < row.fills /\ row.stopLots = row.fills /\ row.confirmed <= row.fills
  /\ row.fills <= entry.filled
  /\ row.state \in Exposure \cup {"ACKNOWLEDGED"} => row.entryId = "known"
  /\ row.state \in {"PROTECTED", "MANAGING"} =>
       row.confirmed = row.fills /\ row.stopId # NoStop

EntryOK == ~Known(entry) => entry.filled = 0

IInv == TypeOK /\ Sessions /\ RowOK /\ EntryOK

------------------------------------------------------------------------------
\* A new intent has no order, and nothing is uncommitted.
LEMMA InitInv == Init => IInv
  BY VenueAssumption DEF Init, VenueInit, NewIntent, IInv, TypeOK, VenueTypeOK,
     OrderPlaces, StopPlaces, Rows, Calls, KillLevels, States, Claimable, SafetyClaimable,
     PreSubmit, Uncertain, Sessions, Serves, RowOK, EntryOK, Known, NoExposure, Exposure

(* What the broker does by itself changes no row and takes no fill back.   *)
LEMMA BrokerStep ==
  ASSUME VenueTypeOK, VenueNext
  PROVE  VenueTypeOK' /\ entry.filled <= entry'.filled /\ (EntryOK => EntryOK')
<1> USE DEF VenueTypeOK, OrderPlaces, StopPlaces, EntryOK, Known
<1>1. CASE EntryArrives
  BY <1>1 DEF EntryArrives
<1>2. CASE EntryFills
  BY <1>2, VenueAssumption DEF EntryFills
<1>3. CASE EntryEnds
  BY <1>3 DEF EntryEnds
<1>4. CASE StopArrives
  BY <1>4 DEF StopArrives, StopsAt
<1>5. CASE StopTriggers
  BY <1>5 DEF StopTriggers, Legs, StopsAt
<1>6. CASE StopDropped
  BY <1>6 DEF StopDropped, Legs, StopsAt
<1>7. CASE FlatArrives
  BY <1>7 DEF FlatArrives
<1>8. CASE FlatFills
  BY <1>8 DEF FlatFills
<1>9. CASE FlatEnds
  BY <1>9 DEF FlatEnds
<1> QED
  BY <1>1, <1>2, <1>3, <1>4, <1>5, <1>6, <1>7, <1>8, <1>9 DEF VenueNext

\* The states the handlers write are states.
LEMMA StateNames ==
  {"READY_TO_SUBMIT", "SUBMITTING", "AMBIGUOUS", "RECONCILING", "ACKNOWLEDGED",
   "PROTECTION_PENDING", "PROTECTED", "MANAGING", "EMERGENCY_FLATTEN", "CLOSED",
   "CANCELLED"} \subseteq States
  BY DEF States, Claimable, SafetyClaimable, PreSubmit, Uncertain

(* Every update a handler makes of the rows gives rows again.              *)
LEMMA RowUpdates ==
  ASSUME NEW s \in Rows
  PROVE  /\ Submitting(s) \in Rows /\ Acknowledged(s) \in Rows
         /\ Ambiguous(s) \in Rows /\ NotFound(s) \in Rows
         /\ Later(s) \in Rows /\ Opened(s) \in Rows
         /\ Flattening(s) \in Rows /\ Closed(s) \in Rows /\ Protected(s) \in Rows
         /\ \A id \in StopIds : Armed(s, id) \in Rows /\ Confirmed(s, id) \in Rows
  BY StateNames DEF Rows, Submitting, Acknowledged, Ambiguous, NotFound, Later, Opened,
     Flattening, Closed, Protected, Armed, Confirmed

\* Captured fills give rows again.
LEMMA CapturedRows ==
  ASSUME NEW s \in Rows, VenueTypeOK
  PROVE  Captured(s) \in Rows
  BY DEF Rows, VenueTypeOK, Captured, Seen

(* A post leaves an order where orders can be.                             *)
LEMMA PostedOrder ==
  ASSUME NEW fate,
         entry \in [at : OrderPlaces, filled : 0 .. Planned],
         flat \in [at : OrderPlaces, lots : 0 .. Planned],
         NEW lots \in 0 .. Planned
  PROVE  /\ Posted(entry, fate, [at |-> "live", filled |-> 0])
              \in [at : OrderPlaces, filled : 0 .. Planned]
         /\ Posted(flat, fate, [at |-> "live", lots |-> lots])
              \in [at : OrderPlaces, lots : 0 .. Planned]
  BY VenueAssumption DEF Posted, OrderPlaces

\* A post takes no fill back, and an unknown order has none.
LEMMA PostedFills ==
  ASSUME NEW fate, NEW order, order.filled \in Nat,
         ~Known(order) => order.filled = 0
  PROVE  LET new == Posted(order, fate, [at |-> "live", filled |-> 0])
         IN  /\ order.filled <= new.filled
             /\ ~Known(new) => new.filled = 0
  BY DEF Posted, Known

\* A match names a stop order.
LEMMA ReadId ==
  ASSUME NEW lots, NEW id, ReadProtection(lots, id).outcome = "MATCHED"
  PROVE  ReadProtection(lots, id).id \in StopIds
  BY DEF ReadProtection, Legs, StopsAt

\* Every step keeps the types.
LEMMA StepType == TypeOK /\ [Next]_vars => TypeOK'
<1> SUFFICES ASSUME TypeOK, [Next]_vars PROVE TypeOK'
  OBVIOUS
<1> USE StateNames, VenueAssumption, RowUpdates DEF TypeOK, VenueTypeOK, Calls, Quiet, Still
<1>1. CASE StartPreSubmit
  BY <1>1 DEF StartPreSubmit, Due, Flush, Rows
<1>2. CASE CancelPending
  BY <1>2 DEF CancelPending, Due, Done, Commit, Rows
<1>3. CASE StartRecovery
  BY <1>3 DEF StartRecovery, Due, Commit, Rows
<1>4. CASE StartSafety
  BY <1>4 DEF StartSafety, Due, Flush, Claimable, SafetyClaimable, Uncertain, PreSubmit, Rows
<1>5. CASE LookBeforeSubmit
  BY <1>5 DEF LookBeforeSubmit, Retry, Done, Commit
<1>6. CASE SubmitBlocked
  BY <1>6 DEF SubmitBlocked, Retry, Done, Commit
<1>7. CASE SubmitAcked
  BY <1>7, PostedOrder DEF SubmitAcked, PostEntry, Commit
<1>8. CASE SubmitFails
  <2>1. entry' \in [at : OrderPlaces, filled : 0 .. Planned]
    BY <1>8, PostedOrder DEF SubmitFails, PostEntry
  <2>2. row' \in Rows /\ ses' \in Rows /\ pc' \in Calls
    BY <1>8 DEF SubmitFails, Raise, Dies, Retry, Done, Commit
  <2> QED
    BY <1>8, <2>1, <2>2 DEF SubmitFails
<1>9. CASE RecoverSubmission
  BY <1>9 DEF RecoverSubmission, Retry, Done, Commit
<1>10. CASE ReadFillsFails
  BY <1>10 DEF ReadFillsFails, Raise, Done, Commit
<1>11. CASE ReadFillsAfterAck
  BY <1>11, CapturedRows DEF ReadFillsAfterAck, Retry, Done, Commit
<1>12. CASE ReadFillsWhilePending
  BY <1>12, CapturedRows DEF ReadFillsWhilePending, Commit
<1>13. CASE ArmStop
  <2>1. stops' \in [StopIds -> [at : StopPlaces, lots : 0 .. Planned]]
    <3>1. ses.stopLots \in 0 .. Planned
      BY DEF Rows
    <3>2. ASSUME NEW id \in StopIds, NEW delta \in 1 .. ses.stopLots, NEW fate,
                 PostStop(id, delta, fate)
          PROVE  stops' \in [StopIds -> [at : StopPlaces, lots : 0 .. Planned]]
      BY <3>1, <3>2 DEF PostStop, StopPlaces
    <3> QED
      BY <1>13, <3>2 DEF ArmStop
  <2>2. row' \in Rows /\ ses' \in Rows /\ pc' \in Calls
    <3>1. ASSUME ArmFails PROVE row' \in Rows /\ ses' \in Rows /\ pc' \in Calls
      BY <3>1 DEF ArmFails, BeginFlatten, Dies, Retry, Done, Commit
    <3>2. ASSUME NEW id \in StopIds, AfterArm(id)
          PROVE  row' \in Rows /\ ses' \in Rows /\ pc' \in Calls
      BY <3>2 DEF AfterArm, Retry, Done, Commit
    <3> QED
      BY <1>13, <3>1, <3>2 DEF ArmStop, Legs, StopsAt, BeginFlatten, Commit
  <2> QED
    BY <1>13, <2>1, <2>2 DEF ArmStop
<1>14. CASE CheckProtection
  <2>1. ASSUME NEW outcome, CheckFails(outcome)
        PROVE  row' \in Rows /\ ses' \in Rows /\ pc' \in Calls
    <3>1. Unarmed(ses) \in Rows
      BY DEF Unarmed, Rows
    <3> QED
      BY <2>1, <3>1 DEF CheckFails, BeginFlatten, Retry, Done, Commit
  <2>2. ASSUME NEW read, read.outcome = "MATCHED" => read.id \in StopIds, CheckExact(read)
        PROVE  row' \in Rows /\ ses' \in Rows /\ pc' \in Calls
    <3>1. Confirmed(ses, read.id) \in Rows
      BY <2>2 DEF CheckExact, IsExact
    <3> QED
      BY <2>2, <3>1, RowUpdates DEF CheckExact, Commit, Flush
  <2> QED
    BY <1>14, <2>1, <2>2, ReadId DEF CheckProtection
<1>15. CASE SettleEntry
  BY <1>15 DEF SettleEntry, Retry, Done, Commit
<1>16. CASE StartManaging
  BY <1>16 DEF StartManaging, Done, Commit, Rows
<1>17. CASE PostFlatten
  BY <1>17, PostedOrder DEF PostFlatten, PostFlat, Dies, Retry, Done, Commit, Rows
<1>18. CASE LookUpFlatten
  BY <1>18 DEF LookUpFlatten, Retry, Done, Commit
<1>19. CASE BrokerNext
  BY <1>19, BrokerStep DEF BrokerNext, workerVars
<1>20. CASE Crash
  BY <1>20 DEF Crash, Dies
<1>21. CASE RetryFallsDue
  BY <1>21 DEF RetryFallsDue, Done, Commit, Rows
<1>22. CASE LotAges
  BY <1>22 DEF LotAges
<1>23. CASE OwnerSetsKillSwitch
  BY <1>23 DEF OwnerSetsKillSwitch
<1>24. CASE UNCHANGED vars
  BY <1>24 DEF vars
<1> QED
  BY <1>1, <1>2, <1>3, <1>4, <1>5, <1>6, <1>7, <1>8, <1>9, <1>10, <1>11, <1>12, <1>13, <1>14, <1>15, <1>16, <1>17, <1>18, <1>19, <1>20, <1>21, <1>22, <1>23, <1>24
  DEF Next, WorkerNext

(* What the updates leave alone, and what they set.                        *)
SameExposure(t, s) ==
  /\ t.fills = s.fills /\ t.stopLots = s.stopLots
  /\ t.confirmed = s.confirmed /\ t.stopId = s.stopId

\* The updates of the entry leave the exposure alone.
LEMMA EntryColumns ==
  ASSUME NEW s \in Rows
  PROVE  /\ Submitting(s).state = "SUBMITTING" /\ SameExposure(Submitting(s), s)
         /\ Ambiguous(s).state = "AMBIGUOUS" /\ SameExposure(Ambiguous(s), s)
         /\ NotFound(s).state = "READY_TO_SUBMIT" /\ SameExposure(NotFound(s), s)
         /\ Acknowledged(s).state = "ACKNOWLEDGED" /\ SameExposure(Acknowledged(s), s)
         /\ Acknowledged(s).entryId = "known"
         /\ Later(s).state = s.state /\ SameExposure(Later(s), s)
         /\ Later(s).entryId = s.entryId
  BY DEF Rows, SameExposure, Submitting, Ambiguous, NotFound, Acknowledged, Later

\* The changes of the state alone leave the exposure alone.
LEMMA ExposureColumns ==
  ASSUME NEW s \in Rows
  PROVE  /\ Opened(s).state = "PROTECTION_PENDING" /\ SameExposure(Opened(s), s)
         /\ Opened(s).entryId = s.entryId
         /\ Protected(s).state = "PROTECTED" /\ SameExposure(Protected(s), s)
         /\ Protected(s).entryId = s.entryId
         /\ Flattening(s).state = "EMERGENCY_FLATTEN" /\ SameExposure(Flattening(s), s)
         /\ Flattening(s).entryId = s.entryId
         /\ Closed(s).state = "CLOSED" /\ SameExposure(Closed(s), s)
         /\ Closed(s).entryId = s.entryId
  BY DEF Rows, SameExposure, Opened, Protected, Flattening, Closed

\* What arming, matching and capturing write.
LEMMA StopColumns ==
  ASSUME NEW s \in Rows, NEW id \in StopIds \cup {NoStop}
  PROVE  /\ Armed(s, id).state = s.state /\ Armed(s, id).entryId = s.entryId
         /\ Armed(s, id).fills = s.fills /\ Armed(s, id).stopLots = s.stopLots
         /\ Armed(s, id).confirmed = s.confirmed /\ Armed(s, id).stopId = id
         /\ Confirmed(s, id).state = s.state /\ Confirmed(s, id).entryId = s.entryId
         /\ Confirmed(s, id).fills = s.fills /\ Confirmed(s, id).stopLots = s.stopLots
         /\ Confirmed(s, id).confirmed = s.stopLots /\ Confirmed(s, id).stopId = id
         /\ Unarmed(s) = Armed(s, NoStop)
         /\ Captured(s).state = s.state /\ Captured(s).entryId = s.entryId
         /\ Captured(s).confirmed = s.confirmed /\ Captured(s).stopId = s.stopId
         /\ Captured(s).fills = Seen(s)
         /\ Captured(s).stopLots = IF Seen(s) > s.stopLots THEN Seen(s) ELSE s.stopLots
  BY DEF Rows, Armed, Unarmed, Confirmed, Captured

(* The same for the updates after which a pass waits for its next turn.    *)
LEMMA LaterColumns ==
  ASSUME NEW s \in Rows
  PROVE  /\ Later(Ambiguous(s)).state = "AMBIGUOUS" /\ SameExposure(Later(Ambiguous(s)), s)
         /\ Later(NotFound(s)).state = "READY_TO_SUBMIT" /\ SameExposure(Later(NotFound(s)), s)
         /\ \A id \in StopIds :
              /\ Later(Armed(s, id)).state = s.state
              /\ Later(Armed(s, id)).entryId = s.entryId
              /\ SameExposure(Later(Armed(s, id)), Armed(s, id))
<1>1. Ambiguous(s) \in Rows /\ NotFound(s) \in Rows /\ \A id \in StopIds : Armed(s, id) \in Rows
  BY RowUpdates
<1>2. Later(Ambiguous(s)).state = "AMBIGUOUS" /\ SameExposure(Later(Ambiguous(s)), s)
  <2>1. Later(Ambiguous(s)).state = Ambiguous(s).state /\ SameExposure(Later(Ambiguous(s)), Ambiguous(s))
    BY <1>1, EntryColumns
  <2> QED
    BY <2>1, EntryColumns DEF SameExposure
<1>3. Later(NotFound(s)).state = "READY_TO_SUBMIT" /\ SameExposure(Later(NotFound(s)), s)
  <2>1. Later(NotFound(s)).state = NotFound(s).state /\ SameExposure(Later(NotFound(s)), NotFound(s))
    BY <1>1, EntryColumns
  <2> QED
    BY <2>1, EntryColumns DEF SameExposure
<1>4. ASSUME NEW id \in StopIds
      PROVE  /\ Later(Armed(s, id)).state = s.state
             /\ Later(Armed(s, id)).entryId = s.entryId
             /\ SameExposure(Later(Armed(s, id)), Armed(s, id))
  <2>1. /\ Later(Armed(s, id)).state = Armed(s, id).state
        /\ Later(Armed(s, id)).entryId = Armed(s, id).entryId
        /\ SameExposure(Later(Armed(s, id)), Armed(s, id))
    BY <1>1, EntryColumns
  <2> QED
    BY <2>1, StopColumns
<1> QED
  BY <1>2, <1>3, <1>4

(* Sessions, RowOK and EntryOK, given the types of both states.            *)
LEMMA StepRow == IInv /\ TypeOK' /\ [Next]_vars => Sessions' /\ RowOK' /\ EntryOK'
<1> SUFFICES ASSUME IInv, TypeOK', [Next]_vars PROVE Sessions' /\ RowOK' /\ EntryOK'
  OBVIOUS
<1>r. row \in Rows /\ ses \in Rows
  BY DEF IInv, TypeOK
<1>f. /\ row.fills \in Nat /\ row.stopLots \in Nat /\ row.confirmed \in Nat
      /\ row.stopId \in StopIds \cup {NoStop} /\ ses.stopId \in StopIds \cup {NoStop}
      /\ entry.filled \in Nat
  BY <1>r, VenueAssumption DEF Rows, IInv, TypeOK, VenueTypeOK
<1> USE <1>r, <1>f, VenueAssumption
    DEF IInv, Sessions, Serves, RowOK, EntryOK, NoExposure,
        Exposure, PreSubmit, Uncertain, Known, Quiet, Still, SameExposure
<1>1. CASE StartPreSubmit
  BY <1>1 DEF StartPreSubmit, Due, Flush, Rows
<1>2. CASE CancelPending
  BY <1>2 DEF CancelPending, Due, Done, Commit, Rows
<1>3. CASE StartRecovery
  BY <1>3 DEF StartRecovery, Due, Commit, Rows
<1>4. CASE StartSafety
  BY <1>4 DEF StartSafety, Due, Flush, Claimable, SafetyClaimable, Uncertain, PreSubmit, SafetyClaimable
<1>5. CASE LookBeforeSubmit
  <2>1. ses.state = "READY_TO_SUBMIT" /\ SameExposure(ses, row)
    BY <1>5 DEF LookBeforeSubmit, Rows
  <2>2. /\ Later(ses).state = "READY_TO_SUBMIT" /\ SameExposure(Later(ses), row)
        /\ Submitting(ses).state = "SUBMITTING" /\ SameExposure(Submitting(ses), row)
    BY <2>1, EntryColumns
  <2>3. row.state \in NoExposure
    BY <1>5 DEF LookBeforeSubmit
  <2> QED
    BY <1>5, <2>2, <2>3 DEF LookBeforeSubmit, Retry, Done, Commit
<1>6. CASE SubmitBlocked
  <2>1. /\ Later(Ambiguous(ses)).state = "AMBIGUOUS"
        /\ SameExposure(Later(Ambiguous(ses)), ses)
    BY LaterColumns
  <2> QED
    BY <1>6, <2>1 DEF SubmitBlocked, Retry, Done, Commit
<1>7. CASE SubmitAcked
  BY <1>7, EntryColumns DEF SubmitAcked, PostEntry, Commit, Posted
<1>8. CASE SubmitFails
  <2>1. /\ Later(Ambiguous(ses)).state = "AMBIGUOUS"
        /\ SameExposure(Later(Ambiguous(ses)), ses)
    BY LaterColumns
  <2>2. entry.filled <= entry'.filled /\ EntryOK'
    BY <1>8, PostedFills DEF SubmitFails, PostEntry
  <2>3. row.state = "SUBMITTING" /\ ses = row
    BY <1>8 DEF SubmitFails
  <2>4. Sessions' /\ row'.state \in {"SUBMITTING", "AMBIGUOUS"} /\ SameExposure(row', row)
    BY <1>8, <2>1, <2>3 DEF SubmitFails, Raise, Dies, Retry, Done, Commit
  <2>5. entry'.filled \in Nat
    BY VenueAssumption DEF TypeOK, VenueTypeOK
  <2>6. RowOK'
    BY <2>2, <2>3, <2>4, <2>5
  <2> QED
    BY <2>2, <2>4, <2>6
<1>9. CASE RecoverSubmission
  <2>1. /\ Later(NotFound(ses)).state = "READY_TO_SUBMIT"
        /\ SameExposure(Later(NotFound(ses)), ses)
    BY LaterColumns
  <2>2. row.state = "RECONCILING" /\ ses = row
    BY <1>9 DEF RecoverSubmission
  <2> QED
    BY <1>9, <2>1, <2>2, EntryColumns DEF RecoverSubmission, Retry, Done, Commit
<1>10. CASE ReadFillsFails
  BY <1>10 DEF ReadFillsFails, Raise, Done, Commit
<1>11. CASE ReadFillsAfterAck
  BY <1>11, EntryColumns, ExposureColumns, StopColumns, CapturedRows DEF ReadFillsAfterAck, Retry, Done, Commit, Seen, TypeOK
<1>12. CASE ReadFillsWhilePending
  BY <1>12, StopColumns DEF ReadFillsWhilePending, Commit, Seen
<1>13. CASE ArmStop
  <2>1. row.state = "PROTECTION_PENDING" /\ ses = row
    BY <1>13 DEF ArmStop
  <2>2. ASSUME ArmFails PROVE Sessions' /\ RowOK'
    BY <1>13, <2>1, <2>2, EntryColumns, ExposureColumns
    DEF ArmStop, ArmFails, BeginFlatten, Dies, Retry, Done, Commit
  <2>3. ASSUME NEW id \in StopIds, AfterArm(id) PROVE Sessions' /\ RowOK'
    <3>1. /\ Later(Armed(row, id)).state = row.state
          /\ Later(Armed(row, id)).entryId = row.entryId
          /\ SameExposure(Later(Armed(row, id)), Armed(row, id))
      BY LaterColumns
    <3> QED
      BY <1>13, <2>1, <2>3, <3>1, StopColumns DEF ArmStop, AfterArm, Retry, Done, Commit
  <2>4. ASSUME BeginFlatten(ses) PROVE Sessions' /\ RowOK'
    BY <1>13, <2>1, <2>4, ExposureColumns DEF ArmStop, BeginFlatten, Commit
  <2> QED
    BY <1>13, <2>2, <2>3, <2>4 DEF ArmStop, Legs, StopsAt
<1>14. CASE CheckProtection
  <2>1. row.state = "PROTECTION_PENDING" /\ ses = row /\ UNCHANGED entry
    BY <1>14 DEF CheckProtection
  <2>2. ASSUME NEW outcome, CheckFails(outcome) PROVE Sessions' /\ RowOK'
    BY <2>1, <2>2, EntryColumns, ExposureColumns, StopColumns
    DEF CheckFails, BeginFlatten, Retry, Done, Commit
  <2>3. ASSUME NEW read, read.outcome = "MATCHED" => read.id \in StopIds, CheckExact(read)
        PROVE  Sessions' /\ RowOK'
    <3>1. read.id \in StopIds
      BY <2>3 DEF CheckExact, IsExact
    <3>2. Confirmed(ses, read.id) \in Rows
      BY <3>1, RowUpdates
    <3>3. Confirmed(ses, read.id).stopId = read.id
      BY <3>1, StopColumns
    <3>4. CASE ses.fills >= Planned
      BY <2>1, <2>3, <3>1, <3>2, <3>4, StopColumns, ExposureColumns DEF CheckExact, Commit
    <3>5. CASE ~(ses.fills >= Planned)
      BY <2>1, <2>3, <3>1, <3>3, <3>5 DEF CheckExact, Flush
    <3> QED
      BY <3>4, <3>5
  <2> QED
    BY <1>14, <2>1, <2>2, <2>3, ReadId DEF CheckProtection
<1>15. CASE SettleEntry
  BY <1>15, EntryColumns, ExposureColumns, StopColumns DEF SettleEntry, Retry, Done, Commit
<1>16. CASE StartManaging
  BY <1>16 DEF StartManaging, Done, Commit, Rows
<1>17. CASE PostFlatten
  BY <1>17, EntryColumns DEF PostFlatten, PostFlat, Dies, Retry, Done, Commit
<1>18. CASE LookUpFlatten
  BY <1>18, EntryColumns, ExposureColumns DEF LookUpFlatten, Retry, Done, Commit
<1>19. CASE BrokerNext
  <2>1. entry.filled <= entry'.filled /\ EntryOK' /\ entry'.filled \in Nat
    BY <1>19, BrokerStep, VenueAssumption DEF BrokerNext, TypeOK, VenueTypeOK
  <2> QED
    BY <1>19, <2>1 DEF BrokerNext, workerVars
<1>20. CASE Crash
  BY <1>20 DEF Crash, Dies
<1>21. CASE RetryFallsDue
  BY <1>21 DEF RetryFallsDue, Done, Commit, Rows
<1>22. CASE LotAges
  BY <1>22 DEF LotAges
<1>23. CASE OwnerSetsKillSwitch
  BY <1>23 DEF OwnerSetsKillSwitch
<1>24. CASE UNCHANGED vars
  BY <1>24 DEF vars
<1> QED
  BY <1>1, <1>2, <1>3, <1>4, <1>5, <1>6, <1>7, <1>8, <1>9, <1>10, <1>11, <1>12, <1>13, <1>14, <1>15, <1>16, <1>17, <1>18, <1>19, <1>20, <1>21, <1>22, <1>23, <1>24
  DEF Next, WorkerNext

------------------------------------------------------------------------------
(* The invariant is inductive, so it holds in every reachable state.       *)
THEOREM Invariant == Spec => []IInv
<1>1. IInv /\ [Next]_vars => IInv'
  BY StepType, StepRow DEF IInv
<1> QED
  BY <1>1, InitInv, PTL DEF Spec

(* Type correctness: every handler leaves rows, session and venue in their *)
(* types; in particular no handler captures, confirms or arms more lots    *)
(* than were planned.                                                      *)
THEOREM TypeCorrect == Spec => []TypeOK
<1>1. IInv => TypeOK
  BY DEF IInv
<1> QED
  BY <1>1, Invariant, PTL

(* A row is durably PROTECTED or MANAGING only on the evidence of a        *)
(* MATCHED read-back of every captured lot, whatever broker, crashes and   *)
(* lost answers did before (_finish_protected, _entry_is_settled).         *)
THEOREM ProtectedEvidence == Spec => []ProtectedMeansConfirmed
<1>1. IInv => ProtectedMeansConfirmed
  BY DEF IInv, RowOK, NoExposure, Exposure, ProtectedMeansConfirmed
<1> QED
  BY <1>1, Invariant, PTL

------------------------------------------------------------------------------
(* Without delayed requests a post that got lost never arrives, and no     *)
(* emergency order exists before the emergency is durable.                 *)
Orders ==
  /\ entry.at # "late" /\ flat.at # "late"
  /\ row.state \notin {"EMERGENCY_FLATTEN", "CLOSED"} => flat.at = "none"

\* The broker by itself makes no order known.
LEMMA BrokerKeepsOrders ==
  ASSUME VenueTypeOK, VenueNext, Orders, UNCHANGED row
  PROVE  /\ Orders' /\ Known(entry)' = Known(entry) /\ Known(flat)' = Known(flat)
<1> USE DEF Orders, Known, VenueTypeOK, OrderPlaces
<1>1. CASE EntryArrives
  BY <1>1 DEF EntryArrives
<1>2. CASE EntryFills
  BY <1>2 DEF EntryFills
<1>3. CASE EntryEnds
  BY <1>3 DEF EntryEnds
<1>4. CASE StopArrives
  BY <1>4 DEF StopArrives
<1>5. CASE StopTriggers
  BY <1>5 DEF StopTriggers
<1>6. CASE StopDropped
  BY <1>6 DEF StopDropped
<1>7. CASE FlatArrives
  BY <1>7 DEF FlatArrives
<1>8. CASE FlatFills
  BY <1>8 DEF FlatFills
<1>9. CASE FlatEnds
  BY <1>9 DEF FlatEnds
<1> QED
  BY <1>1, <1>2, <1>3, <1>4, <1>5, <1>6, <1>7, <1>8, <1>9 DEF VenueNext

\* Without delays a post arrives at once or never.
LEMMA PostedPromptly ==
  ASSUME NEW fate \in Fates, "DELAY" \notin VenueMay, NEW order, NEW new,
         order.at # "late"
  PROVE  Posted(order, fate, new).at # "late"
  BY DEF Posted, Fates, Known

\* Without delays every step keeps the orders and stands before a post only when there is none.
LEMMA StepReplay ==
  ASSUME "DELAY" \notin VenueMay, IInv, IInv', Orders, NoBlindReplay, [Next]_vars
  PROVE  Orders' /\ NoBlindReplay'
<1>r. row \in Rows /\ ses \in Rows
  BY DEF IInv, TypeOK
<1>s. ses.state = row.state \/ pc \in {"pre", "settle"}
  BY DEF IInv, Sessions
<1>t. pc = "settle" => ses.state = row.state
  BY StopColumns, <1>r DEF IInv, Sessions
<1>u. pc = "pre" => ses.state = "READY_TO_SUBMIT" /\ row.state \in PreSubmit
  BY <1>r DEF IInv, Sessions, Rows, Serves
<1>v. Serves(pc, row.state)
  BY DEF IInv, Sessions
<1>w. "arrived" \in Fates
  BY DEF Fates
<1> USE <1>r, <1>s, <1>t, <1>u, <1>v DEF Orders, NoBlindReplay, Quiet, Still, Serves, PreSubmit
<1>1. CASE StartPreSubmit
  BY <1>1 DEF StartPreSubmit, Due, Flush, Known
<1>2. CASE CancelPending
  BY <1>2 DEF CancelPending, Due, Done, Commit, Rows, Known
<1>3. CASE StartRecovery
  BY <1>3 DEF StartRecovery, Due, Commit, Rows, Known, Uncertain
<1>4. CASE StartSafety
  BY <1>4 DEF StartSafety, Due, Flush, Known, SafetyClaimable
<1>5. CASE LookBeforeSubmit
  BY <1>5, EntryColumns DEF LookBeforeSubmit, Retry, Done, Commit, Known
<1>6. CASE SubmitBlocked
  BY <1>6, LaterColumns DEF SubmitBlocked, Retry, Done, Commit, Known
<1>7. CASE SubmitAcked
  BY <1>7, <1>w, PostedPromptly, EntryColumns DEF SubmitAcked, PostEntry, Commit
<1>8. CASE SubmitFails
  <2>1. entry'.at # "late" /\ UNCHANGED flat
    BY <1>8, PostedPromptly DEF SubmitFails, PostEntry
  <2>2. pc' = "idle" /\ row'.state \in {"SUBMITTING", "AMBIGUOUS"}
    BY <1>8, LaterColumns DEF SubmitFails, Raise, Dies, Retry, Done, Commit
  <2>3. flat.at = "none"
    BY <1>8 DEF SubmitFails
  <2> QED
    BY <2>1, <2>2, <2>3
<1>9. CASE RecoverSubmission
  BY <1>9, LaterColumns, EntryColumns DEF RecoverSubmission, Retry, Done, Commit, Known
<1>10. CASE ReadFillsFails
  BY <1>10 DEF ReadFillsFails, Raise, Done, Commit
<1>11. CASE ReadFillsAfterAck
  <2>1. pc' \in {"idle", "arm"} /\ flat.at = "none" /\ UNCHANGED <<entry, flat>>
    BY <1>11 DEF ReadFillsAfterAck, Retry, Done, Commit
  <2> QED
    BY <2>1
<1>12. CASE ReadFillsWhilePending
  BY <1>12 DEF ReadFillsWhilePending, Commit
<1>13. CASE ArmStop
  <2>1. flat.at = "none" /\ UNCHANGED <<entry, flat>>
    BY <1>13 DEF ArmStop
  <2>2. pc' # "submit"
    BY <1>13 DEF ArmStop, AfterArm, ArmFails, BeginFlatten, Raise, Dies, Retry, Done, Commit
  <2> QED
    BY <2>1, <2>2 DEF Known
<1>14. CASE CheckProtection
  <2>1. flat.at = "none" /\ UNCHANGED <<entry, flat>>
    BY <1>14 DEF CheckProtection
  <2>2. pc' # "submit"
    BY <1>14 DEF CheckProtection, CheckExact, CheckFails, BeginFlatten, Retry, Done, Commit, Flush
  <2> QED
    BY <2>1, <2>2 DEF Known
<1>15. CASE SettleEntry
  <2>1. flat.at = "none" /\ UNCHANGED <<entry, flat>> /\ pc' # "submit"
    BY <1>15 DEF SettleEntry, Retry, Done, Commit
  <2> QED
    BY <2>1 DEF Known
<1>16. CASE StartManaging
  BY <1>16 DEF StartManaging, Done, Commit, Known
<1>17. CASE PostFlatten
  <2>1. flat'.at # "late"
    BY <1>17, <1>w, PostedPromptly DEF PostFlatten, PostFlat
  <2>2. UNCHANGED entry /\ pc' = "idle" /\ row'.state = "EMERGENCY_FLATTEN"
    BY <1>17, EntryColumns DEF PostFlatten, Dies, Retry, Done, Commit
  <2> QED
    BY <2>1, <2>2
<1>18. CASE LookUpFlatten
  BY <1>18, EntryColumns, ExposureColumns DEF LookUpFlatten, Retry, Done, Commit
<1>19. CASE BrokerNext
  BY <1>19, BrokerKeepsOrders DEF BrokerNext, workerVars, IInv, TypeOK
<1>20. CASE Crash
  BY <1>20 DEF Crash, Dies, Known
<1>21. CASE RetryFallsDue
  BY <1>21 DEF RetryFallsDue, Done, Commit, Rows, Known
<1>22. CASE LotAges
  BY <1>22 DEF LotAges, Known
<1>23. CASE OwnerSetsKillSwitch
  BY <1>23 DEF OwnerSetsKillSwitch, Known
<1>24. CASE UNCHANGED vars
  BY <1>24 DEF vars, Known
<1> QED
  BY <1>1, <1>2, <1>3, <1>4, <1>5, <1>6, <1>7, <1>8, <1>9, <1>10, <1>11, <1>12, <1>13, <1>14, <1>15, <1>16, <1>17, <1>18, <1>19, <1>20, <1>21, <1>22, <1>23, <1>24
  DEF Next, WorkerNext

(* Unless a request can arrive after its answer was given up, no pass ever *)
(* stands before a post of the entry or of the emergency order while the   *)
(* broker already has that order ("without blind entry/protection/close    *)
(* replay", process_execution_intent).                                     *)
THEOREM NoReplay ==
  ASSUME "DELAY" \notin VenueMay
  PROVE  Spec => []NoBlindReplay
<1>1. Init => Orders /\ NoBlindReplay
  BY DEF Init, VenueInit, NewIntent, Orders, NoBlindReplay
<1>2. IInv /\ IInv' /\ Orders /\ NoBlindReplay /\ [Next]_vars => Orders' /\ NoBlindReplay'
  BY StepReplay
<1> QED
  BY <1>1, <1>2, Invariant, PTL DEF Spec

------------------------------------------------------------------------------
(* Refinement.  A step that leaves the phase and both quantities alone is  *)
(* a stutter of the contract; the others are one of its actions each.      *)
Same == row'.fills = row.fills /\ row'.confirmed = row.confirmed

\* The phase of every state.
LEMMA PhaseOf ==
  /\ row.state \in PreSubmit => Phase = "pending"
  /\ row.state \in Uncertain => Phase = "sent"
  /\ row.state = "ACKNOWLEDGED" => Phase = "known"
  /\ row.state = "PROTECTION_PENDING" => Phase = "open"
  /\ row.state \in {"PROTECTED", "MANAGING"} => Phase = "guarded"
  /\ row.state = "EMERGENCY_FLATTEN" => Phase = "closing"
  /\ row.state = "CLOSED" => Phase = "closed"
  /\ row.state = "CANCELLED" => Phase = "dropped"
  BY DEF Phase, PreSubmit, Uncertain

\* The same after a step.
LEMMA PhaseOfNext ==
  /\ row'.state \in PreSubmit => Phase' = "pending"
  /\ row'.state \in Uncertain => Phase' = "sent"
  /\ row'.state = "ACKNOWLEDGED" => Phase' = "known"
  /\ row'.state = "PROTECTION_PENDING" => Phase' = "open"
  /\ row'.state \in {"PROTECTED", "MANAGING"} => Phase' = "guarded"
  /\ row'.state = "EMERGENCY_FLATTEN" => Phase' = "closing"
  /\ row'.state = "CLOSED" => Phase' = "closed"
  /\ row'.state = "CANCELLED" => Phase' = "dropped"
  BY DEF Phase, PreSubmit, Uncertain

\* Every step is a step of the contract, or leaves its variables alone.
LEMMA StepContract ==
  ASSUME IInv, IInv', [Next]_vars
  PROVE  [Contract!Next]_(Contract!cvars)
<1>r. row \in Rows /\ ses \in Rows /\ row' \in Rows
  BY DEF IInv, TypeOK
<1>f. /\ row.fills \in 0 .. Planned /\ row'.fills \in 0 .. Planned
      /\ row.confirmed \in 0 .. Planned
  BY <1>r DEF Rows
<1>s. pc \notin {"pre", "settle"} => ses = row
  BY DEF IInv, Sessions
<1>v. Serves(pc, row.state)
  BY DEF IInv, Sessions
<1>stutter. ASSUME Phase' = Phase, Same PROVE [Contract!Next]_(Contract!cvars)
  BY <1>stutter DEF Same, Contract!cvars
<1> USE <1>r, <1>f, <1>s, <1>v, PhaseOf, PhaseOfNext, VenueAssumption
    DEF Quiet, Still, Serves, Same, PreSubmit, Uncertain, SameExposure
<1>1. CASE StartPreSubmit
  BY <1>1, <1>stutter DEF StartPreSubmit, Due, Flush
<1>2. CASE CancelPending
  <2>1. row.state \in PreSubmit /\ row'.state = "CANCELLED" /\ Same
    BY <1>2 DEF CancelPending, Due, Done, Commit, Rows
  <2> QED
    BY <2>1 DEF Contract!Next, Contract!Drop
<1>3. CASE StartRecovery
  <2>1. row.state \in Uncertain /\ row'.state = "RECONCILING" /\ Same
    BY <1>3 DEF StartRecovery, Due, Commit, Rows
  <2> QED
    BY <2>1, <1>stutter
<1>4. CASE StartSafety
  <2>1. UNCHANGED row
    BY <1>4 DEF StartSafety, Flush
  <2> QED
    BY <2>1, <1>stutter DEF Phase
<1>5. CASE LookBeforeSubmit
  <2>1. row.state \in PreSubmit /\ ses.fills = row.fills /\ ses.confirmed = row.confirmed
        /\ ses.state = "READY_TO_SUBMIT"
    BY <1>5 DEF LookBeforeSubmit, IInv, Sessions, Rows
  <2>2. row'.state \in {"READY_TO_SUBMIT", "SUBMITTING"} /\ Same
    BY <1>5, <2>1, EntryColumns DEF LookBeforeSubmit, Retry, Done, Commit
  <2> QED
    BY <2>1, <2>2, <1>stutter DEF Contract!Next, Contract!Send
<1>6. CASE SubmitBlocked
  <2>1. row.state = "SUBMITTING" /\ row'.state = "AMBIGUOUS" /\ Same
    BY <1>6, LaterColumns DEF SubmitBlocked, Retry, Done, Commit
  <2> QED
    BY <2>1, <1>stutter
<1>7. CASE SubmitAcked
  <2>1. row.state = "SUBMITTING" /\ row'.state = "ACKNOWLEDGED" /\ Same
    BY <1>7, EntryColumns DEF SubmitAcked, Commit
  <2> QED
    BY <2>1 DEF Contract!Next, Contract!Know
<1>8. CASE SubmitFails
  <2>1. row.state = "SUBMITTING" /\ row'.state \in {"SUBMITTING", "AMBIGUOUS"} /\ Same
    BY <1>8, LaterColumns DEF SubmitFails, Raise, Dies, Retry, Done, Commit
  <2> QED
    BY <2>1, <1>stutter
<1>9. CASE RecoverSubmission
  <2>1. /\ row.state = "RECONCILING"
        /\ row'.state \in {"RECONCILING", "READY_TO_SUBMIT", "ACKNOWLEDGED"} /\ Same
    BY <1>9, LaterColumns, EntryColumns DEF RecoverSubmission, Retry, Done, Commit
  <2> QED
    BY <2>1, <1>stutter DEF Contract!Next, Contract!FoundAbsent, Contract!Know
<1>10. CASE ReadFillsFails
  BY <1>10, <1>stutter DEF ReadFillsFails, Raise, Done, Commit
<1>11. CASE ReadFillsAfterAck
  <2>1. row.state = "ACKNOWLEDGED" /\ ses = row
    BY <1>11 DEF ReadFillsAfterAck
  <2>2. CASE row' = Later(ses)
    BY <2>1, <2>2, EntryColumns, <1>stutter
  <2>3. CASE row' = Opened(Captured(ses))
    <3>1. Captured(ses) \in Rows
      BY CapturedRows DEF IInv, TypeOK
    <3>2. row'.state = "PROTECTION_PENDING" /\ row'.confirmed = row.confirmed
      BY <2>1, <2>3, <3>1, ExposureColumns, StopColumns
    <3>3. row'.fills \in 1 .. Planned
      BY <3>2 DEF IInv, RowOK, Exposure
    <3> QED
      BY <2>1, <3>2, <3>3 DEF Contract!Next, Contract!Open
  <2> QED
    BY <1>11, <2>2, <2>3 DEF ReadFillsAfterAck, Retry, Done, Commit
<1>12. CASE ReadFillsWhilePending
  <2>1. row.state = "PROTECTION_PENDING" /\ row' = Captured(row)
    BY <1>12 DEF ReadFillsWhilePending, Commit
  <2>2. /\ row'.state = row.state /\ row'.confirmed = row.confirmed
        /\ row'.fills \in row.fills .. Planned
    BY <2>1, StopColumns DEF Seen, IInv, RowOK
  <2> QED
    BY <2>1, <2>2, <1>stutter DEF Contract!Next, Contract!Grow
<1>13. CASE ArmStop
  <2>1. row.state = "PROTECTION_PENDING" /\ ses = row
    BY <1>13 DEF ArmStop
  <2>2. ASSUME ArmFails PROVE row'.state \in {row.state, "EMERGENCY_FLATTEN"} /\ Same
    BY <1>13, <2>1, <2>2, EntryColumns, ExposureColumns
    DEF ArmStop, ArmFails, BeginFlatten, Dies, Retry, Done, Commit
  <2>3. ASSUME NEW id \in StopIds, AfterArm(id) PROVE row'.state = row.state /\ Same
    BY <2>1, <2>3, LaterColumns, StopColumns DEF AfterArm, Retry, Done, Commit
  <2>4. ASSUME BeginFlatten(ses) PROVE row'.state = "EMERGENCY_FLATTEN" /\ Same
    BY <2>1, <2>4, ExposureColumns DEF BeginFlatten, Commit
  <2>5. row'.state \in {row.state, "EMERGENCY_FLATTEN"} /\ Same
    BY <1>13, <2>2, <2>3, <2>4 DEF ArmStop, Legs, StopsAt
  <2> QED
    BY <2>1, <2>5, <1>stutter DEF Contract!Next, Contract!Emergency
<1>14. CASE CheckProtection
  <2>1. row.state = "PROTECTION_PENDING" /\ ses = row /\ row.stopLots = row.fills
    BY <1>14 DEF CheckProtection, IInv, RowOK, Exposure
  <2>2. ASSUME NEW outcome, CheckFails(outcome)
        PROVE  row'.state \in {row.state, "EMERGENCY_FLATTEN"} /\ Same
    BY <2>1, <2>2, EntryColumns, ExposureColumns, StopColumns
    DEF CheckFails, BeginFlatten, Retry, Done, Commit
  <2>3. ASSUME NEW read, read.outcome = "MATCHED" => read.id \in StopIds, CheckExact(read)
        PROVE  \/ row' = row
               \/ row'.state = "PROTECTED" /\ row'.fills = row.fills
                  /\ row'.confirmed = row.fills
    <3>1. read.id \in StopIds
      BY <2>3 DEF CheckExact, IsExact
    <3>2. Confirmed(ses, read.id) \in Rows
      BY <3>1, RowUpdates
    <3> QED
      BY <2>1, <2>3, <3>1, <3>2, StopColumns, ExposureColumns DEF CheckExact, Commit, Flush
  <2>4. \/ row'.state \in {row.state, "EMERGENCY_FLATTEN"} /\ Same
        \/ row'.state = "PROTECTED" /\ row'.fills = row.fills /\ row'.confirmed = row.fills
    BY <1>14, <2>2, <2>3, ReadId DEF CheckProtection
  <2> QED
    BY <2>1, <2>4, <1>stutter DEF Contract!Next, Contract!Emergency, Contract!Guard
<1>15. CASE SettleEntry
  <2>1. /\ row.state = "PROTECTION_PENDING" /\ ses = Confirmed(row, ses.stopId)
        /\ ses.stopId \in StopIds /\ row.stopLots = row.fills
    BY <1>15 DEF SettleEntry, IInv, Sessions, RowOK, Exposure
  <2>2. ses.state = row.state /\ ses.fills = row.fills /\ ses.confirmed = row.fills
    BY <2>1, StopColumns
  <2>3. /\ row'.state \in {row.state, "PROTECTED"}
        /\ row'.fills = row.fills /\ row'.confirmed = row.fills
    BY <1>15, <2>2, EntryColumns, ExposureColumns DEF SettleEntry, Retry, Done, Commit
  <2> QED
    BY <2>1, <2>3 DEF Contract!Next, Contract!Cover, Contract!Guard
<1>16. CASE StartManaging
  <2>1. row.state = "PROTECTED" /\ row'.state = "MANAGING" /\ Same
    BY <1>16 DEF StartManaging, Done, Commit, Rows
  <2> QED
    BY <2>1, <1>stutter
<1>17. CASE PostFlatten
  <2>1. row'.state = row.state /\ row.state = "EMERGENCY_FLATTEN" /\ Same
    BY <1>17, EntryColumns DEF PostFlatten, Dies, Retry, Done, Commit
  <2> QED
    BY <2>1, <1>stutter
<1>18. CASE LookUpFlatten
  <2>1. row.state = "EMERGENCY_FLATTEN" /\ row'.state \in {row.state, "CLOSED"} /\ Same
    BY <1>18, EntryColumns, ExposureColumns DEF LookUpFlatten, Retry, Done, Commit
  <2> QED
    BY <2>1, <1>stutter DEF Contract!Next, Contract!Close
<1>19. CASE UNCHANGED row
  BY <1>19, <1>stutter DEF Phase
<1>20. CASE RetryFallsDue
  <2>1. row'.state = row.state /\ Same
    BY <1>20 DEF RetryFallsDue, Done, Commit, Rows
  <2> QED
    BY <2>1, <1>stutter DEF Phase
<1>21. BrokerNext \/ Crash \/ LotAges \/ OwnerSetsKillSwitch \/ UNCHANGED vars => UNCHANGED row
  BY DEF BrokerNext, workerVars, Crash, Dies, LotAges, OwnerSetsKillSwitch, vars
<1> QED
  BY <1>1, <1>2, <1>3, <1>4, <1>5, <1>6, <1>7, <1>8, <1>9, <1>10, <1>11, <1>12, <1>13, <1>14, <1>15, <1>16, <1>17, <1>18, <1>19, <1>20, <1>21
  DEF Next, WorkerNext

(* The execution core implements the contract of an intent (module         *)
(* ExecutionContract): from any uncertainty it goes back only over an      *)
(* authoritative "no such order", it confirms everything it holds or       *)
(* nothing, it never forgets a captured lot, and a guarded, closed or      *)
(* cancelled intent stays what it is (service.py as a whole).              *)
THEOREM Refinement == Spec => ImplementsContract
<1>1. Init => Contract!Init
  BY PhaseOf DEF Init, NewIntent, Contract!Init, PreSubmit
<1>2. IInv /\ IInv' /\ [Next]_vars => [Contract!Next]_(Contract!cvars)
  BY StepContract
<1> QED
  BY <1>1, <1>2, Invariant, PTL DEF Spec, ImplementsContract, Contract!Spec

------------------------------------------------------------------------------
\* The edges of the transition table that the handlers take.
LEMMA Edges ==
  /\ \A s \in PreSubmit :
       s = "READY_TO_SUBMIT" \/ "READY_TO_SUBMIT" \in Within2(s)
  /\ \A s \in PreSubmit : "CANCELLED" \in Within2(s)
  /\ \A s \in Uncertain : s = "RECONCILING" \/ "RECONCILING" \in Within2(s)
  /\ "SUBMITTING" \in Within2("READY_TO_SUBMIT")
  /\ {"ACKNOWLEDGED", "AMBIGUOUS"} \subseteq Within2("SUBMITTING")
  /\ {"ACKNOWLEDGED", "READY_TO_SUBMIT"} \subseteq Within2("RECONCILING")
  /\ "PROTECTION_PENDING" \in Within2("ACKNOWLEDGED")
  /\ {"PROTECTED", "EMERGENCY_FLATTEN"} \subseteq Within2("PROTECTION_PENDING")
  /\ "MANAGING" \in Within2("PROTECTED")
  /\ "CLOSED" \in Within2("EMERGENCY_FLATTEN")
<1>1. /\ Allowed["INTENT_CREATED"] = {"RISK_APPROVED", "CANCELLED", "FAILED"}
      /\ Allowed["RISK_APPROVED"] = {"READY_TO_SUBMIT", "CANCELLED", "FAILED"}
      /\ Allowed["READY_TO_SUBMIT"] = {"SUBMITTING", "CANCELLED", "FAILED"}
      /\ Allowed["SUBMITTING"] = {"ACKNOWLEDGED", "AMBIGUOUS", "REJECTED", "FAILED"}
      /\ Allowed["AMBIGUOUS"] = {"RECONCILING"}
      /\ Allowed["RECONCILING"] = {"ACKNOWLEDGED", "READY_TO_SUBMIT", "REJECTED", "FAILED"}
      /\ {"PARTIALLY_FILLED", "FILLED"} \subseteq Allowed["ACKNOWLEDGED"]
      /\ "PROTECTION_PENDING" \in Allowed["FILLED"]
      /\ {"PROTECTED", "EMERGENCY_FLATTEN"} \subseteq Allowed["PROTECTION_PENDING"]
      /\ "MANAGING" \in Allowed["PROTECTED"]
      /\ "CLOSED" \in Allowed["EMERGENCY_FLATTEN"]
  BY DEF Allowed, States, Claimable, SafetyClaimable, PreSubmit, Uncertain
<1> QED
  BY <1>1 DEF Within2, PreSubmit, Uncertain

\* Every change of a session is one edge or two.
LEMMA StepEdges ==
  ASSUME IInv, [Next]_vars
  PROVE  ses'.state \in {ses.state, row.state} \cup Within2(ses.state)
<1>r. row \in Rows /\ ses \in Rows
  BY DEF IInv, TypeOK
<1>s. pc \notin {"pre", "settle"} => ses = row
  BY DEF IInv, Sessions
<1>t. pc = "settle" => ses.state = row.state
  BY StopColumns, <1>r DEF IInv, Sessions
<1>u. pc = "pre" => ses.state = "READY_TO_SUBMIT"
  BY <1>r DEF IInv, Sessions, Rows
<1>v. Serves(pc, row.state)
  BY DEF IInv, Sessions
<1> USE <1>r, <1>s, <1>t, <1>u, <1>v, Edges DEF Quiet, Still, Serves
<1>1. CASE StartPreSubmit
  <2>1. row.state \in PreSubmit /\ ses = row /\ ses'.state = "READY_TO_SUBMIT"
    BY <1>1 DEF StartPreSubmit, Due, Flush, Rows
  <2> QED
    BY <2>1
<1>2. CASE CancelPending
  <2>1. row.state \in PreSubmit /\ ses = row /\ ses'.state = "CANCELLED"
    BY <1>2 DEF CancelPending, Due, Done, Commit, Rows
  <2> QED
    BY <2>1
<1>3. CASE StartRecovery
  <2>1. row.state \in Uncertain /\ ses = row /\ ses'.state = "RECONCILING"
    BY <1>3 DEF StartRecovery, Due, Commit, Rows
  <2> QED
    BY <2>1
<1>4. CASE StartSafety
  BY <1>4 DEF StartSafety, Flush
<1>5. CASE LookBeforeSubmit
  <2>1. ses'.state \in {"READY_TO_SUBMIT", "SUBMITTING"} /\ ses.state = "READY_TO_SUBMIT"
    BY <1>5, EntryColumns DEF LookBeforeSubmit, Retry, Done, Commit
  <2> QED
    BY <2>1
<1>6. CASE SubmitBlocked
  BY <1>6, LaterColumns DEF SubmitBlocked, Retry, Done, Commit
<1>7. CASE SubmitAcked
  BY <1>7, EntryColumns DEF SubmitAcked, Commit
<1>8. CASE SubmitFails
  BY <1>8, LaterColumns DEF SubmitFails, Raise, Dies, Retry, Done, Commit
<1>9. CASE RecoverSubmission
  BY <1>9, LaterColumns, EntryColumns DEF RecoverSubmission, Retry, Done, Commit
<1>10. CASE ReadFillsFails
  BY <1>10 DEF ReadFillsFails, Raise, Done, Commit
<1>11. CASE ReadFillsAfterAck
  <2>1. Captured(ses) \in Rows
    BY CapturedRows DEF IInv, TypeOK
  <2>2. ses'.state \in {ses.state, "PROTECTION_PENDING"} /\ ses.state = "ACKNOWLEDGED"
    BY <1>11, <2>1, EntryColumns, ExposureColumns DEF ReadFillsAfterAck, Retry, Done, Commit
  <2> QED
    BY <2>2
<1>12. CASE ReadFillsWhilePending
  BY <1>12, StopColumns DEF ReadFillsWhilePending, Commit
<1>13. CASE ArmStop
  <2>1. ses.state = "PROTECTION_PENDING" /\ ses = row
    BY <1>13 DEF ArmStop
  <2>2. ASSUME ArmFails PROVE ses'.state \in {ses.state, "EMERGENCY_FLATTEN"}
    BY <2>1, <2>2, EntryColumns, ExposureColumns
    DEF ArmFails, BeginFlatten, Dies, Retry, Done, Commit
  <2>3. ASSUME NEW id \in StopIds, AfterArm(id) PROVE ses'.state = ses.state
    BY <2>3, LaterColumns, StopColumns DEF AfterArm, Retry, Done, Commit
  <2>4. ASSUME BeginFlatten(ses) PROVE ses'.state = "EMERGENCY_FLATTEN"
    BY <2>4, ExposureColumns DEF BeginFlatten, Commit
  <2> QED
    BY <1>13, <2>1, <2>2, <2>3, <2>4 DEF ArmStop, Legs, StopsAt
<1>14. CASE CheckProtection
  <2>1. ses.state = "PROTECTION_PENDING"
    BY <1>14 DEF CheckProtection
  <2>2. ASSUME NEW outcome, CheckFails(outcome)
        PROVE  ses'.state \in {ses.state, "EMERGENCY_FLATTEN"}
    BY <2>2, EntryColumns, ExposureColumns, StopColumns
    DEF CheckFails, BeginFlatten, Retry, Done, Commit
  <2>3. ASSUME NEW read, read.outcome = "MATCHED" => read.id \in StopIds, CheckExact(read)
        PROVE  ses'.state \in {ses.state, "PROTECTED"}
    <3>1. read.id \in StopIds
      BY <2>3 DEF CheckExact, IsExact
    <3>2. Confirmed(ses, read.id) \in Rows
      BY <3>1, RowUpdates
    <3> QED
      BY <2>3, <3>1, <3>2, StopColumns, ExposureColumns DEF CheckExact, Commit, Flush
  <2> QED
    BY <1>14, <2>1, <2>2, <2>3, ReadId DEF CheckProtection
<1>15. CASE SettleEntry
  BY <1>15, EntryColumns, ExposureColumns DEF SettleEntry, Retry, Done, Commit
<1>16. CASE StartManaging
  <2>1. ses'.state = "MANAGING" /\ ses.state = "PROTECTED"
    BY <1>16 DEF StartManaging, Done, Commit, Rows
  <2> QED
    BY <2>1
<1>17. CASE PostFlatten
  BY <1>17, EntryColumns DEF PostFlatten, Dies, Retry, Done, Commit
<1>18. CASE LookUpFlatten
  BY <1>18, EntryColumns, ExposureColumns DEF LookUpFlatten, Retry, Done, Commit
<1>19. CASE Crash
  BY <1>19 DEF Crash, Dies
<1>20. CASE RetryFallsDue
  BY <1>20 DEF RetryFallsDue, Done, Commit, Rows
<1>21. CASE UNCHANGED ses
  BY <1>21
<1>22. BrokerNext \/ LotAges \/ OwnerSetsKillSwitch \/ UNCHANGED vars => UNCHANGED ses
  BY DEF BrokerNext, workerVars, LotAges, OwnerSetsKillSwitch, vars
<1> QED
  BY <1>1, <1>2, <1>3, <1>4, <1>5, <1>6, <1>7, <1>8, <1>9, <1>10, <1>11, <1>12, <1>13, <1>14, <1>15, <1>16, <1>17, <1>18, <1>19, <1>20, <1>21, <1>22
  DEF Next, WorkerNext

(* No handler ever asks for a state change that the table of domain.py     *)
(* forbids, whatever it finds in the rows: transition_execution_state      *)
(* never raises in the middle of a pass.                                   *)
THEOREM AllowedSteps == Spec => OnlyAllowedSteps
<1>1. IInv /\ [Next]_vars =>
        [ses'.state \in {ses.state, row.state} \cup Within2(ses.state)]_vars
  BY StepEdges
<1> QED
  BY <1>1, Invariant, PTL DEF Spec, OnlyAllowedSteps

------------------------------------------------------------------------------
(* Sums over finite sets.  The library folds a set by choosing an element *)
(* and folding the rest; induction on the size of the sets shows that the  *)
(* fold exists and does not depend on the choice.                          *)
\* A set of naturals that is not empty has a least element.
LEMMA LeastOf ==
  ASSUME NEW T, T \subseteq Nat, T # {}
  PROVE  \E x \in T : \A y \in T : x <= y
<1>1. PICK x \in T : \A y \in T : <<y, x>> \notin OpToRel(<, Nat)
  BY NatLessThanWellFounded, WFMin
<1>2. \A y \in T : ~(y < x) BY <1>1 DEF OpToRel
<1> QED BY <1>2

\* Induction over the naturals, for a set.
LEMMA SetInduction ==
  ASSUME NEW T, 0 \in T, \A n \in Nat : n \in T => n + 1 \in T
  PROVE  Nat \subseteq T
<1> SUFFICES ASSUME Nat \ T # {} PROVE FALSE
  OBVIOUS
<1>1. PICK x \in Nat \ T : \A y \in Nat \ T : x <= y
  BY LeastOf
<1>2. x - 1 \in Nat /\ x - 1 \notin Nat \ T /\ (x - 1) + 1 = x
  BY <1>1
<1> QED
  BY <1>1, <1>2

\* The sum of the lots of the orders w over a finite set of ids, as the library folds it.
Chosen(s) == CHOOSE x \in s : TRUE
Unroll(g, w, s) == IF s = {} THEN 0 ELSE w[Chosen(s)].lots + g[s \ {Chosen(s)}]
IsFold(g, w, S) == g = [s \in SUBSET S |-> Unroll(g, w, s)]
Sum(w, S) == (CHOOSE g : IsFold(g, w, S))[S]

\* LotsOf is this sum, in both states of a step.
LEMMA LotsAreSums ==
  /\ \A ids : LotsOf(ids) = Sum(stops, ids)
  /\ LotsOf(Legs) = Sum(stops, Legs)
  /\ LotsOf(Legs)' = Sum(stops', Legs')
BY DEF LotsOf, MapThenSumSet, MapThenFoldSet, Unroll, IsFold, Sum, Chosen

\* Without its chosen element a set that is not empty has one element less.
LEMMA OneLess ==
  ASSUME NEW S, IsFiniteSet(S), NEW s \in SUBSET S
  PROVE  /\ IsFiniteSet(s) /\ Cardinality(s) \in Nat
         /\ Cardinality(s) = 0 <=> s = {}
         /\ s # {} => Chosen(s) \in s
         /\ \A x \in s : s \ {x} \in SUBSET S /\ Cardinality(s \ {x}) = Cardinality(s) - 1
<1>1. IsFiniteSet(s) BY FS_Subset
<1>2. Cardinality(s) \in Nat /\ (Cardinality(s) = 0 <=> s = {})
  BY <1>1, FS_CardinalityType, FS_EmptySet
<1>3. \A x \in s : Cardinality(s \ {x}) = Cardinality(s) - 1 BY <1>1, FS_RemoveElement
<1>4. s # {} => Chosen(s) \in s BY DEF Chosen
<1> QED BY <1>1, <1>2, <1>3, <1>4

\* The fold exists, by induction on the size of the sets it is defined for.
LEMMA FoldExists ==
  ASSUME NEW S, IsFiniteSet(S), NEW w
  PROVE  \E g : IsFold(g, w, S)
<1> DEFINE Upto(g, n) == \A s \in SUBSET S : Cardinality(s) <= n => g[s] = Unroll(g, w, s)
           T == {n \in Nat : \E g : Upto(g, n)}
<1>1. 0 \in T
  <2> DEFINE g == [s \in SUBSET S |-> 0]
  <2>1. Upto(g, 0) BY OneLess DEF Unroll
  <2> QED BY <2>1
<1>2. ASSUME NEW n \in Nat, n \in T PROVE n + 1 \in T
  <2>1. PICK g : Upto(g, n) BY <1>2
  <2> DEFINE h == [s \in SUBSET S |-> IF Cardinality(s) <= n THEN g[s] ELSE Unroll(g, w, s)]
  <2>2. ASSUME NEW s \in SUBSET S, Cardinality(s) <= n + 1 PROVE h[s] = Unroll(h, w, s)
    <3>1. h[s] = Unroll(g, w, s) BY <2>1
    <3>2. CASE s = {} BY <3>1, <3>2 DEF Unroll
    <3>3. CASE s # {}
      <4>1. s \ {Chosen(s)} \in SUBSET S /\ Cardinality(s \ {Chosen(s)}) <= n
        BY <2>2, <3>3, OneLess
      <4>2. h[s \ {Chosen(s)}] = g[s \ {Chosen(s)}] BY <4>1
      <4> QED BY <3>1, <3>3, <4>2 DEF Unroll
    <3> QED BY <3>2, <3>3
  <2>3. Upto(h, n + 1) BY <2>2
  <2> HIDE DEF h, Upto
  <2> QED BY <2>3
<1>3. Cardinality(S) \in T
  <2> HIDE DEF T
  <2> QED BY <1>1, <1>2, SetInduction, FS_CardinalityType
<1>4. PICK g : Upto(g, Cardinality(S)) BY <1>3
<1> DEFINE h == [s \in SUBSET S |-> g[s]]
<1>5. ASSUME NEW s \in SUBSET S PROVE h[s] = Unroll(h, w, s)
  <2>1. h[s] = Unroll(g, w, s) BY <1>4, FS_Subset
  <2>2. s # {} => s \ {Chosen(s)} \in SUBSET S OBVIOUS
  <2> QED BY <2>1, <2>2 DEF Unroll
<1>6. IsFold(h, w, S) BY <1>5 DEF IsFold
<1> QED BY <1>6

\* Two folds agree on a set whose orders have the same lots.
LEMMA FoldsAgree ==
  ASSUME NEW S, NEW R, IsFiniteSet(S), NEW w, NEW v, NEW g, NEW h, IsFold(g, w, S), IsFold(h, v, R),
         NEW s \in SUBSET S, s \in SUBSET R, \A i \in s : w[i].lots = v[i].lots
  PROVE  g[s] = h[s]
<1> DEFINE T == {n \in Nat : \A r \in SUBSET s : Cardinality(r) = n => g[r] = h[r]}
<1>1. \A r \in SUBSET s : g[r] = Unroll(g, w, r) /\ h[r] = Unroll(h, v, r)
  BY DEF IsFold
<1>2. IsFiniteSet(s) BY FS_Subset
<1>3. 0 \in T BY <1>1, <1>2, OneLess DEF Unroll
<1>4. ASSUME NEW n \in Nat, n \in T PROVE n + 1 \in T
  <2>1. ASSUME NEW r \in SUBSET s, Cardinality(r) = n + 1 PROVE g[r] = h[r]
    <3>1. r # {} /\ Chosen(r) \in r BY <1>2, <2>1, OneLess
    <3>2. Cardinality(r \ {Chosen(r)}) = Cardinality(r) - 1 BY <1>2, <2>1, <3>1, OneLess
    <3>3. g[r \ {Chosen(r)}] = h[r \ {Chosen(r)}] BY <1>4, <2>1, <3>2
    <3>4. w[Chosen(r)].lots = v[Chosen(r)].lots BY <3>1
    <3> QED BY <1>1, <3>1, <3>3, <3>4 DEF Unroll
  <2> QED BY <2>1
<1>5. Cardinality(s) \in T
  <2> HIDE DEF T
  <2> QED BY <1>2, <1>3, <1>4, SetInduction, FS_CardinalityType
<1> QED BY <1>5

\* A fold over natural numbers is a natural number.
LEMMA FoldNatural ==
  ASSUME NEW S, IsFiniteSet(S), NEW w, NEW g, IsFold(g, w, S), \A i \in S : w[i].lots \in Nat
  PROVE  \A s \in SUBSET S : g[s] \in Nat
<1> DEFINE T == {n \in Nat : \A s \in SUBSET S : Cardinality(s) = n => g[s] \in Nat}
<1>1. \A s \in SUBSET S : g[s] = Unroll(g, w, s) BY DEF IsFold
<1>2. 0 \in T BY <1>1, OneLess DEF Unroll
<1>3. ASSUME NEW n \in Nat, n \in T PROVE n + 1 \in T
  <2>1. ASSUME NEW s \in SUBSET S, Cardinality(s) = n + 1 PROVE g[s] \in Nat
    <3>1. s # {} /\ Chosen(s) \in s BY <2>1, OneLess
    <3>2. s \ {Chosen(s)} \in SUBSET S /\ Cardinality(s \ {Chosen(s)}) = n BY <2>1, <3>1, OneLess
    <3>3. g[s \ {Chosen(s)}] \in Nat /\ w[Chosen(s)].lots \in Nat BY <1>3, <3>1, <3>2
    <3>4. g[s] = w[Chosen(s)].lots + g[s \ {Chosen(s)}] BY <1>1, <3>1 DEF Unroll
    <3> QED BY <3>3, <3>4
  <2> QED BY <2>1
<1>4. \A s \in SUBSET S : Cardinality(s) \in T
  <2> HIDE DEF T
  <2> QED BY <1>2, <1>3, SetInduction, OneLess
<1> QED BY <1>4

\* The fold of a set is one element of it and the fold of the rest, whichever the element.
LEMMA FoldTakes ==
  ASSUME NEW S, IsFiniteSet(S), NEW w, NEW g, IsFold(g, w, S), \A i \in S : w[i].lots \in Nat
  PROVE  \A s \in SUBSET S : \A x \in s : g[s] = w[x].lots + g[s \ {x}]
<1> DEFINE T == {n \in Nat : \A s \in SUBSET S : Cardinality(s) = n =>
                               \A x \in s : g[s] = w[x].lots + g[s \ {x}]}
<1>1. \A s \in SUBSET S : g[s] = Unroll(g, w, s) /\ g[s] \in Nat BY FoldNatural DEF IsFold
<1>2. 0 \in T BY OneLess
<1>3. ASSUME NEW n \in Nat, n \in T PROVE n + 1 \in T
  <2>1. ASSUME NEW s \in SUBSET S, Cardinality(s) = n + 1, NEW x \in s
        PROVE  g[s] = w[x].lots + g[s \ {x}]
    <3> DEFINE y == Chosen(s)
    <3>1. y \in s BY OneLess
    <3>2. g[s] = w[y].lots + g[s \ {y}] BY <1>1, <3>1 DEF Unroll
    <3>3. CASE x = y BY <3>2, <3>3
    <3>4. CASE x # y
      <4>1. /\ s \ {y} \in SUBSET S /\ Cardinality(s \ {y}) = n /\ x \in s \ {y}
            /\ s \ {x} \in SUBSET S /\ Cardinality(s \ {x}) = n /\ y \in s \ {x}
        BY <2>1, <3>1, <3>4, OneLess
      <4>2. g[s \ {y}] = w[x].lots + g[(s \ {y}) \ {x}] BY <1>3, <4>1
      <4>3. g[s \ {x}] = w[y].lots + g[(s \ {x}) \ {y}] BY <1>3, <4>1
      <4>4. g[(s \ {y}) \ {x}] = g[(s \ {x}) \ {y}]
        <5>1. (s \ {y}) \ {x} = (s \ {x}) \ {y} OBVIOUS
        <5> QED BY <5>1
      <4>5. w[x].lots \in Nat /\ w[y].lots \in Nat /\ g[(s \ {x}) \ {y}] \in Nat
        BY <1>1, <3>1
      <4>6. \A a, b, c, d, e, f : a \in Nat /\ b \in Nat /\ c \in Nat /\ f = b + d /\ d = a + c /\ e = b + c
              => f = a + e
        OBVIOUS
      <4> HIDE DEF y
      <4> QED BY <3>2, <4>2, <4>3, <4>4, <4>5, <4>6
    <3> QED BY <3>3, <3>4
  <2> QED BY <2>1
<1>4. \A s \in SUBSET S : Cardinality(s) \in T
  <2> HIDE DEF T
  <2> QED BY <1>2, <1>3, SetInduction, OneLess
<1> QED BY <1>4

\* A sum is the fold of the whole set.
LEMMA SumFolds ==
  ASSUME NEW S, IsFiniteSet(S), NEW w
  PROVE  \E g : IsFold(g, w, S) /\ Sum(w, S) = g[S]
BY FoldExists DEF Sum

\* The empty sum.
LEMMA SumEmpty == ASSUME NEW w PROVE Sum(w, {}) = 0
<1>1. PICK g : IsFold(g, w, {}) /\ Sum(w, {}) = g[{}] BY SumFolds, FS_EmptySet
<1> QED BY <1>1 DEF IsFold, Unroll

\* A sum of naturals is one.
LEMMA SumNatural ==
  ASSUME NEW S, IsFiniteSet(S), NEW w, \A i \in S : w[i].lots \in Nat
  PROVE  Sum(w, S) \in Nat
BY SumFolds, FoldNatural

\* A sum with one element taken out.
LEMMA SumTakes ==
  ASSUME NEW S, IsFiniteSet(S), NEW w, \A i \in S : w[i].lots \in Nat, NEW x \in S
  PROVE  Sum(w, S) = w[x].lots + Sum(w, S \ {x})
<1>1. PICK g : IsFold(g, w, S) /\ Sum(w, S) = g[S] BY SumFolds
<1>2. IsFiniteSet(S \ {x}) BY FS_RemoveElement
<1>3. PICK h : IsFold(h, w, S \ {x}) /\ Sum(w, S \ {x}) = h[S \ {x}] BY <1>2, SumFolds
<1>4. g[S \ {x}] = h[S \ {x}] BY <1>1, <1>3, FoldsAgree
<1>5. g[S] = w[x].lots + g[S \ {x}] BY <1>1, FoldTakes
<1> QED BY <1>1, <1>3, <1>4, <1>5

\* The sum depends on the lots only.
LEMMA SumSame ==
  ASSUME NEW S, IsFiniteSet(S), NEW w, NEW v, \A i \in S : w[i].lots = v[i].lots
  PROVE  Sum(w, S) = Sum(v, S)
<1>1. PICK g : IsFold(g, w, S) /\ Sum(w, S) = g[S] BY SumFolds
<1>2. PICK h : IsFold(h, v, S) /\ Sum(v, S) = h[S] BY SumFolds
<1> QED BY <1>1, <1>2, FoldsAgree

------------------------------------------------------------------------------
\* The lots of the working stops.
LEMMA LegLots ==
  ASSUME VenueTypeOK
  PROVE  IsFiniteSet(Legs) /\ (\A i \in StopIds : stops[i].lots \in Nat) /\ LotsOf(Legs) \in Nat
<1>1. Legs \subseteq StopIds BY DEF Legs, StopsAt
<1>2. IsFiniteSet(Legs) BY <1>1, FS_Subset, VenueAssumption
<1>3. \A i \in StopIds : stops[i].lots \in Nat BY VenueAssumption DEF VenueTypeOK
<1>4. Sum(stops, Legs) \in Nat BY <1>1, <1>2, <1>3, SumNatural
<1> QED BY <1>2, <1>3, <1>4, LotsAreSums

\* A stop that triggers, or is dropped, covers nothing any more.
LEMMA LegFalls ==
  ASSUME VenueTypeOK, NEW i \in Legs, NEW p \in {"triggered", "dropped"},
         stops' = [stops EXCEPT ![i].at = p]
  PROVE  LotsOf(Legs)' <= LotsOf(Legs)
<1>1. i \in StopIds BY DEF Legs, StopsAt
<1>2. \A j \in StopIds : stops'[j].lots = stops[j].lots /\ (stops'[j].at = IF j = i THEN p ELSE stops[j].at)
  BY <1>1 DEF VenueTypeOK
<1>3. Legs' = Legs \ {i} BY <1>2 DEF Legs, StopsAt
<1>4. IsFiniteSet(Legs) /\ IsFiniteSet(Legs') /\ Legs \subseteq StopIds
  BY <1>3, LegLots, FS_RemoveElement DEF Legs, StopsAt
<1>5. Sum(stops', Legs') = Sum(stops, Legs') BY <1>2, <1>3, <1>4, SumSame
<1>6. \A j \in Legs : stops[j].lots \in Nat BY <1>4, LegLots
<1>7. Sum(stops, Legs) = stops[i].lots + Sum(stops, Legs') BY <1>3, <1>4, <1>6, SumTakes
<1>8. Sum(stops, Legs') \in Nat /\ stops[i].lots \in Nat BY <1>3, <1>4, <1>6, SumNatural
<1> QED BY <1>5, <1>7, <1>8, LotsAreSums

\* A stop that is posted and arrives covers its lots.
LEMMA LegAdded ==
  ASSUME VenueTypeOK, NEW i \in StopIds, stops[i].at = "none", NEW lots \in Nat,
         stops' = [stops EXCEPT ![i] = [at |-> "live", lots |-> lots]]
  PROVE  LotsOf(Legs)' = LotsOf(Legs) + lots
<1>1. \A j \in StopIds : stops'[j] = IF j = i THEN [at |-> "live", lots |-> lots] ELSE stops[j]
  BY DEF VenueTypeOK
<1>2. i \notin Legs /\ Legs \subseteq StopIds BY DEF Legs, StopsAt
<1>3. Legs' = Legs \cup {i} BY <1>1, <1>2 DEF Legs, StopsAt
<1>4. IsFiniteSet(Legs) /\ IsFiniteSet(Legs') /\ Legs' \ {i} = Legs
  BY <1>2, <1>3, LegLots, FS_AddElement
<1>5. \A j \in Legs' : stops'[j].lots \in Nat
  <2>1. \A j \in Legs : stops[j].lots \in Nat BY <1>2, LegLots
  <2> QED BY <1>1, <1>2, <1>3, <2>1
<1>6. i \in Legs' /\ stops'[i].lots = lots BY <1>1, <1>3
<1>7. Sum(stops', Legs') = lots + Sum(stops', Legs)
  <2>1. ASSUME NEW K, NEW w, IsFiniteSet(K), i \in K, \A j \in K : w[j].lots \in Nat
        PROVE  Sum(w, K) = w[i].lots + Sum(w, K \ {i})
    BY <2>1, SumTakes
  <2>2. Sum(stops', Legs') = stops'[i].lots + Sum(stops', Legs' \ {i}) BY <1>4, <1>5, <1>6, <2>1
  <2> QED BY <1>4, <1>6, <2>2
<1>8. Sum(stops', Legs) = Sum(stops, Legs)
  <2>1. \A j \in Legs : stops'[j].lots = stops[j].lots BY <1>1, <1>2
  <2> QED BY <1>4, <2>1, SumSame
<1>9. LotsOf(Legs) \in Nat BY LegLots
<1> QED BY <1>7, <1>8, <1>9, LotsAreSums

------------------------------------------------------------------------------
\* While no request arrives late, the working stops cover no more lots than the protection row
\* asks for, and fewer while a pass stands before arming.
StopsInv ==
  /\ \A i \in StopIds : stops[i].at # "late"
  /\ LotsOf(Legs) <= row.stopLots
  /\ pc \in {"arm", "rearm"} => LotsOf(Legs) < row.stopLots

\* What the broker does by itself only takes stops away.
LEMMA BrokerKeepsStops ==
  ASSUME VenueTypeOK, VenueNext, \A i \in StopIds : stops[i].at # "late"
  PROVE  LotsOf(Legs)' <= LotsOf(Legs) /\ \A i \in StopIds : stops'[i].at # "late"
<1>1. CASE UNCHANGED stops
  <2>1. Legs' = Legs BY <1>1 DEF Legs, StopsAt
  <2>2. LotsOf(Legs)' = LotsOf(Legs) BY <1>1, <2>1, LotsAreSums
  <2> QED BY <1>1, <2>2, LegLots
<1>2. ASSUME NEW i \in Legs, NEW p \in {"triggered", "dropped"}, stops' = [stops EXCEPT ![i].at = p]
      PROVE  LotsOf(Legs)' <= LotsOf(Legs) /\ \A j \in StopIds : stops'[j].at # "late"
  <2>1. LotsOf(Legs)' <= LotsOf(Legs) BY <1>2, LegFalls
  <2>2. \A j \in StopIds : stops'[j].at # "late" BY <1>2 DEF VenueTypeOK
  <2> QED BY <2>1, <2>2
<1>3. CASE StopArrives BY <1>3 DEF StopArrives, StopsAt
<1>4. CASE StopTriggers BY <1>2, <1>4 DEF StopTriggers
<1>5. CASE StopDropped BY <1>2, <1>5 DEF StopDropped
<1>6. CASE EntryArrives \/ EntryFills \/ EntryEnds \/ FlatArrives \/ FlatFills \/ FlatEnds
  BY <1>1, <1>6 DEF EntryArrives, EntryFills, EntryEnds, FlatArrives, FlatFills, FlatEnds
<1> QED BY <1>3, <1>4, <1>5, <1>6 DEF VenueNext

\* A step that leaves the stops alone and arms only what is uncovered preserves this.
LEMMA StopsStay ==
  ASSUME VenueTypeOK, StopsInv, UNCHANGED stops, row.stopLots \in Nat, row'.stopLots \in Nat,
         row'.stopLots >= row.stopLots,
         pc' \in {"arm", "rearm"} => LotsOf(Legs) < row'.stopLots
  PROVE  StopsInv'
<1>1. LotsOf(Legs)' = LotsOf(Legs)
  <2>1. Legs' = Legs BY DEF Legs, StopsAt
  <2> QED BY <2>1, LotsAreSums
<1>2. LotsOf(Legs) \in Nat BY LegLots
<1>3. LotsOf(Legs) <= row'.stopLots BY <1>2 DEF StopsInv
<1> QED BY <1>1, <1>3 DEF StopsInv

\* The rows only ever ask for more, and a pass comes before arming only when something is uncovered.
LEMMA ColumnsGrow ==
  ASSUME IInv, IInv', StopsInv, WorkerNext, ~ArmStop
  PROVE  /\ UNCHANGED stops /\ row'.stopLots >= row.stopLots
         /\ pc' \in {"arm", "rearm"} => LotsOf(Legs) < row'.stopLots
<1>r. row \in Rows /\ ses \in Rows /\ row.stopLots \in Nat /\ ses.stopLots \in Nat
  BY VenueAssumption DEF IInv, TypeOK, Rows
<1>s. ses.stopLots = row.stopLots
  BY <1>r, StopColumns DEF IInv, Sessions, Rows
<1>t. pc \notin {"pre", "settle"} => ses = row
  BY DEF IInv, Sessions
<1>l. LotsOf(Legs) \in Nat /\ LotsOf(Legs) <= row.stopLots
  BY LegLots DEF IInv, TypeOK, StopsInv
<1> USE <1>r, <1>s, <1>t DEF Quiet, Still, SameExposure
<1>1. CASE StartPreSubmit
  BY <1>1 DEF StartPreSubmit, Flush
<1>2. CASE CancelPending
  BY <1>2 DEF CancelPending, Done, Commit, Rows
<1>3. CASE StartRecovery
  BY <1>3 DEF StartRecovery, Commit, Rows
<1>4. CASE StartSafety
  BY <1>4 DEF StartSafety, Due, Flush, SafetyClaimable
<1>5. CASE LookBeforeSubmit
  BY <1>5, EntryColumns DEF LookBeforeSubmit, Retry, Done, Commit
<1>6. CASE SubmitBlocked
  BY <1>6, LaterColumns DEF SubmitBlocked, Retry, Done, Commit
<1>7. CASE SubmitAcked
  BY <1>7, EntryColumns DEF SubmitAcked, Commit
<1>8. CASE SubmitFails
  BY <1>8, LaterColumns DEF SubmitFails, Raise, Dies, Retry, Done, Commit
<1>9. CASE RecoverSubmission
  BY <1>9, LaterColumns, EntryColumns DEF RecoverSubmission, Retry, Done, Commit
<1>10. CASE ReadFillsFails
  BY <1>10 DEF ReadFillsFails, Raise, Done, Commit
<1>11. CASE ReadFillsAfterAck
  <2>1. row.stopLots = 0
    BY <1>11 DEF ReadFillsAfterAck, IInv, Sessions, Serves, RowOK, NoExposure
  <2>2. Seen(ses) \in Nat
    BY VenueAssumption DEF Seen, Rows, IInv, TypeOK, VenueTypeOK
  <2>3. Captured(ses) \in Rows /\ Captured(ses).stopLots = IF Seen(ses) > 0 THEN Seen(ses) ELSE 0
    BY <2>1, CapturedRows, StopColumns DEF IInv, TypeOK
  <2>4. Opened(Captured(ses)).stopLots = Captured(ses).stopLots
    BY <2>3, ExposureColumns
  <2>5. CASE Seen(ses) = 0
    BY <1>11, <2>1, <2>5, EntryColumns DEF ReadFillsAfterAck, Retry, Done, Commit
  <2>6. CASE Seen(ses) # 0
    BY <1>11, <1>l, <2>1, <2>2, <2>3, <2>4, <2>6 DEF ReadFillsAfterAck, Commit
  <2> QED
    BY <2>5, <2>6
<1>12. CASE ReadFillsWhilePending
  <2>1. Seen(ses) \in Nat
    BY VenueAssumption DEF Seen, Rows, IInv, TypeOK, VenueTypeOK
  <2>2. row' = Captured(ses) /\ pc' = "check" /\ UNCHANGED stops
    BY <1>12 DEF ReadFillsWhilePending, Commit
  <2> QED
    BY <2>1, <2>2, StopColumns
<1>14. CASE CheckProtection
  <2>1. ses = row /\ UNCHANGED stops
    BY <1>14 DEF CheckProtection
  <2>2. ASSUME NEW read, CheckExact(read) PROVE row'.stopLots = row.stopLots /\ pc' \in {"manage", "settle"}
    <3>1. CASE ses.fills >= Planned
      <4>1. row' = Protected(Confirmed(ses, read.id)) /\ pc' = "manage"
        BY <2>2, <3>1 DEF CheckExact, Commit
      <4>2. Protected(Confirmed(ses, read.id)).stopLots = ses.stopLots
        BY DEF Protected, Confirmed, Rows
      <4> QED
        BY <4>1, <4>2
    <3>2. CASE ~(ses.fills >= Planned)
      BY <2>2, <3>2 DEF CheckExact, Flush
    <3> QED
      BY <3>1, <3>2
  <2>3. ASSUME NEW outcome, CheckFails(outcome)
        PROVE  row'.stopLots = row.stopLots /\ (pc' \in {"arm", "rearm"} => outcome = "MISSING")
    BY <2>1, <2>3, EntryColumns, ExposureColumns, StopColumns
    DEF CheckFails, BeginFlatten, Retry, Done, Commit
  <2>4. \A id : ReadProtection(ses.stopLots, id).outcome = "MISSING" => LotsOf(Legs) < ses.stopLots
    BY DEF ReadProtection
  <2> QED
    BY <1>14, <2>1, <2>2, <2>3, <2>4 DEF CheckProtection
<1>15. CASE SettleEntry
  BY <1>15, EntryColumns, ExposureColumns DEF SettleEntry, Retry, Done, Commit
<1>16. CASE StartManaging
  BY <1>16 DEF StartManaging, Done, Commit, Rows
<1>17. CASE PostFlatten
  BY <1>17, EntryColumns DEF PostFlatten, Dies, Retry, Done, Commit
<1>18. CASE LookUpFlatten
  BY <1>18, EntryColumns, ExposureColumns DEF LookUpFlatten, Retry, Done, Commit
<1> QED
  BY <1>1, <1>2, <1>3, <1>4, <1>5, <1>6, <1>7, <1>8, <1>9, <1>10, <1>11, <1>12, <1>14, <1>15, <1>16,
     <1>17, <1>18 DEF WorkerNext

\* What arming leaves: the stops as they were, or one more that covers what was uncovered.
LEMMA Arms ==
  ASSUME "DELAY" \notin VenueMay, IInv, IInv', StopsInv, ArmStop
  PROVE  StopsInv'
<1>1. /\ row \in Rows /\ ses = row /\ row.stopLots \in Nat /\ row'.stopLots \in Nat /\ VenueTypeOK
      /\ LotsOf(Legs) \in Nat /\ LotsOf(Legs) < row.stopLots
  BY VenueAssumption, LegLots DEF ArmStop, IInv, TypeOK, Rows, Sessions, StopsInv
<1>2. ASSUME NEW id \in StopIds, AfterArm(id)
      PROVE  row'.stopLots = row.stopLots /\ pc' \notin {"arm", "rearm"}
  <2>1. Armed(row, id).stopLots = row.stopLots /\ Later(Armed(row, id)).stopLots = row.stopLots
    BY <1>1, StopColumns, LaterColumns DEF SameExposure
  <2> QED
    BY <1>1, <1>2, <2>1 DEF AfterArm, Retry, Done, Commit
<1>3. ASSUME ArmFails \/ BeginFlatten(ses)
      PROVE  row'.stopLots = row.stopLots /\ pc' \notin {"arm", "rearm"}
  BY <1>1, <1>3, EntryColumns, ExposureColumns
  DEF ArmFails, BeginFlatten, Dies, Retry, Done, Commit, SameExposure
<1>4. row'.stopLots = row.stopLots /\ pc' \notin {"arm", "rearm"}
  BY <1>2, <1>3 DEF ArmStop, Legs, StopsAt
<1>5. CASE UNCHANGED stops
  BY <1>1, <1>4, <1>5, StopsStay
<1>6. CASE ~UNCHANGED stops
  <2>1. PICK id \in StopIds, delta \in 1 .. row.stopLots, fate \in Fates \cup {"arrived"} :
          AlreadyArmed(row.stopLots) + delta = row.stopLots /\ PostStop(id, delta, fate)
    BY <1>1, <1>6 DEF ArmStop
  <2>2. fate \in {"never", "arrived"}
    BY DEF Fates
  <2>3. stops[id].at = "none" /\ stops' = [stops EXCEPT ![id] = [at |-> "live", lots |-> delta]]
    BY <1>6, <2>1, <2>2 DEF PostStop
  <2>4. LotsOf(Legs)' = LotsOf(Legs) + delta
    <3>1. delta \in Nat
      BY <1>1
    <3> QED
      BY <1>1, <2>3, <3>1, LegAdded
  <2>5. LotsOf(Legs) + delta <= row.stopLots
    BY <1>1, <2>1 DEF AlreadyArmed
  <2>6. \A i \in StopIds : stops'[i].at # "late"
    BY <1>1, <2>3 DEF StopsInv, VenueTypeOK
  <2> QED
    BY <1>4, <2>4, <2>5, <2>6 DEF StopsInv
<1> QED
  BY <1>5, <1>6

\* Every step keeps the working stops within the protection row.
LEMMA StepStops ==
  ASSUME "DELAY" \notin VenueMay, IInv, IInv', StopsInv, [Next]_vars
  PROVE  StopsInv'
<1>1. row.stopLots \in Nat /\ row'.stopLots \in Nat /\ VenueTypeOK /\ VenueTypeOK'
  BY VenueAssumption DEF IInv, TypeOK, Rows
<1>2. CASE ArmStop
  BY <1>2, Arms
<1>3. CASE WorkerNext /\ ~ArmStop
  BY <1>1, <1>3, ColumnsGrow, StopsStay
<1>4. CASE BrokerNext
  <2>1. LotsOf(Legs)' <= LotsOf(Legs) /\ \A i \in StopIds : stops'[i].at # "late"
    BY <1>1, <1>4, BrokerKeepsStops DEF BrokerNext, StopsInv
  <2>2. LotsOf(Legs) \in Nat /\ LotsOf(Legs)' \in Nat
    <3>1. LotsOf(Legs) \in Nat
      BY <1>1, LegLots
    <3>2. Legs' \subseteq StopIds /\ IsFiniteSet(Legs') /\ \A i \in Legs' : stops'[i].lots \in Nat
      <4>1. Legs' \subseteq StopIds
        BY DEF Legs, StopsAt
      <4>2. \A i \in StopIds : stops'[i].lots \in Nat
        BY <1>1, VenueAssumption DEF VenueTypeOK
      <4> QED
        BY <4>1, <4>2, FS_Subset, VenueAssumption
    <3>3. Sum(stops', Legs') \in Nat
      BY <3>2, SumNatural
    <3> QED
      BY <3>1, <3>3, LotsAreSums
  <2>3. UNCHANGED <<row, pc>>
    BY <1>4 DEF BrokerNext, workerVars
  <2> QED
    BY <1>1, <2>1, <2>2, <2>3 DEF StopsInv
<1>5. CASE Crash \/ LotAges \/ OwnerSetsKillSwitch \/ UNCHANGED vars
  <2>1. UNCHANGED <<stops, row>> /\ (pc' = pc \/ pc' = "idle")
    BY <1>5 DEF Crash, LotAges, OwnerSetsKillSwitch, vars, Dies, Quiet
  <2> QED
    BY <1>1, <2>1, StopsStay DEF StopsInv
<1>6. CASE RetryFallsDue
  <2>1. UNCHANGED stops /\ row'.stopLots = row.stopLots /\ pc' = "idle"
    BY <1>6 DEF RetryFallsDue, Done, Commit, Quiet, IInv, TypeOK, Rows
  <2> QED
    BY <1>1, <2>1, StopsStay
<1> QED
  BY <1>2, <1>3, <1>4, <1>5, <1>6 DEF Next

\* A new intent has no stop.
LEMMA StopsAtFirst == Init => StopsInv
<1> SUFFICES ASSUME Init PROVE StopsInv
  OBVIOUS
<1>1. Legs = {}
  BY DEF Init, VenueInit, Legs, StopsAt
<1>2. LotsOf(Legs) = 0
  BY <1>1, LotsAreSums, SumEmpty
<1> QED
  BY <1>2 DEF Init, VenueInit, NewIntent, StopsInv

(* However often arming is retried after lost answers, crashes and partial *)
(* fills, the working stops never cover more lots than were bought, and a  *)
(* pass arms only what they leave uncovered, as long as no request arrives *)
(* after its answer was given up (_arm_or_resume_protection).              *)
THEOREM NeverOverArmed ==
  ASSUME "DELAY" \notin VenueMay
  PROVE  Spec => []StopsWithinFills
<1>1. Init => StopsInv
  BY StopsAtFirst
<1>2. IInv /\ IInv' /\ StopsInv /\ [Next]_vars => StopsInv'
  BY StepStops
<1>3. IInv /\ StopsInv => StopsWithinFills
  <2> SUFFICES ASSUME IInv, StopsInv PROVE StopsWithinFills
    OBVIOUS
  <2>1. /\ row.stopLots \in Nat /\ row.fills \in Nat /\ entry.filled \in Nat
        /\ LotsOf(Legs) \in Nat
    BY LegLots, VenueAssumption DEF IInv, TypeOK, VenueTypeOK, Rows
  <2>2. row.stopLots <= row.fills /\ row.fills <= entry.filled
    BY <2>1 DEF IInv, RowOK
  <2>3. pc \in {"arm", "rearm"} => ses = row
    BY DEF IInv, Sessions
  <2> QED
    BY <2>1, <2>2, <2>3 DEF StopsInv, StopsWithinFills
<1> QED
  BY <1>1, <1>2, <1>3, Invariant, PTL DEF Spec

\* What a pass decides to flatten is a row whose SLA has expired.
LEMMA FlattensExpired ==
  ASSUME IInv, BeginFlatten(ses), SlaExpired(ses)
  PROVE  SlaExpired(row')
<1>1. /\ row'.stopLots = ses.stopLots /\ row'.fills = ses.fills
      /\ row'.confirmed = ses.confirmed
  BY ExposureColumns DEF BeginFlatten, Commit, SameExposure, IInv, TypeOK
<1> QED
  BY <1>1 DEF SlaExpired

\* A pass posts a stop only for what the working stops leave uncovered, and the answers it gets
\* make it flatten only when the SLA has expired.
LEMMA StepFlattens ==
  ASSUME "ERROR" \notin Errors, IInv, StopsInv, [Next]_vars,
         row'.state = "EMERGENCY_FLATTEN", row.state # "EMERGENCY_FLATTEN"
  PROVE  SlaExpired(row')
<1>r. row \in Rows /\ ses \in Rows
  BY DEF IInv, TypeOK
<1>s. pc \notin {"pre", "settle"} => ses = row
  BY DEF IInv, Sessions
<1>t. pc = "settle" => ses.state = row.state
  BY StopColumns, <1>r DEF IInv, Sessions
<1>u. pc = "pre" => ses.state = "READY_TO_SUBMIT"
  BY <1>r DEF IInv, Sessions, Rows
<1>v. Serves(pc, row.state)
  BY DEF IInv, Sessions
<1> USE <1>r, <1>s, <1>t, <1>u, <1>v DEF Quiet, Still, Serves
<1>1. CASE StartPreSubmit \/ StartSafety \/ UNCHANGED row
  BY <1>1 DEF StartPreSubmit, StartSafety, Flush
<1>2. CASE CancelPending \/ StartRecovery \/ StartManaging \/ RetryFallsDue
  BY <1>2 DEF CancelPending, StartRecovery, StartManaging, RetryFallsDue, Done, Commit, Rows
<1>3. CASE LookBeforeSubmit \/ SubmitBlocked
  BY <1>3, EntryColumns, LaterColumns DEF LookBeforeSubmit, SubmitBlocked, Retry, Done, Commit
<1>4. CASE SubmitAcked \/ SubmitFails
  BY <1>4, EntryColumns, LaterColumns DEF SubmitAcked, SubmitFails, Raise, Dies, Retry, Done, Commit
<1>5. CASE RecoverSubmission \/ ReadFillsFails
  BY <1>5, LaterColumns, EntryColumns DEF RecoverSubmission, ReadFillsFails, Raise, Retry, Done, Commit
<1>6. CASE ReadFillsAfterAck
  <2>1. Captured(ses) \in Rows
    BY CapturedRows DEF IInv, TypeOK
  <2>2. row'.state \in {row.state, "PROTECTION_PENDING"}
    BY <1>6, <2>1, EntryColumns, ExposureColumns DEF ReadFillsAfterAck, Retry, Done, Commit
  <2> QED
    BY <2>2
<1>7. CASE ReadFillsWhilePending
  BY <1>7, StopColumns DEF ReadFillsWhilePending, Commit
<1>8. CASE ArmStop
  <2>1. ses = row /\ pc \in {"arm", "rearm"}
    BY <1>8 DEF ArmStop
  <2>2. ASSUME ArmFails PROVE SlaExpired(row')
    <3>1. row'.state = row.state \/ (BeginFlatten(ses) /\ SlaExpired(ses))
      BY <2>1, <2>2, EntryColumns DEF ArmFails, Dies, Retry, Done, Commit
    <3> QED
      BY <3>1, FlattensExpired
  <2>3. ASSUME NEW id \in StopIds, AfterArm(id) PROVE FALSE
    BY <2>1, <2>3, LaterColumns, StopColumns DEF AfterArm, Retry, Done, Commit
  <2>4. ~(AlreadyArmed(ses.stopLots) > ses.stopLots)
    <3>1. LotsOf(Legs) \in Nat /\ row.stopLots \in Nat /\ LotsOf(Legs) <= row.stopLots
      BY LegLots, VenueAssumption DEF StopsInv, Rows, IInv, TypeOK
    <3> QED
      BY <2>1, <3>1 DEF AlreadyArmed
  <2>5. Legs \subseteq StopIds
    BY DEF Legs, StopsAt
  <2> QED
    BY <1>8, <2>2, <2>3, <2>4, <2>5 DEF ArmStop
<1>9. CASE CheckProtection
  <2>1. ses = row /\ row.state = "PROTECTION_PENDING"
    BY <1>9 DEF CheckProtection
  <2>2. ASSUME NEW outcome, CheckFails(outcome) PROVE SlaExpired(row')
    <3>1. row'.state = row.state \/ (BeginFlatten(ses) /\ SlaExpired(ses))
      BY <2>1, <2>2, EntryColumns, StopColumns DEF CheckFails, Retry, Done, Commit
    <3> QED
      BY <3>1, FlattensExpired
  <2>3. ASSUME NEW read, read.outcome = "MATCHED" => read.id \in StopIds, CheckExact(read)
        PROVE  FALSE
    <3>1. read.id \in StopIds
      BY <2>3 DEF CheckExact, IsExact
    <3>2. Confirmed(ses, read.id) \in Rows
      BY <3>1, RowUpdates
    <3> QED
      BY <2>1, <2>3, <3>1, <3>2, StopColumns, ExposureColumns DEF CheckExact, Commit, Flush
  <2> QED
    BY <1>9, <2>2, <2>3, ReadId DEF CheckProtection
<1>10. CASE SettleEntry
  BY <1>10, EntryColumns, ExposureColumns DEF SettleEntry, Retry, Done, Commit
<1>11. CASE PostFlatten \/ LookUpFlatten
  BY <1>11, EntryColumns, ExposureColumns DEF PostFlatten, LookUpFlatten, Dies, Retry, Done, Commit
<1>12. Crash \/ BrokerNext \/ LotAges \/ OwnerSetsKillSwitch \/ UNCHANGED vars => UNCHANGED row
  BY DEF Crash, Dies, BrokerNext, workerVars, LotAges, OwnerSetsKillSwitch, vars
<1> QED
  BY <1>1, <1>2, <1>3, <1>4, <1>5, <1>6, <1>7, <1>8, <1>9, <1>10, <1>11, <1>12 DEF Next, WorkerNext

(* A position is closed by force only when a captured lot has stayed       *)
(* unconfirmed for the whole SLA, at a port that raises nothing but        *)
(* timeouts and takes no late request (_protection_sla_expired); at one    *)
(* that raises other exceptions it may be closed at once.                  *)
THEOREM FlattensAfterSla ==
  ASSUME "DELAY" \notin VenueMay, "ERROR" \notin Errors
  PROVE  Spec => FlattenOnlyAfterSla
<1>1. Init => StopsInv
  BY StopsAtFirst
<1>2. IInv /\ IInv' /\ StopsInv /\ [Next]_vars => StopsInv'
  BY StepStops
<1>3. IInv /\ StopsInv /\ [Next]_vars =>
        [row'.state = "EMERGENCY_FLATTEN" /\ row.state # "EMERGENCY_FLATTEN" => SlaExpired(row')]_vars
  BY StepFlattens
<1> QED
  BY <1>1, <1>2, <1>3, Invariant, PTL DEF Spec, FlattenOnlyAfterSla

------------------------------------------------------------------------------
(* The emergency order was sized by the captured fills.                    *)
Sized(s) == s.flatLots <= s.fills

SalesInv == Sized(row) /\ FlattenWithinFills

\* Every update of a row keeps the emergency order within the captured fills.
LEMMA SizedUpdates ==
  ASSUME NEW s \in Rows, Sized(s)
  PROVE  /\ Sized(Submitting(s)) /\ Sized(Acknowledged(s)) /\ Sized(Ambiguous(s)) /\ Sized(NotFound(s))
         /\ Sized(Later(s)) /\ Sized(Opened(s)) /\ Sized(Closed(s)) /\ Sized(Protected(s))
         /\ Sized(Flattening(s)) /\ Sized(Unarmed(s))
         /\ \A id \in StopIds : Sized(Armed(s, id)) /\ Sized(Confirmed(s, id))
<1>1. s.fills \in Nat
  BY VenueAssumption DEF Rows
<1> QED
  BY <1>1 DEF Sized, Rows, Submitting, Acknowledged, Ambiguous, NotFound, Later, Opened, Closed,
              Protected, Flattening, Unarmed, Armed, Confirmed

\* What a pass has captured includes what was captured before.
LEMMA SizedCapture ==
  ASSUME IInv, ses = row, Sized(row)
  PROVE  Captured(ses) \in Rows /\ Sized(Captured(ses))
<1>1. row \in Rows /\ row.fills \in Nat /\ row.flatLots \in Nat /\ entry.filled \in Nat
      /\ row.fills <= entry.filled
  BY VenueAssumption DEF IInv, TypeOK, VenueTypeOK, Rows, RowOK
<1>2. Captured(ses).flatLots = row.flatLots /\ Captured(ses).fills = Seen(row)
  BY <1>1 DEF Captured, Rows
<1>3. row.fills <= Seen(row) /\ Seen(row) \in Nat
  BY <1>1 DEF Seen
<1> QED
  BY <1>1, <1>2, <1>3, CapturedRows DEF Sized, IInv, TypeOK

\* The emergency order is never larger than the captured fills, and these only grow.
LEMMA RowsSell ==
  ASSUME IInv, Sized(row), [Next]_vars
  PROVE  Sized(row')
<1>r. row \in Rows /\ ses \in Rows
  BY DEF IInv, TypeOK
<1>s. Sized(ses)
  <2>1. CASE pc = "pre"
    BY <1>r, <2>1 DEF IInv, Sessions, Rows, Sized
  <2>2. CASE pc = "settle"
    BY <1>r, <2>2, SizedUpdates DEF IInv, Sessions
  <2>3. CASE pc \notin {"pre", "settle"}
    BY <2>3 DEF IInv, Sessions
  <2> QED
    BY <2>1, <2>2, <2>3
<1>t. pc \notin {"pre", "settle"} => ses = row
  BY DEF IInv, Sessions
<1>u. /\ Sized(Submitting(ses)) /\ Sized(Acknowledged(ses)) /\ Sized(Later(ses)) /\ Sized(Closed(ses))
      /\ Sized(Protected(ses)) /\ Sized(Flattening(ses)) /\ Sized(Unarmed(ses))
      /\ \A id \in StopIds : Sized(Armed(ses, id)) /\ Sized(Confirmed(ses, id))
  BY <1>r, <1>s, SizedUpdates
<1>v. /\ Sized(Later(Ambiguous(ses))) /\ Sized(Later(NotFound(ses)))
      /\ \A id \in StopIds : Sized(Later(Armed(ses, id))) /\ Sized(Protected(Confirmed(ses, id)))
  <2>1. /\ Ambiguous(ses) \in Rows /\ NotFound(ses) \in Rows
        /\ \A id \in StopIds : Armed(ses, id) \in Rows /\ Confirmed(ses, id) \in Rows
    BY <1>r, RowUpdates
  <2> QED
    BY <1>r, <1>s, <2>1, SizedUpdates
<1> USE <1>s, <1>t, <1>u, <1>v
<1>1. CASE StartPreSubmit \/ StartSafety
  BY <1>1 DEF StartPreSubmit, StartSafety, Flush
<1>2. CASE CancelPending \/ StartRecovery \/ StartManaging \/ RetryFallsDue
  <2>1. /\ Sized([row EXCEPT !.state = "CANCELLED"]) /\ Sized([row EXCEPT !.state = "RECONCILING"])
        /\ Sized([ses EXCEPT !.state = "MANAGING"]) /\ Sized([row EXCEPT !.retry = "due"])
    BY <1>r DEF Sized, Rows
  <2> QED
    BY <1>2, <2>1 DEF CancelPending, StartRecovery, StartManaging, RetryFallsDue, Done, Commit
<1>3. CASE LookBeforeSubmit \/ SubmitBlocked \/ SubmitAcked \/ SubmitFails \/ RecoverSubmission
  BY <1>3 DEF LookBeforeSubmit, SubmitBlocked, SubmitAcked, SubmitFails, RecoverSubmission,
              Raise, Dies, Retry, Done, Commit
<1>4. CASE ReadFillsFails \/ ReadFillsWhilePending
  BY <1>4, SizedCapture DEF ReadFillsFails, ReadFillsWhilePending, Raise, Done, Commit
<1>5. CASE ReadFillsAfterAck
  <2>1. Sized(Opened(Captured(ses)))
    BY <1>5, SizedCapture, SizedUpdates DEF ReadFillsAfterAck
  <2> QED
    BY <1>5, <2>1 DEF ReadFillsAfterAck, Retry, Done, Commit
<1>6. CASE ArmStop
  BY <1>6 DEF ArmStop, AfterArm, ArmFails, BeginFlatten, Dies, Retry, Done, Commit, Legs, StopsAt
<1>7. CASE CheckProtection
  <2>1. ASSUME NEW outcome, CheckFails(outcome) PROVE Sized(row')
    BY <2>1 DEF CheckFails, BeginFlatten, Retry, Done, Commit
  <2>2. ASSUME NEW read, read.outcome = "MATCHED" => read.id \in StopIds, CheckExact(read)
        PROVE  Sized(row')
    BY <2>2 DEF CheckExact, IsExact, Flush, Commit
  <2> QED
    BY <1>7, <2>1, <2>2, ReadId DEF CheckProtection
<1>8. CASE SettleEntry \/ PostFlatten \/ LookUpFlatten \/ Crash
  BY <1>8 DEF SettleEntry, PostFlatten, LookUpFlatten, Crash, Dies, Retry, Done, Commit
<1>9. CASE BrokerNext \/ LotAges \/ OwnerSetsKillSwitch \/ UNCHANGED vars
  BY <1>9 DEF BrokerNext, workerVars, LotAges, OwnerSetsKillSwitch, vars
<1> QED
  BY <1>1, <1>2, <1>3, <1>4, <1>5, <1>6, <1>7, <1>8, <1>9 DEF Next, WorkerNext

\* The fills only grow, and the emergency order is the one that was posted first.
LEMMA StepSales ==
  ASSUME IInv, IInv', SalesInv, [Next]_vars
  PROVE  SalesInv'
<1>1. Sized(row') /\ Sized(row)
  BY RowsSell DEF SalesInv
<1>2. /\ row.flatLots <= row.fills /\ row.fills <= entry.filled /\ row.flatLots \in Nat
      /\ row.fills \in Nat /\ entry.filled \in Nat /\ entry'.filled \in Nat /\ flat.lots \in Nat
  BY <1>1, VenueAssumption DEF Sized, IInv, TypeOK, VenueTypeOK, Rows, RowOK
<1>3. entry.filled <= entry'.filled
  <2>1. CASE VenueNext
    BY <2>1, BrokerStep DEF IInv, TypeOK
  <2>2. ASSUME NEW fate, PostEntry(fate) PROVE entry.filled <= entry'.filled
    BY <1>2, <2>2, PostedFills DEF PostEntry, IInv, EntryOK
  <2>3. CASE UNCHANGED entry
    BY <1>2, <2>3
  <2>4. VenueNext \/ (\E fate : PostEntry(fate)) \/ UNCHANGED entry
    BY DEF Next, WorkerNext, BrokerNext, vars, Quiet, StartPreSubmit, CancelPending, StartRecovery,
           StartSafety, LookBeforeSubmit, SubmitBlocked, SubmitAcked, SubmitFails, RecoverSubmission,
           ReadFillsFails, ReadFillsAfterAck, ReadFillsWhilePending, ArmStop, CheckProtection,
           SettleEntry, StartManaging, PostFlatten, LookUpFlatten, Crash, RetryFallsDue, LotAges,
           OwnerSetsKillSwitch
  <2> QED
    BY <2>1, <2>2, <2>3, <2>4
<1>4. flat'.at # "none" => flat'.lots <= entry'.filled
  <2>1. CASE UNCHANGED flat
    BY <1>2, <1>3, <2>1 DEF SalesInv, FlattenWithinFills
  <2>2. CASE PostFlatten
    <3>1. UNCHANGED entry /\ ses = row
      BY <2>2 DEF PostFlatten, IInv, Sessions
    <3>2. PICK fate : PostFlat(ses.flatLots, fate)
      BY <2>2 DEF PostFlatten
    <3>3. flat' = flat \/ flat'.lots = row.flatLots
      BY <3>1, <3>2 DEF PostFlat, Posted
    <3> QED
      BY <1>2, <3>1, <3>3 DEF SalesInv, FlattenWithinFills
  <2>3. CASE VenueNext
    <3>1. CASE FlatArrives \/ FlatFills \/ FlatEnds
      BY <1>2, <3>1 DEF FlatArrives, FlatFills, FlatEnds, SalesInv, FlattenWithinFills, IInv, TypeOK, VenueTypeOK
    <3> QED
      BY <2>1, <2>3, <3>1 DEF VenueNext, StopTriggers, EntryArrives, EntryFills, EntryEnds,
                              StopArrives, StopDropped
  <2>4. VenueNext \/ PostFlatten \/ UNCHANGED flat
    BY DEF Next, WorkerNext, BrokerNext, vars, Quiet, StartPreSubmit, CancelPending, StartRecovery,
           StartSafety, LookBeforeSubmit, SubmitBlocked, SubmitAcked, SubmitFails, RecoverSubmission,
           ReadFillsFails, ReadFillsAfterAck, ReadFillsWhilePending, ArmStop, CheckProtection,
           SettleEntry, StartManaging, LookUpFlatten, Crash, RetryFallsDue, LotAges,
           OwnerSetsKillSwitch
  <2> QED
    BY <2>1, <2>2, <2>3, <2>4
<1> QED
  BY <1>1, <1>4 DEF SalesInv, FlattenWithinFills

(* The emergency order never exceeds the lots bought, however often it is  *)
(* posted, lost, delayed and looked up (_begin_ and                        *)
(* _resume_emergency_flatten).                                             *)
THEOREM FlattenNeverExceeds == Spec => []FlattenWithinFills
<1>1. Init => SalesInv
  BY DEF Init, VenueInit, NewIntent, SalesInv, FlattenWithinFills, Sized
<1>2. IInv /\ IInv' /\ SalesInv /\ [Next]_vars => SalesInv'
  BY StepSales
<1>3. SalesInv => FlattenWithinFills
  BY DEF SalesInv
<1> QED
  BY <1>1, <1>2, <1>3, Invariant, PTL DEF Spec
==============================================================================
