------------------------- MODULE NotificationOutbox -------------------------
(***************************************************************************)
(* The owner's notifications: rows of one table, written by the            *)
(* transactions that make the news (notification_outbox.py), read over an  *)
(* event stream by the phone (api/v1/notifications.py, PushService.kt) and *)
(* sent to Telegram by a scheduler job inside its own transaction          *)
(* (telegram_notifications.py, scheduler/__main__.py:131).                 *)
(*                                                                         *)
(* Both readers remember the greatest id they have seen.  Ids are handed   *)
(* out when a row is inserted and rows appear when their transaction       *)
(* commits, so a row may appear below an id that is already visible.  An   *)
(* id that a conflict uses up names no row and is left out, and so are the *)
(* limits on the length of a list and a phone's first look at the table.   *)
(***************************************************************************)
EXTENDS Integers, FiniteSets, FiniteSetsExt

CONSTANTS
  Emitters,   \* transactions that emit, one at a time each
  Scheduler,  \* the one among them that also delivers to Telegram
  News,       \* deduplication keys
  MaxId       \* bound on inserted rows

Ids == 1..MaxId
NoKey == "no key"

VARIABLES
  events,    \* the table by id: key, transaction, and whether the row is a draft, here or gone
  nextId,
  channel,   \* the row of the Telegram channel: enabled, cursor; committed
  phase,     \* of each transaction
  batch,     \* what the delivery has still to send
  sending,   \* what the delivery has sent and had answered; its cursor is the greatest of them
  told,      \* what earlier deliveries, that committed, have sent
  toggle,    \* a request that switches Telegram: what it has read
  phone,     \* its stored cursor and what it has shown
  stream,    \* the server's side of the connection: its cursor and what is on the wire
  late,      \* history: rows that appeared after another transaction had a greater id
  off,       \* history: untold rows that were passed over when Telegram was enabled again
  doubt,     \* history: news Telegram has taken and the cursor does not tell of
  twice      \* history: news Telegram has taken more than once

vars == <<events, nextId, channel, phase, batch, sending, told, toggle, phone, stream, late, off,
          doubt, twice>>
telegram == <<channel, batch, sending, told, toggle, doubt, twice>>
device == <<phone, stream>>

NoEvent == [at |-> "none", key |-> NoKey, by |-> NoKey]
NoToggle == [asked |-> FALSE, on |-> FALSE, renews |-> FALSE, tail |-> 0]
Offline == [on |-> FALSE, cursor |-> 0, wire |-> {}]

Here == {i \in Ids : events[i].at = "here"}
DraftsOf(t) == {i \in Ids : events[i].at = "draft" /\ events[i].by = t}
Dirty(t) == DraftsOf(t) # {} \/ phase[t] # "emit"
Top(S) == Max(S \cup {0})
KeysOf(S) == {events[i].key : i \in S}

Init ==
  /\ events = [i \in Ids |-> NoEvent] /\ nextId = 1
  /\ channel = [enabled |-> TRUE, cursor |-> 0]
  /\ phase = [t \in Emitters |-> "emit"]
  /\ batch = {} /\ sending = {} /\ told = {} /\ toggle = NoToggle
  /\ phone = [cursor |-> 0, shown |-> {}] /\ stream = Offline
  /\ late = {} /\ off = {} /\ doubt = {} /\ twice = {}

-----------------------------------------------------------------------------
\* INSERT ... ON CONFLICT DO NOTHING: waits for an uncommitted row with the key, does nothing if
\* there is one that is committed.
Emit(t, k) ==
  /\ phase[t] = "emit" /\ nextId <= MaxId
  /\ \A i \in Ids : events[i].key # k
  /\ events' = [events EXCEPT ![nextId] = [at |-> "draft", key |-> k, by |-> t]]
  /\ nextId' = nextId + 1
  /\ UNCHANGED <<phase, telegram, device, late, off>>

\* The rows of t are here for all, or gone; only the id tells of a row that is gone.
Settle(t, s) ==
  events' = [i \in Ids |-> IF i \notin DraftsOf(t) THEN events[i]
                          ELSE [at |-> s, key |-> IF s = "here" THEN events[i].key ELSE NoKey, by |-> NoKey]]
\* mutant: the cursor stays where it was
EndDeliveryForgetful(t, keeps) ==
  /\ UNCHANGED channel
  /\ IF t = Scheduler THEN /\ batch' = {} /\ sending' = {}
                           /\ told' = IF keeps THEN told \cup sending ELSE told
                           /\ doubt' = IF keeps THEN doubt ELSE doubt \cup KeysOf(sending)
                      ELSE UNCHANGED <<batch, sending, told, doubt>>

EndDelivery(t, keeps) ==
  IF t = Scheduler
  THEN /\ batch' = {} /\ sending' = {}
       /\ told' = IF keeps THEN told \cup sending ELSE told
       /\ doubt' = IF keeps THEN doubt ELSE doubt \cup KeysOf(sending)
       /\ channel' = IF keeps /\ sending # {} THEN [channel EXCEPT !.cursor = Top(sending)] ELSE channel
  ELSE UNCHANGED <<batch, sending, told, doubt, channel>>

Commit(t) ==
  /\ Dirty(t) /\ phase[t] # "deliver"
  /\ Settle(t, "here") /\ EndDelivery(t, TRUE)
  /\ late' = late \cup {i \in DraftsOf(t) : \E j \in i..(nextId - 1) \ DraftsOf(t) : events[j].at # "gone"}
  /\ phase' = [phase EXCEPT ![t] = "emit"]
  /\ UNCHANGED <<nextId, toggle, twice, device, off>>

\* The process dies or the job raises: rows and cursor are rolled back, what was sent is not.
Rollback(t) ==
  /\ Dirty(t)
  /\ Settle(t, "gone") /\ EndDelivery(t, FALSE)
  /\ phase' = [phase EXCEPT ![t] = "emit"]
  /\ UNCHANGED <<nextId, toggle, twice, device, late, off>>

-----------------------------------------------------------------------------
\* Telegram.  The job lists what is committed and what it has inserted itself.
Listed(cursor, own) == {i \in Here \cup own : i > cursor}
StartDelivery ==
  /\ phase[Scheduler] = "emit"
  /\ channel.enabled
  /\ batch' = Listed(channel.cursor, DraftsOf(Scheduler))
  /\ batch' # {}
  /\ phase' = [phase EXCEPT ![Scheduler] = "deliver"]
  /\ UNCHANGED <<events, nextId, channel, sending, told, toggle, doubt, twice, device, late, off>>

\* Telegram takes the message of row i.
Tell(i) == twice' = twice \cup ({events[i].key} \cap (KeysOf(told \cup sending) \cup doubt))

\* mutant: the newest first
SendNewest ==
  /\ phase[Scheduler] = "deliver" /\ batch # {} /\ Tell(Max(batch))
  /\ sending' = sending \cup {Max(batch)} /\ batch' = batch \ {Max(batch)}
  /\ UNCHANGED <<events, nextId, channel, phase, told, toggle, doubt, device, late, off>>

\* In order of the ids, and the answer comes; the update of the cursor after it locks the
\* channel's row.
SendNext ==
  /\ phase[Scheduler] = "deliver" /\ batch # {} /\ Tell(Min(batch))
  /\ sending' = sending \cup {Min(batch)} /\ batch' = batch \ {Min(batch)}
  /\ UNCHANGED <<events, nextId, channel, phase, told, toggle, doubt, device, late, off>>

\* Telegram takes the message and the answer is lost: the delivery ends, its cursor stays before
\* the message and the job commits with it.
SendUnanswered ==
  /\ phase[Scheduler] = "deliver" /\ batch # {} /\ Tell(Min(batch))
  /\ doubt' = doubt \cup {events[Min(batch)].key}
  /\ phase' = [phase EXCEPT ![Scheduler] = "sent"] /\ batch' = {}
  /\ UNCHANGED <<events, nextId, channel, sending, told, toggle, device, late, off>>

\* The delivery ends, with its batch or with a message that Telegram did not take; the job goes on.
StopDelivery ==
  /\ phase[Scheduler] = "deliver"
  /\ phase' = [phase EXCEPT ![Scheduler] = "sent"] /\ batch' = {}
  /\ UNCHANGED <<events, nextId, channel, sending, told, toggle, doubt, twice, device, late, off>>

\* The owner's switch: read the row and, to enable it again, the tail of the table; then update
\* the row.
AskToggle(b) ==
  /\ ~toggle.asked
  /\ LET renews == b /\ ~channel.enabled IN
       toggle' = [asked |-> TRUE, on |-> b, renews |-> renews, tail |-> IF renews THEN Top(Here) ELSE 0]
  /\ UNCHANGED <<events, nextId, channel, phase, batch, sending, told, doubt, twice, device, late, off>>
Toggle ==
  /\ toggle.asked /\ sending = {}
  /\ channel' = [enabled |-> toggle.on,
                 cursor |-> IF toggle.renews THEN toggle.tail ELSE channel.cursor]
  /\ toggle' = NoToggle
  /\ off' = IF toggle.renews THEN off \cup ({i \in Here : i <= toggle.tail} \ told) ELSE off
  /\ doubt' = IF toggle.renews THEN doubt \cup KeysOf({i \in told : i > toggle.tail}) ELSE doubt
  /\ UNCHANGED <<events, nextId, phase, batch, sending, told, twice, device, late>>

-----------------------------------------------------------------------------
\* The phone connects with its cursor, is sent what is committed above the stream's cursor, shows
\* each event and stores its id; connections break and take what is on the wire with them.
Connect ==
  /\ ~stream.on
  /\ stream' = [on |-> TRUE, cursor |-> phone.cursor, wire |-> {}]
  /\ UNCHANGED <<events, nextId, phase, telegram, phone, late, off>>
StreamBatch ==
  LET new == Listed(stream.cursor, {}) IN
  /\ stream.on /\ new # {}
  /\ stream' = [stream EXCEPT !.cursor = Top(new), !.wire = @ \cup new]
  /\ UNCHANGED <<events, nextId, phase, telegram, phone, late, off>>
Show ==
  LET i == Min(stream.wire) IN
  /\ stream.wire # {}
  /\ stream' = [stream EXCEPT !.wire = @ \ {i}]
  /\ phone' = IF i > phone.cursor THEN [cursor |-> i, shown |-> phone.shown \cup {i}] ELSE phone
  /\ UNCHANGED <<events, nextId, phase, telegram, late, off>>
Disconnect ==
  /\ stream.on /\ stream' = Offline
  /\ UNCHANGED <<events, nextId, phase, telegram, phone, late, off>>

Next ==
  \/ \E t \in Emitters : (\E k \in News : Emit(t, k)) \/ Commit(t) \/ Rollback(t)
  \/ StartDelivery \/ SendNext \/ SendUnanswered \/ StopDelivery
  \/ (\E b \in BOOLEAN : AskToggle(b)) \/ Toggle
  \/ Connect \/ StreamBatch \/ Show \/ Disconnect

Spec == Init /\ [][Next]_vars

-----------------------------------------------------------------------------
\* Every variable in its type; a key has one row that is not rolled back, and the row that has it
\* is one of the ids handed out (models/notifications.py).
TypeOK ==
  /\ \A i \in Ids : events[i] \in [at : {"none", "draft", "here", "gone"}, key : News \cup {NoKey},
                                   by : Emitters \cup {NoKey}]
  /\ \A i, j \in {h \in Ids : events[h].at \in {"draft", "here"}} :
       events[i].key = events[j].key => i = j
  /\ nextId \in 1..(MaxId + 1) /\ \A i \in Ids : (events[i].at = "none") = (i >= nextId)
  /\ channel \in [enabled : BOOLEAN, cursor : 0..MaxId]
  /\ phase \in [Emitters -> {"emit", "deliver", "sent"}]
  /\ batch \cup sending \cup told \cup phone.shown \cup stream.wire \subseteq 1..(nextId - 1)
  /\ toggle \in [asked : BOOLEAN, on : BOOLEAN, renews : BOOLEAN, tail : 0..MaxId]
  /\ doubt \cup twice \subseteq News
  /\ phone.cursor \in 0..MaxId /\ stream.cursor \in 0..MaxId /\ stream.on \in BOOLEAN

\* The phone is only shown news that is durable, and passes over none but those whose transaction
\* was overtaken by another with a greater id: broken connections, rollbacks and gaps lose nothing (notification_stream, PushService.consumeOnce).
PhoneMissesOnlyLate ==
  /\ phone.shown \subseteq Here
  /\ \A i \in Here : i <= phone.cursor => i \in phone.shown \cup late

\* "replay anything missed while offline": the phone's cursor passes over no committed row
\* (api/v1/notifications.py:6).
PhoneMissesNothing == \A i \in Here : i <= phone.cursor => i \in phone.shown

\* Telegram passes over nothing that is committed but rows overtaken by another transaction and
\* rows skipped when it was enabled again, whatever sends fail and transactions roll back
\* (deliver, set_enabled).
TelegramMissesOnlyLate == \A i \in Here : i <= channel.cursor => i \in told \cup late \cup off

\* Telegram takes a piece of news twice only if its earlier sending was not recorded: the answer
\* was lost, the delivery rolled back, or the owner's switch, which had read an older tail, put the
\* cursor back before it (deliver, set_enabled, paper_live).
TelegramRepeatsOnlyDoubtful == twice \subseteq doubt

\* "once, in outbox order" (telegram_notifications.py:264).
TelegramDeliversOnce == twice = {}
=============================================================================
