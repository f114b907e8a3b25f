# A verification project for SignalAI's execution core and owner services

SignalAI is a Flutter client and a Python server (FastAPI, SQLAlchemy,
PostgreSQL). The server finds trade ideas, lets the owner approve, size and end
them, leads approved ideas through a paper trade, and has an execution core
that turns an approved idea into an order at a broker, protects what was filled
with stop orders and closes what cannot be protected. This directory holds TLA+
modules for the parts where a test hardly reaches what may go wrong, the
configurations that check them with TLC and the theorems about them that TLAPS
checks.

Run everything here, in `tla/`:

    tlc -workers 2 -config Replay.cfg MCExecutionLifecycle
    tlc -workers 2 -config OwnerCommands.cfg MCOwnerCommands
    tlapm --threads 4 OwnerServicesProofs.tla

`PROJECT.json` lists components, runs, mutants, findings, hazards and theorems,
and maps every definition to the lines it stands for.

## 1. Inventory

Paths are below `server/app/` unless they start with `lib/`. The last column
names the modules; a dash means not modelled, section 6 says why.

| component | state | operations | hard behaviour | what makes it correct | modules |
|---|---|---|---|---|---|
| Execution core `execution/service.py`, `domain.py` | intent, orders, fills, protection, events | one pass: look up, submit, recover, capture fills, arm, read back, settle, flatten | crash at every call, lost and late answers, partial fills, the 30 s SLA, retries | nothing is posted blindly twice; PROTECTED rests on evidence; a naked lot is resolved; the emergency order sells no more than was bought | `ExecutionLifecycle`, `ExecutionContract`, `ExecutionDomain` |
| T-Invest adapter `execution/venues/tinvest.py` | none | the port's calls | reads and posts that disagree | a read never claims more than the broker said | `Venue` |
| Worker `execution/worker.py` | lease columns, advisory tuple lock | claim, run one pass, release | expiring leases, several workers, locks that outlive a connection's checkout, stale sessions | no pass on an old copy while its lease lasts, no two passes over one tuple, service of what is due | `ExecutionWorkers`, `TupleLock` |
| Kill switch, mode, automatic safety `execution/kill_switch.py`, `mode.py`, `automatic_safety.py` | risk state, mode, events | set, clear, change, halt, downshift | one advisory lock on its own connection, rows committed after it is given back | what a submit was decided on holds while it runs; an automatic step never weakens the owner's | `ExecutionControl` |
| Canary guard and activation `execution/canary_*.py` | policy snapshots, challenge | judge a submit, preview, confirm | re-validation under locks, repeated confirmations | one owner proof enters CANARY once | `ExecutionControl` |
| Intent creation, risk override `execution/intent_service.py`, `risk_override.py`, `risk/manual_*.py` | intents, overrides | preview, apply, create | concurrent requests, retries, mode changes between reads and inserts | an override backs one intent of the confirmed plan | `ExecutionIntents` |
| Manual controls `execution/manual_controls.py` | owner's commands | request, replay | look and insert in two steps | one unresolved provider action | `ManualControls` |
| Live activation `execution/live_activation.py` | activation previews | preview, confirm, expire | two keys, two previews, drift | one key, one preview, decided once | `LiveActivation` |
| Lighter adapter `execution/venues/lighter_*.py` | bindings, nonce reservations | prepare, send, accept, reconcile | lost, late and unclear answers under one nonce lane | the provider takes every action once | `LighterActions` |
| Ideas and their decisions `journal/lifecycle.py`, `pipeline/`, `api/v1/ideas.py` | idea, journal | publish, trigger, supervise, approve, reject | jobs and requests on stale copies | one decision; a journal that tells the status | `PaperTrading` |
| Paper trades `paper/`, `risk/dynamic_exit.py` | paper trade, cursor | fill, partial exits, stops, runner, expiry, owner's close | two jobs over bars of different length | no bar read twice or before the order; the result adds up | `PaperTrading`, `PaperExit` |
| Notifications `notification_outbox.py`, `telegram_notifications.py` | outbox rows, cursors | emit, list, stream, deliver, switch | ids against commits, rollbacks after sends, lost answers, the switch during a delivery | nothing told twice but what was not recorded, nothing lost but what was overtaken | `NotificationOutbox` |
| Devices, pairing, step-up `device_*.py`, `owner_step_up.py` | credentials, codes, challenges | pair, rotate, revoke, revoke lost, provision | requests that race for one code or for each other | one code, one device; no mutual revocation | `DeviceEnrollment` (step-up: `ExecutionControl`) |
| Operational guard, secrets `operational_guard.py`, `integration_secrets.py` | ideas, trades; encrypted slots | repair before a request; save, delete | runs beside every job | a repair never decides what the owner decided | `PaperTrading`, `ExecutionControl` |
| Scheduler `scheduler/` | watermarks in memory | run due jobs, each in a transaction; wake up for new bars | rollbacks, failed commits, restarts; bars that come late | no stored bar is slept over | `MarketLane`; jobs: `PaperTrading`, `PaperExit`, `NotificationOutbox` |
| Retention `ops/retention*.py` | advisory lock, intents, outcomes | lock, look, commit intent, delete, commit outcome | overlapping deployments, lost connections and answers, deaths | a budget is spent once and told | `RetentionAttempts` |
| Pressure, remediation `ops/` | pressure level in memory | sample, decide, record | hysteresis | thresholds | - |
| Shadow and Paper A/B `shadow/`, `experiments/paper_ab_runtime_v1.py` | observations, pairs, outcomes | collect, pair, label | late seeding after a failure, late bars | evidence uses only what could be known | `MarketLane` |
| Management policy `execution/management_policy.py` | frozen snapshot | freeze before commit | failure inside a commit hook | PROTECTED and its policy are durable together | - |
| Venue health, timeline `execution/venue_health.py`, `timeline.py` | none | read | none | read models | - |
| Bybit adapter `execution/venues/bybit.py` | none | the port's calls | as T-Invest, with one stop per position | as T-Invest | - |
| Market data `market/` | bars | load the tail of each instrument | bars of one lane come at different moments | - | which bars are stored: `MarketLane` |
| Risk, portfolio, research, strategies, backtest | batch results | compute | numerical | arithmetic | - |
| HTTP API, migrations `api/`, `../alembic/` | none | parse, serialise | none | the components above | - |
| Flutter client `lib/` | cached server state | poll, show | cycle against foreground | read only | stream: `NotificationOutbox` |

The hazards in `PROJECT.json` list, line by line, what can go wrong there; the
properties below were chosen for them.

## 2. Plan

Done: the execution core with its contract; the workers and their locks; the
control lock with kill switch, mode, Canary and credential; the owner's
commands (intents and overrides, manual controls, live activation); the Lighter
nonce lane; ideas and paper trades; notifications; devices; retention; the market
lane of the scheduler.

Left, in this order:

1. The workers composed with `ExecutionLifecycle`: a lease that runs out while
   the pass is inside a port call.
2. A second `Venue` for Bybit (reduce-only orders, one stop per position, its
   own idempotency) behind the same `ExecutionLifecycle`.
3. Proofs: the types of the exits when the minute feed may fail; abstract
   specifications, as `ExecutionContract` is one, of the tuple lock, the nonce
   lane and the notification readers, and that the modules implement them; the
   theorems of the modules of 1 and 2. Every invariant and action property of
   the passing runs has its theorem (section 5).
4. The scheduler's catch-up and heavy slot, pressure and remediation.

## 3. Modules

| module | what it is |
|---|---|
| `ExecutionDomain` | states, claimable states, the transition table of `domain.py` |
| `Venue` | one instrument of one account: what the T-Invest adapter asks and reads, what the broker does |
| `ExecutionLifecycle` | one intent, one worker, owner, clock and crashes against `Venue` |
| `ExecutionContract` | what the core promises about one intent, without broker, sessions or crashes |
| `ExecutionWorkers` | several workers over several intents: claim, lease, tuple lock and what is left of it, old copies, release |
| `TupleLock` | the same pass seen from its connections: which one holds which advisory lock |
| `ExecutionControl` | kill switch, mode, credential and Canary challenge under the control lock |
| `ExecutionIntents` | previews, overrides and intents of an approved idea, request against request |
| `ManualControls` | the owner's commands for an open trade |
| `LiveActivation` | preview and confirmation of CANARY to LIVE |
| `LighterActions` | the nonce lane of a Lighter API key |
| `PaperTrading` | ideas, their paper trades and their journal under jobs, repairs and requests |
| `PaperExit` | one paper trade led through minutes and hours |
| `NotificationOutbox` | the table of notifications and its two readers |
| `DeviceEnrollment` | device credentials and pairing codes, lock by lock |
| `RetentionAttempts` | attempts to delete old files, runner against runner |
| `MarketLane` | ingest, scan, Shadow and Paper A/B in one tick after the other |
| `Operations`, `OwnerCommands`, `OwnerServices` | modules that share no state side by side, for one run and for theorems about it |
| `MC...` | what TLC needs: sets, symmetry, the instances of a run |
| `...Proofs` | the theorems of the module they are named for and, for the compositions, of the modules in it |

Three runs check several modules that share no state side by side. A variable
`part` is chosen at the start; only the actions of that part are enabled, the
variables of the others rest. So every behaviour is one of one module, the state
space is the sum and not the product, and a property of one module is trivially
true in the parts of the others. `Operations` composes `TupleLock` with
`RetentionAttempts` and `MarketLane`; `OwnerCommands` composes `ExecutionIntents`
with `ManualControls`, `LiveActivation` and `LighterActions`; `OwnerServices`
composes `PaperTrading` with `NotificationOutbox`, `DeviceEnrollment` and
`PaperExit`. Their MC modules only give the constants values.

### `ExecutionLifecycle` against the code

A pass of the worker (`process_next_intent`, `worker.py:335`, which calls
`process_execution_intent`, `service.py:1125`) is cut exactly at its port calls,
because there the process can die and the world can move. `pc` names the call
the pass is about to make. `row` is what PostgreSQL has, `ses` the same rows in
the session of the pass: `Commit` stands for `db.commit()`, `Flush` for changes
that are not committed yet, `Raise` and `Done` for the commit in the `finally`
block of `process_next_intent`, `Dies` for a crash, which loses `ses`. So a
crash between the flush of a MATCHED event and the commit after the settling
look-up loses the confirmation, as in the code.

| action | handler |
|---|---|
| `StartPreSubmit`, `CancelPending`, `StartRecovery`, `StartSafety` | claim, kill-switch checks and dispatch by state |
| `LookBeforeSubmit`, `SubmitBlocked`, `SubmitAcked`, `SubmitFails` | `reconcile_before_submit`, commit of SUBMITTING, the guarded submit |
| `RecoverSubmission` | `_recover_uncertain_submission` |
| `ReadFillsFails`, `ReadFillsAfterAck`, `ReadFillsWhilePending` | `_capture_fills`, `_ensure_protection_row`, `_continue_after_ack` |
| `ArmStop` (with `AfterArm`, `ArmFails`) | `_arm_or_resume_protection`, `arm_protection` |
| `CheckProtection` (with `CheckExact`, `CheckFails`) | `_resume_protection`, `reconcile_protection` |
| `SettleEntry`, `StartManaging` | `_entry_is_settled`, `_finish_protected` |
| `BeginFlatten`, `PostFlatten`, `LookUpFlatten` | `_begin_`, `_submit_` and `_resume_emergency_flatten` |
| `Crash`, `RetryFallsDue`, `LotAges`, `OwnerSetsKillSwitch` | environment |
| the actions of `VenueNext` | the broker (external) |

Lost answers are modelled at the post: the request never reached the broker,
reached it, or (if `"DELAY"` is in `VenueMay`) is still on its way. The adapter
raises timeouts or other exceptions according to `Errors`: the
T-Invest adapter only ever raises the second kind, other ports may raise the
first. A failure of a read is a disjunct of the reading action.

Abstractions: whole lots; a long position (a short one is the mirror image); a
single stop price; `retry_count` and the exact back-off are the flag `retry`;
the SLA is `aged`, the number of lots, in the order they were filled, whose
fill is at least 30 s old. A pass reads the clock once, at its start, so lots age
only between passes. The policy freeze in the commit of PROTECTED may raise and
roll the transaction back, which is what `Crash` does there.

Not in this module: several workers and leases (next section), `EXITING`, `FAILED`
and `REJECTED` (no handler enters them), the trailing of stops after MANAGING
(`manage_until_close` of the T-Invest adapter does nothing), and the sandbox,
where stop orders have a request id. In production `worker.main` idles with
`DisabledExecutionPort`; the model is of the core with the T-Invest adapter
plugged in, as its tests do.

### `ExecutionWorkers` against the code

`row` holds of each intent the columns a claim looks at: whether its state is
claimable (`open`), `next_retry_at` (`retry`), `lease_expires_at` and
`lease_owner`. Intents are numbered by age, so `Oldest` is the `ORDER BY`.
`pend` is what the session has flushed and not committed; it keeps the row
locked, which `SKIP LOCKED` skips and other sessions' updates wait for
(`RowFreeFor`).

A session does not expire its objects at a commit, and the `db.get` in the tuple
lock finds the object of the claim in the identity map (`intent` keeps it
alive), so a pass works on what the claim read. `stale` is the set of workers
whose copy another session has overwritten since. A claim reads afresh: the
identity map is weak and the object of the previous call is gone. A lease may run
out at any moment, under its claimant too (30 s against several venue calls of up
to 15 s in one pass); `overrun` is a history of the claimed intents to which that
has happened.

Which connection a session has when it locks and unlocks is `TupleLock`, next
section. Here every outcome of it may happen: the unlock frees the lock or leaves
it on an idle connection of its pool (`left`), because its answer is not looked
at; then this process may happen on that connection again (`Reenter`, which
counts a second entry and so never frees the lock) or is turned away like
everybody else, until it ends.

| action | handler |
|---|---|
| `Claim` | `claim_next_intent` and the commit after it |
| `Enter`, `Reenter`, `TurnedAway` | `execution_tuple_lock`, `pg_try_advisory_lock` |
| `WriteStep`, `CommitStep`, `Settle`, `Cancel`, `Raise` | the pass: flush, commit, commit and return, flush and return, raise or return unchanged |
| `Unlock`, `Release` | the two `finally` blocks; `_release_lease` and the last commit |
| `Crash`, `LeaseExpires`, `RetryFallsDue` | environment |

`_release_lease` compares the owner in the session's copy, which is the worker
itself since its claim, so the column is not needed: it clears the lease whoever
holds it. One bound on time is kept: a retry falls due (`_RETRY_BASE_SECONDS` or
later) only after lock and lease of the pass that scheduled it were given back.

### `TupleLock` against the code

The connection a session runs on is an idle one of its process's pool, the
oldest first (SQLAlchemy's `QueuePool` is FIFO unless told otherwise), or a new
one. `Begin` takes it with the first statement of a transaction, `Commit` puts
it at the end of the queue; the reset on return is a rollback, which keeps
session-level advisory locks. PostgreSQL counts such a lock per connection,
grants it again to its holder and answers `false` to an unlock by anybody else
(`Grantable`, `Unlocked`); `execution_tuple_lock` does not look at that answer.
`AskControl`, `GetControl` and `LeaveControl` are `execution_control_lock`
around the guarded submit. A pass may commit and resume any number of times, and
end (`Unlock`) with or without an open transaction. `Restart` ends a process, its
connections and their locks.

### `ExecutionControl` against the code

A session is a request or a worker step with a database session. It takes the
control lock (`kill_switch.py:50`, an advisory lock on a connection of its own),
works at the places named by `pc` and gives the lock back. Two kinds of writes
matter. The kill switch is committed while the lock is held (`SetLevel`). The
mode, the credential and the consumed challenge are only flushed: they stay in
`work`, their row stays locked (`row`) and everybody else reads the old value
until `CommitRequest`, which is `get_db` after the lock was given back.

| operation (`job.op`) | handler |
|---|---|
| `set`, `clear` | `set_` and `clear_execution_kill_switch` |
| `auto` | `automatic_halt_new_entries`: read, compare, write |
| `change`, `downshift` | `change_mode_with_guard`, `automatic_downshift`: decided on a mode read outside the lock |
| `haltdown` | `automatic_halt_and_downshift`, which commits its mode inside the lock |
| `activate` | `confirm_canary_owner_activation`: stored result, proof, gates, mode |
| `save` | `save_secret`, `delete_secret` of the trading credential |
| `submit` | `_KillSwitchGuardedPort.submit` |
| `guard` | `canary_submit_guard`: mode and slot read again under their rows, then the window |

SANDBOX becomes CANARY only through `activate`; LIVE is refused on every path and
is not a mode of the module. Limits, preflight and evidence of a policy are one
nondeterministic answer. `clear` and `automatic_downshift` have no caller in the
application and are modelled because they are public.

### `ExecutionIntents` against the code

A request is one transaction at READ COMMITTED. It reads (`AskOverride`,
`LookUpKey`, `AskIntent`), inserts with ON CONFLICT (`InsertOverride`,
`InsertIntent`), counts a suppressed retry under the row lock (`CountDuplicate`)
and commits; between two of these every other request may run, the owner may
change the mode and the account may be valued anew. What an insert has written
and not committed is a draft that makes an insert with the same key wait
(`Clash`). A token is what a preview signs; a retry is another request with the
same content, and an answer counts once its transaction is committed. The
identity of an intent is idea, mode, snapshot and override (`Identity`), as in
the identity hash; one idea here. Nothing in the application but tests calls
`create_execution_intent` yet.

### `ManualControls` against the code

Two endpoints share `request_manual_trade_control`. The one by idea finds the
open intent and locks its row, the one by intent locks nothing, and that is the
whole difference (`AskByIdea`, `AskByIntent`). `LookUp` is the replay by key,
`Check` the look for an unresolved provider action, `Insert` the row with its
unique key. The execution core moves the intent's state meanwhile (`Progress`);
an insert holds FOR KEY SHARE on the intent, which a look FOR UPDATE waits for.
Nothing in the repository carries a command out, so a provider action stays
unresolved.

### `LiveActivation` against the code

`LockKey` is `pg_advisory_xact_lock` on the idempotency key, `LockRow` the
preview FOR UPDATE; both are held to the end of the transaction. `ReadGates` ends
every confirmation BLOCKED, as the code does until a step-up is connected.
Audit payloads are left out.

### `LighterActions` against the code

The rows of `lighter_nonce_reservations` of one API key are the lane. `Prepare`
and `CommitPrepared` bind an action and reserve a nonce under the transaction's
advisory locks; SUBMITTING is committed before the send. `SendTaken`,
`SendRefused`, `SendDelayed` and `Arrives` are the provider (external): it takes
a nonce that is not below its next one, answers with an acceptance, a refusal,
something unclear or nothing, and a request may arrive late. `TakeAnswer` is
`_accept_or_raise`, `Fetch` and `Reconcile` the reconciliation, which reads
facts, perhaps behind the truth, and applies them later. `Fails` is an exception
or the death of a process at any place.

### `PaperTrading` against the code

A session reads copies of a trade and an idea, decides, and writes back what it
changed (`work`), as SQLAlchemy does: a flush of the trade, `ReadIdea` and the
path through the table of transitions (`Paths`), the next journal numbers
(`Number`), the write of idea and events, the commit. A journal number is unique
for an idea: who comes second fails and rolls back (`Taken`). `Decide`, `Approve`
and `Reject` are the owner's requests with the idea's row locked, `CloseByOwner`
his close of a trade, `Repair` and `RepairIdea` the operational guard before each
request; the others are the jobs scan, trigger, supervise and the two trackers.

### `PaperExit` against the code

One trade, a long one, over bars that follow from the path of the price.
`PaperLive` is `track_crypto_live` (closed minutes after the cursor, the hand-over
rule `_execution_since` included), `Paper` the hourly tracker, `Reconcile` the
same asked for by the owner from the API process. `BarsFrom` is what the feed
answers, from the first bar after the cursor (`FirstUnseen`, or
`FirstUnseenInclusive` where the rule of the hand-over asks so) up to its
`Limit`. `Advance` is `advance` and `advance_v2`, bar by bar (`After`, a recursive
function over the bars of one call): fill, stop before targets, partial exits, the stop that follows
each, runner with trail, giveback and time stop, expiry. Prices are quarters of
the risk and shares percents, so that all results are whole; the three policies
have the shares of `config/default.yaml` and shorter time stops. Jobs of a round
run one after the other; the guard `live = Now` of the hours says that the minute
job of the round had its bars, and `Outages` takes it away.

### `NotificationOutbox` against the code

`Emit` inserts a row and takes the next id, `Commit` and `Rollback` settle all
drafts of a transaction: ids are in the order of the inserts, rows appear in the
order of the commits. `StartDelivery`, `SendNext`, `StopDelivery` are the Telegram
job, which sends inside its transaction; its cursor is committed with it or not
at all. `SendUnanswered` is a message that Telegram takes and whose answer is lost: the
delivery ends, the job commits with the cursor before it. A process that dies
between a send and its answer is `SendNext` and `Rollback`. `AskToggle` and
`Toggle` are the switch (enabling skips to the tail it has read), at any moment of
a delivery; only an update of the cursor that is not committed makes it wait.
`Connect`, `StreamBatch`, `Show`, `Disconnect` are the event stream and the
phone, which stores its cursor when it shows. `late`, `off`, `doubt` and `twice`
are histories that only properties read.

### `DeviceEnrollment` against the code

Each statement that waits is an action, and `SELECT ... FOR UPDATE` is modelled
as PostgreSQL does it: the rows are found in the snapshot at the start, locked
when they are free, and dropped when they no longer match (`LockKnown`,
`LockCurrent`, `FindActive`, `CountActive`). `AskPair`, `AskRotate`, `AskRevoke`,
`AskRevokeLost`, `AskProvision` are the endpoints. A code's row says whether its
expiry is ahead or a newer code has put it back, and how often it was used
(`CodeRows`): a pairing only adds a use, so one that slipped in after a newer code
would show. The step-up that some of them
demand is judged before and is in `ExecutionControl`.

### `RetentionAttempts` against the code

A runner is a scheduler process, of the old or the new deployment; its attempt is
named by configuration and budget period, so a repeated job asks for the same
attempt. `TryLock`, `Look`, `CommitIntent`, `Unlink`, `EndUnlinking`,
`CommitOutcome` and `Leave` are `execute_retention_attempt` from its connection to
its `finally`. `Break` ends the connection, which gives the advisory lock back
while the process goes on; either commit may arrive without its answer. `deleted`
is a history. Which files are old enough, the bytes of the budget and the safe
unlink are left out. The repository has no process that passes a retention
configuration to the scheduler yet, so the job runs only where one is added.

### `MarketLane` against the code

`turn` is the next of four jobs of the tick in `runner.py:79`. `Ingest` stores for
each instrument more of the hours it trades in, or nothing: bars of one
lane may come in different ticks. `Stored` are the bars of a lane, `Mark` its
newest hour and number of bars, `SnapshotOf` the marks of all lanes, `Wakes` the comparison with the process's memory. `Scan` looks at
everything; `Shadow` writes a row for each instrument as of the newest bar of all
lanes; `PaperAb` pairs new rows with the deployed control, which scans the bars
the database has now unless one is newer than the row (`ControlUsable`), and
labels both arms with the first bar after the horizon. `Fail` rolls a job back,
`FailToCommit` does so after the job has set its mark, `Restart` forgets the
marks. What a strategy decides is the constant set `Signals`, by instrument and
newest bar seen. Left out: daily bars, corrections of stored bars, changes of the
universe, missing costs (an outcome at once, as without a signal), and intervals:
every job is due in every tick.

## 4. Runs

| run | instance | shows |
|---|---|---|
| `replay` | one intent of 2 lots, 3 stop ids; stops trigger and drop, orders end, every error, no late arrivals | types; `ProtectedMeansConfirmed`, `NoBlindReplay`, `StopsWithinFills`; `OnlyAllowedSteps`; the contract is implemented |
| `liveness` | 2 stop ids; late arrivals, stops that trigger or drop, ended orders, every error | `NakedIsResolved`, `SubmissionResolves`; `FlattenWithinFills`: the request ids deduplicate entry and emergency order |
| `close` | market orders are filled, lost answers are timeouts | `EmergencyCloses`, `FlattenOnlyAfterSla` |
| `late_fill` | orders end, no errors | violated: a fill between two reads escapes the stop |
| `tinvest_arm` | every lost answer is an error | violated: a covered position is closed at once |
| `workers` | 2 workers, 2 intents of different tuples, leases that run out at any moment, locks left behind, deaths anywhere, under fairness | `OldCopyOnlyOverrun`, `DueIsServed` |
| `operations` | connections: 2 processes of one session; retention: 2 runners, 2 configurations, 2 periods, budget 2; market: 3 instruments in 2 lanes, 3 hours, 3 faults | `OnePassPerTuple`, `SubmitUnderControl`; `DeletionsAccounted`; `NoBarSleeps`, `EvidenceIsHonest` |
| `control` | 2 sessions, ten operations, deaths anywhere | `WindowFacts`, `RowOrder`, `AutomaticNeverWeakens`, `ProofUsedOnce` |
| `canary_entry` | the same | violated: CANARY becomes durable with the switch on, or from PAPER |
| `owner_commands` | intents: 3 requests, 2 keys, 2 quantities; controls: 2 requests, 2 intents; activation: 3 requests, 2 keys, 2 previews; lighter: 2 callers, a create and a cancel, 3 nonces | types; `OverrideBacksOneIntent`, `AnswersStand`, `CountIsSuppressedRetries`; `OneCommandByIdea`; `OneConfirmation`; `OneTransactionPerAction`, `NoBlindResend` |
| `owner_services` | paper: 2 sessions, one idea, 5 events; outbox: 2 transactions, 3 ids; devices: 2 clients, 2 devices of 2 generations, 2 codes; exit: 6 minutes, hours of 3 | types; `OneDecision`, `JournalTellsStatus`; `ReadersMissOnlyLate`, `TelegramRepeatsOnlyDoubtful`; `CodeEnrolsOnce`, `NoMutualRevocation`; `BarsComeAfter`, `ResultAddsUp` |
| `paper_handover` | the minute feed may fail | violated: a stop closes a trade on a minute before it was set |

Why the bounds are enough. *Lots:* one lot cannot be partly filled; with two
there are fills before, between and after each call, a first arming and an
expansion, single and multiple stop legs. *Stop ids:* a first stop, an expansion,
a repair; the broker refuses more, which the core sees as a failed post. *Workers
and sessions:* every hazard of the lists is one actor against another, or one
against its own earlier self after a crash; two intents give an older one and one
that waits behind it, three requests give two that race and one that repeats.
*Connections:* `MaxConns` is two for each session of a process, all a session can
use, and `MaxDepth = 2` tells a counted lock from a flag. *Ids, events,
generations, nonces:* one row overtaken, one in between and one after; a journal
of a whole life with a repair; a rotation of each device; a nonce spent by the
action, one by its neighbour, one from outside. *Minutes:* two hours of three
minutes let an hour end within and after a trade and a pass be late by more than
`HandoffAge`. *Retention:* two attempts besides the one
under way, and a deletion that is cut in two. *Hours:* one instrument trades with a
hole, two share a lane, so that a bar can come late, in the same hour as its
neighbour's or an hour after it; three faults let a job fail, its successor fail and
the process restart. Types of the workers, the control lock, the tuple lock, retention and the
market lane are proved instead of run.

Runs set `CHECK_DEADLOCK FALSE` where the system may stop: all intents are over,
every request was answered, the bounds on ids, events or minutes are reached.

The runs whose expectation is a violation are disagreements between the code and
what the repository says of it; `findings` in `PROJECT.json` quotes the lines.
Configurations that no run lists are kept for readers; each names the one
property that fails in it (next section).

### Where the properties stop

A property that holds in a run may fail beyond it, and a reader should know where.

Execution core and workers:

- `FlattenWithinFills` is about the emergency order alone. Together with the stops
  the position may be turned around: no handler cancels the working stops before
  the market order, so both may sell (`service.py:681`, `tinvest.py:592`).
- `StopsWithinFills` with `"DELAY"`: a stop request that was given up and read
  back as MISSING may arrive after its repair; outside the sandbox a stop order
  has no request id that would deduplicate it.
- `NoFillEscapes` with errors, in `LateFill.cfg`: the emergency order is sized by
  the captured fills and the entry order is not cancelled, so a later fill is
  naked when the intent is CLOSED.
- `NakedIsResolved` when only the read of the fills fails (`FillReadsDown.cfg` on
  `MCExecutionLifecycle`): the SLA is looked at in a pass that has read them.
- States nothing leaves: an entry that ended without a fill stays ACKNOWLEDGED
  and is retried for ever; a crash between PROTECTED and MANAGING leaves
  PROTECTED, which is not claimable.
- `OldCopyOnlyOverrun` says nothing of an intent whose lease ran out under its
  claimant: the second claimant enters, after the first has left, with the copy it
  read before. A pass of several slow venue calls takes longer than the lease of
  30 s, so this does happen.
- `DueIsServed` excepts an intent whose tuple's lock, or that of an older intent,
  was left behind on a connection: it may be turned away until the process ends. It
  fails if one intent raises in every pass and workers are fewer
  (`WorkersHeadOfLine.cfg` on `MCExecutionWorkers`), and for intents of one tuple,
  which can turn each other away for ever.
- `OnePassPerTuple` of `TupleLock` with two sessions in one process (two sessions
  of one engine, as in `tests/execution/test_worker.py:226`, if the first commits
  within its pass): its connection, lock included, goes back to the pool, and the
  second session is granted the lock on it. The deployment has one session per
  worker process. A lock may also outlive its pass on an idle connection
  (`TupleLockLeak.cfg` on `MCOperations`).

The owner's commands:

- `OverridesPaperOnly`: the mode is read before the insert, so an override may be
  recorded after the mode was changed. It does no harm: `OverrideBacksOneIntent`.
- Two previews of one idea issued in different seconds are different tokens and
  may back an intent each; a planned quantity without override is not compared
  with anything; each lifecycle mode has an intent of its own.
- The retry of an apply after the preview has expired is refused before the
  replay is looked for. A key that was answered by the replay of another key's
  override is not recorded.
- `OnePending`: the endpoint by intent locks nothing, so together with another
  request two unresolved provider actions may exist.
- An answer of a request may be sent and its commit fail: FastAPI commits the
  session of `get_db` after the handler returned. `AnswersStand` is about
  answers whose transaction is committed.
- A Lighter action whose request never arrived stays SUBMITTING, and the lane with
  it, until the key is used elsewhere or somebody intervenes.

Paper trades, notifications, devices:

- `OwnerCloseStands` (`OwnerClose.cfg`): a job writes its older copy over the
  owner's close. `JournalChains` (`JournalGap.cfg`): the old status of an event may
  be one the idea had left. Both on `MCOwnerServices`.
- The close of a PENDING trade by the owner is journalled through TIMED_OUT or
  FILLED: `transition` looks for the shortest path, and which of two is found
  depends on the order of a set of strings.
- `StopWasThere` with `Outages` is the finding of `paper_handover`. A late pass may
  also take its own cursor for one of the hourly job and skip the rest of the hour
  (`ExitGap.cfg` on `MCPaperExit`). The API process does not know the optimizer's
  candidates and closes a runner by legacy rules (`ApiPolicy.cfg` there).
- An order may be filled on a bar after its `expires_at` when the tracker catches
  up, because expiry is looked at after the bars; the ends by horizon and by the
  owner add no result for the share that was left; the window of ATR and MFE is
  that of one call.
- `PhoneMissesNothing`: a row that appears below the cursor is never shown.
- `TelegramDeliversOnce` (`TelegramTwice.cfg` on `MCOwnerServices`), the docstring's
  "once, in outbox order" (`telegram_notifications.py:264`): a message whose answer is
  lost is sent again a minute later, one whose transaction rolls back is sent again
  with its new row, and the switch used while a delivery is under way puts the
  cursor back to the tail it had read, so that what was told is told again, or loses
  to the delivery's commit. `TelegramRepeatsOnlyDoubtful` says that nothing else
  repeats. A message that Telegram refuses for good stays first in the list.
- `AtMostLimit` (`ActiveLimit.cfg` on `MCOwnerServices`): a rotation that commits
  while the count waits hides a device from it. `OnlyLatestPairs`: two
  provisionings at once leave two live codes.

Retention and market lane:

- An attempt that raises, dies or cannot write its outcome leaves an intent without
  one, and no attempt of any period runs before somebody resolves it. This is
  what the code wants (`UNRESOLVED_INTENT`).
- `NoBarSleeps` excepts the job whose commit failed after it had set its mark
  (`runner.py:396`, `p0_runtime.py:68`): it sleeps until another bar comes or the
  process restarts.
- `PairOnSameBars` (`LatePair.cfg` on `MCOperations`): the comment at
  `paper_ab_runtime_v1.py:574` wants stale rows to fail closed. A row whose
  pairing failed, and whose instrument gets a late bar of that hour or of an
  earlier one before the next tick, is paired with a control that saw that bar,
  while both arms carry the `market_snapshot_hash` of Shadow's bars.
  `EvidenceIsHonest` says what still holds. The late bar also makes a second row
  for the same hour, so that the moment has two pairs.

### Fairness of the workers

`ExecutionWorkers.Fairness`: a worker goes on with what it began (weak fairness
of being turned away, of commits, of `Raise`, `Unlock` and `Release`: a pass does
not stand still), leases expire and retries fall due, and an intent that is the
oldest due one again and again is claimed, finds its tuple free and is settled
eventually (strong fairness per intent). The last part is what the back-off
gives: a retry schedules the intent into the future and leaves room. `Reenter` has
no fairness: nothing makes a session happen on the connection whose lock it left.
Fairness of this kind cannot be had for all instances: with two intents of one
tuple, workers can turn each other away in lock step, and with fewer workers than
intents that never leave the head of the queue the others starve. The run has
therefore as many workers as intents, with a tuple each, and asks whether
crashes, raised calls, stale leases and locks that stay behind can stop service
there.

### Fairness of the execution core

`Running`: something calls `process_next_intent` again and again (weak fairness
of the worker's steps), retries fall due, and time passes (strong fairness of
`LotAges`, which is only possible between passes). `FairSpec` adds strong
fairness of the calls a resolution depends on: a pass may crash or be answered
with an error at any call, but a call made again and again is not failed every
time. Nothing is assumed of the broker. `CloseSpec` assumes in addition that the
broker fills a market order it accepted (weak) and that the post and the read
of the emergency order get through eventually (strong). `FillReadsDownSpec`
leaves out the fairness of one call and keeps that of the others, so that its
counterexample is not merely a system that stops.

## 5. Proofs

Every invariant and every action property of the passing runs is a theorem for
all values of the constants that the modules assume; where a theorem needs more,
the tables say what, and "Where the properties stop" says why. `Spec => []Inv`
is shown as: an inductive invariant holds at the start, every action keeps it
(one lemma for each action or kind of action), and it implies `Inv`. For the
compositions a lemma says that each of their behaviours is one of the module in
question (`AllInit` and `[AllNext]_...` imply its `Init` and its `[Next]_...`).

### `ExecutionLifecycleProofs`

For every `Planned`, `StopIds`, `VenueMay` and
`Errors` that satisfy `VenueAssumption` and `ErrorsAssumption`:

| theorem | says | if |
|---|---|---|
| `TypeCorrect` | `Spec => []TypeOK` | |
| `Invariant` | `Spec => []IInv` | |
| `ProtectedEvidence` | `Spec => []ProtectedMeansConfirmed` | |
| `NoReplay` | `Spec => []NoBlindReplay` | `"DELAY"` is not in `VenueMay` |
| `NeverOverArmed` | `Spec => []StopsWithinFills` | `"DELAY"` is not in `VenueMay` |
| `FlattenNeverExceeds` | `Spec => []FlattenWithinFills` | |
| `FlattensAfterSla` | `Spec => FlattenOnlyAfterSla` | `"DELAY"` not in `VenueMay`, `"ERROR"` not in `Errors` |
| `AllowedSteps` | `Spec => OnlyAllowedSteps` | |
| `Refinement` | `Spec => ImplementsContract` | |

`ProtectedMeansConfirmed` is not inductive: it reads the committed row, and a
pass writes it from its session. `IInv` adds what a pass may hold at each call
(`Sessions`: the session equals the row except before the submit and before the
settling look-up, where it is ahead by exactly one update), which state each
call serves (`Serves`), what the columns have to do with the state (`RowOK`),
and that fills belong to an order the broker knows (`EntryOK`). `NoReplay`
needs, on top of it, that without delays no order is on its way and that no
emergency order exists before the emergency is durable (`Orders`). The
refinement maps the state to a phase and fills and confirmed quantity to `held`
and `covered`; its proof goes action by action over `IInv`.

`NeverOverArmed` speaks of the lots of several stop orders, a sum over a set. The library folds with a recursive function and a `CHOOSE`; that
the function exists, and that the sum does not depend on the choice, is proved by
induction over cardinalities (`SetInduction`, `FoldExists`, `FoldsAgree`), so that
a leg that is added, triggered or dropped changes the sum by its lots (`LegAdded`,
`LegFalls`). `StopsInv` says that the working legs are within the armed quantity
of the row, and strictly below it when a pass is about to arm; `SalesInv` that
the emergency order was sized within the captured fills and the broker's copy of
it within the filled lots, from which `FlattenNeverExceeds` follows. `FlattensAfterSla` needs `StopsInv` as well: a pass
that found more lots armed than its row asks for would not wait for the SLA.

### `ExecutionWorkersProofs`

For any sets of workers and intents:

| theorem | says |
|---|---|
| `LeaseInvariant` | `Spec => []LeaseInv` |
| `StalePassesAreOverrun` | `Spec => []OldCopyOnlyOverrun` |

Nothing is assumed of the length of a pass or of the lock. `LeaseInv` says that a
claimed intent is its claimant's alone, under a live lease, or overrun
(`AloneOrOverrun`): a claim takes what is free or has run out, a lease that runs
out under its claimant makes the intent overrun, and a release, which clears the
lease whoever holds it, meets another claimant only of an overrun intent. So a
commit overwrites copies of overrun intents only (`StaleIsOverrun`), and an old
copy never works under a lease that lasted. Mutual exclusion of the passes over a
tuple is a theorem about the connections (`OnePassAtATime`, below).

### `ExecutionControlProofs`

For any set of sessions and any levels the owner sets (`ControlAssumption`,
`LevelsAssumption`):

| theorem | says |
|---|---|
| `SafeWindows` | `ControlSpec => [](ControlTypeOK /\ WindowFacts)` |
| `OrderedRows` | `ControlSpec => []RowOrder` |
| `NeverWeakened` | `ControlSpec => AutomaticNeverWeakens` |
| `OneProofOneEntry` | `ControlSpec => ProofUsedOnce` |

`ControlInv` is the types, `RowOrder` and six facts: a session at a place inside the
lock holds it; what is flushed is on a row its session has locked; a guard in its
window holds the row of the mode, and the slot's if it has one, and sees what is
committed; the level an automatic halt has read is the committed one; CANARY is
written only together with a verdict on an unused challenge; goals are of their
operation's kind. The window facts follow because the kill switch is committed
only by the lock's holder, and mode and credential only by the owner of their row.

### `OperationsProofs`

For any sets, process assignment and bounds of `TupleLock`, `RetentionAttempts` and
`MarketLane` (`ProcAssumption`, `BoundAssumption`, `NoOneAssumption`,
`RetentionAssumption`, `MarketAssumption`):

| theorem | says | if |
|---|---|---|
| `LockInvariant` | `Spec => []IInv` | every process has one session |
| `OnePassAtATime` | `Spec => []OnePassPerTuple` | every process has one session |
| `SubmitsUnderControl` | `Spec => []SubmitUnderControl` | |
| `FilesAccounted` | `AllSpec => []DeletionsAccounted` | |
| `EveryBarIsSeen` | `AllSpec => []NoBarSleeps` | |
| `PairsAreHonest` | `AllSpec => []EvidenceIsHonest` | |
| `OperationsTyped` | `AllSpec => []OperationsTypeOK` | |

*Tuple lock.* The session need not be on the connection that holds its lock, so
the invariant is about processes: a tuple is locked from one process at most
(`OneProcess`), and the process of a session inside a pass has its tuple locked
on some connection (`PassIsLocked`). With one session per process nobody else can
enter on that connection. `SubmitUnderControl` holds for any number of sessions,
because its connection does not return to the pool in between: `UseInv` says that
a connection is idle in its pool or one session uses it for one purpose.

*Retention.* `RetentionAttempts!IInv`: who works has the lock or has lost its
connection (`LockKept`), what it saw of other intents stays so until it commits
its own (`LookStands`), and every file it has deleted is in its count, in its
outcome or behind an intent without one (`WorkRecorded`, `Accounted`).

*Market lane.* A mark is a newest hour and a count. That an unchanged mark means
unchanged bars rests on `MarkInv`: bars of one instrument arrive in order
(`BarsInOrder`), so an earlier set of bars is a part of today's, and a part with
as many elements is the whole. `PairInv` adds that a usable control's signal is
one it could have had, and that labels are the first bars after the horizon.

### `OwnerCommandsProofs`

For any requests, keys, plans, callers and nonces, with finite sets of requests
and controlled intents (`NamesAssumption`, `BoundsAssumption`, `FiniteAssumption`):

| theorem | says |
|---|---|
| `OneIntentByOverride` | `Spec => []OverrideBacksOneIntent` |
| `AnswersStandAlways` | `Spec => []AnswersStand` |
| `CountsSuppressed` | `Spec => []CountIsSuppressedRetries` |
| `OneCommand` | `AllSpec => []OneCommandByIdea` |
| `TakenOnce` | `AllSpec => []OneTransactionPerAction` |
| `NeverResentBlindly` | `AllSpec => []NoBlindResend` |
| `OneConfirmationAlways` | `AllSpec => []OneConfirmation` |
| `CommandsTyped` | `AllSpec => []CommandsTypeOK` |

*Intents.* The invariant says that a token names one override
(`UniqueOverride`) and an identity one intent (`UniqueIntent`), drafts included,
that the plan a request goes on with is that of the override it names (`Behind`),
and what an answer was told (`Told`). The counter equals the cardinality of the
set of answered retries, and each commit adds one request to one such set.

*Manual controls.* `ManualControls!IInv`: who asked by idea holds the row of its
intent until it commits (`RowsAreHeld`), so what it has checked still stands when
it inserts (`CheckStands`), and an insert waits for a draft of its key
(`KeysAreFree`).

*Nonce lane.* `LighterActions!IInv`: which callers an action can have (`Called`),
that what was sent is bound and its reservation says so (`Attempted`,
`Transacted`, `Prepared`), that facts a reconciliation has read stay true until it
applies them (`FactsStand`), and that what is accepted or refused is over
(`Closed`). So a caller before a send has an action that nobody has sent.

### `LiveActivationProofs`

For any confirmations, previews and keys that are told apart (`KeysApart`):
`ConfirmedOnce` (`OneConfirmation`), `DecisionsAreFinal` (`DecidedOnce`) and
`ActivationTyped` (`TypeOK`). The
invariant says who holds a key or a row at each stage (`Holders`), that a row
with a key is decided (`Decided`) and that what a confirmation has seen of its key
and its row is still so while it holds both (`Knows`).

### `OwnerServicesProofs`

For any sessions, ideas, emitters, news, clients, devices, price paths, hours and
bounds (`ServicesAssumption`, `ExitAssumption`):

| theorem | says | if |
|---|---|---|
| `DecidedOnceOnly` | `Spec => []OneDecision` | |
| `JournalTells` | `Spec => []JournalTellsStatus` | |
| `PaperTyped` | `Spec => []TypeOK` | |
| `ReadersMissOnlyLateAlways` | `AllSpec => []ReadersMissOnlyLate` | |
| `TelegramRepeatsAlways` | `AllSpec => []TelegramRepeatsOnlyDoubtful` | |
| `CodeEnrolsOnceAlways` | `AllSpec => []CodeEnrolsOnce` | |
| `NeverRevokedMutually` | `AllSpec => []NoMutualRevocation` | |
| `BarsAlwaysComeAfter` | `AllSpec => []BarsComeAfter` | `~Outages` |
| `ResultsAddUp` | `AllSpec => []ResultAddsUp` | `~Outages`, no policy is `Forgotten` |
| `ServicesTyped` | `AllSpec => []ServicesTypeOK` | `~Outages` |

*Paper trading.* A job creates no trade and drops none (`Copies`: a session's copy
of a trade that exists is a trade that exists), one session at a time decides an
idea (`Alone`), and what it has seen of trade and skip stays true until it writes
(`Knows`). `JInv` adds that a journal has the numbers from one on without a gap,
its last event tells the status (`JournalOf`), that what a session is about to
write follows on that (`WritesWell`), and that one live trade exists at most.

*Outbox.* `TableInv` (ids in the order of the inserts, one row of a key),
`TelegramInv` (what lies below a row of the batch is told, in the batch, skipped
or late) and `PhoneInv` (what the stream has passed is shown, on the wire or
late). `DoubtInv` adds that everything told lies below the cursor and below what
is to be sent, or is in doubt: the cursor goes back only by a switch that renews
Telegram with an older tail, which puts the rows above it in doubt, and a
delivery's commit sets it to the last message sent, above all that is told
without doubt. So a message that Telegram took before and takes again is in
doubt; rows keep their keys (`KeysKept`) and a key has one row, so that this holds
of news as well as of rows.

*Exits.* `ExitInv` is `PathInv` (path, policy, venue), `RowsInv` and `MinutesInv`.
`RowsInv` says that the row is well formed and what is booked is what its targets
pay (`Well`), that nothing the trade knows is younger than the end of the bars it
was led through (`OnTime` up to `LedTo`), and that the cursor stands after the
approval, on a full hour for FORTS. `MinutesInv` is why two jobs of different
steps do not collide: after a pass over the minutes the cursor is less than an
hour behind, so the hourly job finds no whole bar after it. `ResultsAddUp` adds
`SignedInv` (the shares are those of the signed policy, the stop stands at or
above the lock of each target taken, what ended is booked in full). `After` is a
recursive function over the bars of a call; that it exists and what it keeps is
proved by induction over the number of bars (`AdvancesThrough`), with one lemma
for a fill, a target, the trail and the end of a bar.

### `DeviceEnrollmentProofs`

For any devices, clients and keys, and codes told apart from the empty one
(`CodesApart`): `NeverEachOther` (`NoMutualRevocation`), `CodesEnrolOnce`
(`CodeEnrolsOnce`) and, for generations up to a natural number, `EnrolmentTyped`
(`TypeOK`: a key names one credential, all generations of a device but the newest
are revoked). Locks are exclusive (`Exclusive`), a request that waits for a
commit holds the rows its decision rests on and they are still what it saw
(`Knows`), so a code that enrolled was live until then and no newer one has put
back its expiry since, and a revoking credential is active until the revocation commits. The
types need more: what a request has read of an earlier generation stays true
while it goes on to its insert, because nothing makes a revoked row active
(`Relies`), and two drafts that wait for their commit are of different devices and
keys (`Apart`).

### Only model-checked

Liveness and fairness are out of the prover's reach: `NakedIsResolved`,
`SubmissionResolves`, `EmergencyCloses` and `DueIsServed` are left to TLC. So
are the types of the exits when the minute feed may fail (`Outages`), where
`paper_handover` checks a violation, and whatever "Where the properties stop"
lists as failing beyond an assumption.

What a recursive definition computes for every input needs induction over data.
The theorems of the library take the induction hypothesis as an operator, which
the provers cannot instantiate; sums over stop orders, counters and the bars of
a call are therefore followed by inductions of their own, over the least number
for which the statement fails (`LeastOf` in each of the modules that need it).


## 6. Not modelled

Of the server's 88,000 lines most are research, market data, backtests, scoring,
portfolio and risk numerics and the HTTP surface: batch computations without
concurrent state, whose correctness is arithmetic. The Flutter client shows and
caches what the server says. Not modelled among the parts with state:

- *Management policy freeze*: a `before_commit` hook of the PROTECTED
  transaction. If it raises the transaction is rolled back, which is `Crash`.
- *Venue health, timeline*: read models.
- *Pressure and remediation*: thresholds over samples of one host. A reader may want
  to know that WATCH resets the hysteresis (`pressure.py:311`): PRESSURE, WATCH,
  NORMAL runs everything again without the window that the comment at
  `backpressure.py:141` counts on.
- *Scheduler's catch-up and heavy slot*: what is run late or beside; the modules let
  a tick be late.
- *Bybit adapter*: the port is the same; the broker behind it would be a second
  `Venue`.
