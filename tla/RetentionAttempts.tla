--------------------------- MODULE RetentionAttempts ---------------------------
(***************************************************************************)
(* The attempts to delete old files (server/app/ops/retention_attempts.py).*)
(* An attempt stands for one configuration and one budget period.  Runners *)
(* - an old and a new deployment - may overlap; the advisory lock, taken   *)
(* on a connection of the attempt's own, is lost with that connection      *)
(* while the runner goes on.  The intent is committed before the first     *)
(* file goes, the outcome after the last.                                  *)
(***************************************************************************)
EXTENDS Naturals, FiniteSets

CONSTANTS
  Runners,
  Configs,    \* the configurations the runners are deployed with
  MaxPeriod,  \* bound on the budget periods
  Budget,     \* files an attempt may delete
  NoOne

Attempts == Configs \X (1 .. MaxPeriod)

VARIABLES
  period,    \* the present budget period
  intents,   \* attempts with a durable intent
  outcomes,  \* the deletions a durable outcome tells, or NoOne
  lock,      \* the runner whose connection holds the advisory lock, or NoOne
  up,        \* whether the connection of a runner's attempt is alive
  at,        \* where each runner is
  attempt,   \* its attempt, NoOne while it is idle
  done,      \* what it has deleted in this attempt
  deleted    \* history: the files deleted for each attempt

vars == <<period, intents, outcomes, lock, up, at, attempt, done, deleted>>

TypeOK ==
  /\ period \in 1 .. MaxPeriod
  /\ intents \subseteq Attempts
  /\ outcomes \in [Attempts -> Nat \cup {NoOne}]
  /\ lock \in Runners \cup {NoOne}
  /\ up \in [Runners -> BOOLEAN]
  /\ at \in [Runners -> {"idle", "started", "locked", "clear", "unlinking", "told", "leaving"}]
  /\ attempt \in [Runners -> Attempts \cup {NoOne}]
  /\ done \in [Runners -> 0 .. Budget]
  /\ deleted \in [Attempts -> Nat]

Init ==
  /\ period = 1
  /\ intents = {}
  /\ outcomes = [a \in Attempts |-> NoOne]
  /\ lock = NoOne
  /\ up = [r \in Runners |-> TRUE]
  /\ at = [r \in Runners |-> "idle"]
  /\ attempt = [r \in Runners |-> NoOne]
  /\ done = [r \in Runners |-> 0]
  /\ deleted = [a \in Attempts |-> 0]

Go(r, place) == at' = [at EXCEPT ![r] = place]

\* the attempt is over, its connection and its lock are given back
GoIdle(r) ==
  /\ Go(r, "idle")
  /\ lock' = IF lock = r THEN NoOne ELSE lock
  /\ up' = [up EXCEPT ![r] = TRUE]
  /\ attempt' = [attempt EXCEPT ![r] = NoOne]
  /\ done' = [done EXCEPT ![r] = 0]

\* resource_autopilot derives the attempt from its configuration and the period
Start(r) ==
  /\ at[r] = "idle" /\ Go(r, "started")
  /\ \E c \in Configs : attempt' = [attempt EXCEPT ![r] = <<c, period>>]
  /\ UNCHANGED <<period, intents, outcomes, lock, up, done, deleted>>

TryLock(r) ==
  /\ at[r] = "started"
  /\ IF up[r] /\ lock = NoOne
     THEN lock' = r /\ Go(r, "locked") /\ UNCHANGED <<up, attempt, done>>
     ELSE GoIdle(r)  \* LOCK_UNAVAILABLE, or the database is away
  /\ UNCHANGED <<period, intents, outcomes, deleted>>

Resolved(a) == outcomes[a] # NoOne

\* mutant: only the attempt itself is looked up
BarredItself(a) == a \in intents

\* the attempt was made before, or another one has no outcome
Barred(a) == a \in intents \/ \E b \in intents : ~Resolved(b)

Look(r) ==
  /\ at[r] = "locked"
  /\ Go(r, IF ~up[r] \/ Barred(attempt[r]) THEN "leaving" ELSE "clear")
  /\ UNCHANGED <<period, intents, outcomes, lock, up, attempt, done, deleted>>

\* the intent is committed; the answer may be lost with the connection
CommitIntent(r) ==
  /\ at[r] = "clear"
  /\ \/ /\ up[r] /\ intents' = intents \cup {attempt[r]}
        /\ \/ Go(r, "unlinking") /\ UNCHANGED <<lock, up>>
           \/ /\ Go(r, "leaving")
              /\ up' = [up EXCEPT ![r] = FALSE]
              /\ lock' = NoOne
     \/ Go(r, "leaving") /\ UNCHANGED <<intents, lock, up>>
  /\ UNCHANGED <<period, outcomes, attempt, done, deleted>>

\* run_safe_retention, file by file; without disk pressure there is no file to go
Unlink(r) ==
  /\ at[r] = "unlinking" /\ done[r] < Budget
  /\ done' = [done EXCEPT ![r] = @ + 1]
  /\ deleted' = [deleted EXCEPT ![attempt[r]] = @ + 1]
  /\ UNCHANGED <<period, intents, outcomes, lock, up, at, attempt>>

\* the candidates or the budget are used up, or it raises
EndUnlinking(r) ==
  /\ at[r] = "unlinking"
  /\ Go(r, "told") \/ Go(r, "leaving")
  /\ UNCHANGED <<period, intents, outcomes, lock, up, attempt, done, deleted>>

Told(r) == outcomes' = [outcomes EXCEPT ![attempt[r]] = done[r]]

\* the outcome is committed; the answer may be lost with the connection
CommitOutcome(r) ==
  /\ at[r] = "told" /\ Go(r, "leaving")
  /\ \/ up[r] /\ Told(r) /\ UNCHANGED <<lock, up>>
     \/ /\ up[r] /\ Told(r)
        /\ up' = [up EXCEPT ![r] = FALSE]
        /\ lock' = NoOne
     \/ UNCHANGED <<outcomes, lock, up>>
  /\ UNCHANGED <<period, intents, attempt, done, deleted>>

Leave(r) ==
  /\ at[r] = "leaving" /\ GoIdle(r)
  /\ UNCHANGED <<period, intents, outcomes, deleted>>

\* PostgreSQL ends the connection of a running attempt, and with it the lock
Break(r) ==
  /\ at[r] # "idle" /\ up[r]
  /\ up' = [up EXCEPT ![r] = FALSE]
  /\ lock' = IF lock = r THEN NoOne ELSE lock
  /\ UNCHANGED <<period, intents, outcomes, at, attempt, done, deleted>>

\* the process of a runner dies
Crash(r) ==
  /\ at[r] # "idle" /\ GoIdle(r)
  /\ UNCHANGED <<period, intents, outcomes, deleted>>

NextPeriod ==
  /\ period < MaxPeriod
  /\ period' = period + 1
  /\ UNCHANGED <<intents, outcomes, lock, up, at, attempt, done, deleted>>

Next ==
  \/ NextPeriod
  \/ \E r \in Runners :
       \/ Start(r) \/ TryLock(r) \/ Look(r) \/ CommitIntent(r)
       \/ Unlink(r) \/ EndUnlinking(r) \/ CommitOutcome(r) \/ Leave(r)
       \/ Break(r) \/ Crash(r)

Spec == Init /\ [][Next]_vars

(* ------------------------------ properties ----------------------------- *)
(* Lost locks, lost answers and crashes never make an attempt delete more  *)
(* than its budget, and files are never deleted for two attempts at a      *)
(* time; a durable outcome tells exactly what was deleted for its attempt, *)
(* and what has none has an intent that bars every other attempt.          *)
DeletionsAccounted ==
  /\ Cardinality({r \in Runners : at[r] = "unlinking"}) <= 1
  /\ \A a \in Attempts :
       /\ deleted[a] <= Budget
       /\ deleted[a] > 0 => a \in intents
       /\ Resolved(a) => outcomes[a] = deleted[a]

(* The inductive invariant behind it.  A runner whose connection is alive  *)
(* has the lock from the look to the outcome, so what it saw still stands  *)
(* when it commits its intent: nothing is unresolved then.  From there to  *)
(* its outcome its own intent is the unresolved one.                       *)
Working(r) == at[r] \in {"unlinking", "told"}
LockKept ==
  \A r \in Runners : up[r] /\ at[r] \in {"locked", "clear", "unlinking", "told"} => lock = r
LookStands == \A r \in Runners : up[r] /\ at[r] = "clear" => ~Barred(attempt[r])
Started ==
  \A r \in Runners :
    /\ at[r] # "idle" => attempt[r] \in Attempts
    /\ at[r] \in {"idle", "started", "locked", "clear"} => done[r] = 0
WorkRecorded ==
  /\ \A r \in Runners : Working(r) =>
       attempt[r] \in intents /\ ~Resolved(attempt[r]) /\ deleted[attempt[r]] = done[r]
  /\ \A r, s \in Runners : Working(r) /\ Working(s) => r = s
Accounted ==
  \A a \in Attempts :
    /\ deleted[a] <= Budget
    /\ deleted[a] > 0 => a \in intents
    /\ Resolved(a) => a \in intents /\ outcomes[a] = deleted[a]
IInv == TypeOK /\ LockKept /\ LookStands /\ Started /\ WorkRecorded /\ Accounted
=============================================================================
