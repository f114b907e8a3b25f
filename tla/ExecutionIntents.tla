-------------------------- MODULE ExecutionIntents --------------------------
(***************************************************************************)
(* How an approved idea becomes an execution intent: signed previews of a  *)
(* manual risk increase (risk/manual_preview.py), the owner's overrides    *)
(* they turn into (risk/manual_apply.py, execution/risk_override.py) and   *)
(* the intents that use them (execution/intent_service.py).                *)
(*                                                                         *)
(* Every request is one transaction at READ COMMITTED: each statement sees *)
(* what is committed when it runs, an insert waits for an uncommitted row  *)
(* with the same unique key.  A retry is another request with the same     *)
(* content.  One idea at one venue; a risk snapshot that blocks entries is *)
(* refused by every handler and left out.                                  *)
(***************************************************************************)
EXTENDS Integers, FiniteSets

CONSTANTS
  Requests,
  Keys,          \* idempotency keys of override requests
  MaxSnapshot,   \* bound on the risk snapshots taken
  MaxNow,        \* bound on the clock, in units of the previews' life
  MaxQuantity    \* bound on planned quantities; the idea's own quantity is 1

Modes == {"PAPER", "SANDBOX"}
Snapshots == 1..MaxSnapshot
None == "none"
\* What a token signs: everything is computed by the server but the expiry.
Tokens == [snapshot : Snapshots, mode : Modes, quantity : 2..MaxQuantity, issued : 1..MaxNow]
Names(S) == {{}} \cup {{t} : t \in S}  \* one of S or none
Overrides == [token : Tokens, key : Keys, mode : Modes]

VARIABLES
  mode,       \* execution_mode_state.mode
  snapshot,   \* the latest risk snapshot
  now,
  tokens,     \* the previews the owner has been given
  overrides,  \* execution_risk_overrides, committed
  intents,    \* execution_intents, committed
  pc,
  job         \* what a request asks, what it has read and what it will commit

vars == <<mode, snapshot, now, tokens, overrides, intents, pc, job>>

NoJob == [op |-> None]

Init ==
  /\ mode = "PAPER" /\ snapshot = 1 /\ now = 1
  /\ tokens = {} /\ overrides = {} /\ intents = {}
  /\ pc = [r \in Requests |-> "new"] /\ job = [r \in Requests |-> NoJob]

-----------------------------------------------------------------------------
\* Environment: the owner changes the mode, the account is valued anew, time passes.
ChangeMode == /\ \E m \in Modes \ {mode} : mode' = m
              /\ UNCHANGED <<snapshot, now, tokens, overrides, intents, pc, job>>
Revalue == /\ snapshot < MaxSnapshot /\ snapshot' = snapshot + 1
           /\ UNCHANGED <<mode, now, tokens, overrides, intents, pc, job>>
Tick == /\ now < MaxNow /\ now' = now + 1
        /\ UNCHANGED <<mode, snapshot, tokens, overrides, intents, pc, job>>

Rows == <<overrides, intents>>
World == <<mode, snapshot, now, tokens>>

Goto(r, p, j) == pc' = [pc EXCEPT ![r] = p] /\ job' = [job EXCEPT ![r] = j]
\* A rejected request leaves nothing behind; the requester may ask again.
Reject(r) == Goto(r, "new", NoJob) /\ UNCHANGED Rows

Preview(q) ==
  /\ tokens' = tokens \cup {[snapshot |-> snapshot, mode |-> mode, quantity |-> q, issued |-> now]}
  /\ UNCHANGED <<mode, snapshot, now, overrides, intents, pc, job>>

-----------------------------------------------------------------------------
\* The owner applies a preview.

\* The preview is computed again and the token must sign exactly that; it lives until the clock ticks.
Valid(t) == t.snapshot = snapshot /\ t.mode = mode /\ now <= t.issued

AskOverride(r, t, k) ==
  /\ pc[r] = "new" /\ t \in tokens
  /\ UNCHANGED World
  /\ IF Valid(t) /\ mode = "PAPER"
     THEN Goto(r, "checked", [op |-> "override", token |-> t, key |-> k]) /\ UNCHANGED Rows
     ELSE Reject(r)

\* The mode is read again for the row, then the key is looked up.
Bound(k) == {o \in overrides : o.key = k}
ReplayOverride(r, o) ==
  IF o.token = job[r].token
  THEN Goto(r, "commit", [op |-> "replay", token |-> job[r].token, key |-> job[r].key, got |-> o])
       /\ UNCHANGED Rows
  ELSE Reject(r)
LookUpKey(r) ==
  /\ pc[r] = "checked"
  /\ UNCHANGED World
  /\ \/ Bound(job[r].key) = {} /\ UNCHANGED Rows
        /\ Goto(r, "insert", [op |-> "override", token |-> job[r].token, key |-> job[r].key,
                              mode |-> mode])
     \/ \E o \in Bound(job[r].key) : ReplayOverride(r, o)

\* rows other requests have inserted and not committed
Drafts(op) == {job[q] : q \in {p \in Requests : pc[p] = "commit" /\ job[p].op = op}}
Clash(o, t, k) == o.token = t \/ o.key = k

\* ON CONFLICT DO NOTHING on either unique key, and whichever row the query meets first.
InsertOverride(r) ==
  LET j == job[r] IN
  /\ pc[r] = "insert" /\ j.op = "override"
  /\ \A d \in Drafts("override") : ~Clash(d, j.token, j.key)
  /\ UNCHANGED World
  /\ \/ /\ \A o \in overrides : ~Clash(o, j.token, j.key)
        /\ Goto(r, "commit", j) /\ UNCHANGED Rows
     \/ \E o \in overrides : Clash(o, j.token, j.key) /\ ReplayOverride(r, o)

-----------------------------------------------------------------------------
\* An intent is created.
Identity(i) == [mode |-> i.mode, snapshot |-> i.snapshot, override |-> i.override]
\* mutant: the mode of the override is not compared
BackedInAnyMode(o, q, s, m) == o.token.snapshot = s /\ o.token.quantity = q
\* override holds the token of the override, which names its row, or nothing.
Backed(o, q, s, m) == o.token.snapshot = s /\ o.mode = m /\ o.token.quantity = q

\* The validations and the read of the mode come before the insert.
AskIntent(r, named, q, s) ==
  /\ pc[r] = "new" /\ s <= snapshot
  /\ UNCHANGED World
  /\ IF \A t \in named : \E o \in overrides : o.token = t /\ Backed(o, q, s, mode)
     THEN Goto(r, "insert", [op |-> "intent", override |-> named, quantity |-> q, snapshot |-> s,
                             mode |-> mode]) /\ UNCHANGED Rows
     ELSE Reject(r)

\* mutant: a retry with another quantity is answered with the old plan
AnyPlan(i, j) == TRUE
SamePlan(i, j) == i.quantity = j.quantity

InsertIntent(r) ==
  LET j == job[r]
      Same == {i \in intents : Identity(i) = Identity(j)} IN
  /\ pc[r] = "insert" /\ j.op = "intent"
  /\ \A d \in Drafts("intent") : Identity(d) # Identity(j)
  /\ UNCHANGED World
  /\ \/ Same = {} /\ Goto(r, "commit", j) /\ UNCHANGED Rows
     \/ \E i \in Same : IF SamePlan(i, j) THEN Goto(r, "count", j) /\ UNCHANGED Rows
                                          ELSE Reject(r)

\* UPDATE ... SET count = count + 1 locks the row until the commit.
CountDuplicate(r) ==
  /\ pc[r] = "count"
  /\ \A d \in Drafts("duplicate") : Identity(d) # Identity(job[r])
  /\ Goto(r, "commit", [job[r] EXCEPT !.op = "duplicate"])
  /\ UNCHANGED Rows /\ UNCHANGED World

-----------------------------------------------------------------------------
\* The request ends: session_scope commits, or anything fails and rolls it back.
\* mutant: the count is read, increased and written back
CountedFromRead(i, j) == IF Identity(i) = Identity(j) THEN [i EXCEPT !.count = 1] ELSE i
Counted(i, j) == IF Identity(i) = Identity(j) THEN [i EXCEPT !.count = @ + 1] ELSE i
Commit(r) ==
  LET j == job[r] IN
  /\ pc[r] = "commit"
  /\ overrides' = IF j.op = "override"
                  THEN overrides \cup {[token |-> j.token, key |-> j.key, mode |-> j.mode]}
                  ELSE overrides
  /\ intents' = CASE j.op = "intent" ->
                       intents \cup {[mode |-> j.mode, snapshot |-> j.snapshot, override |-> j.override,
                                      quantity |-> j.quantity, count |-> 0]}
                  [] j.op = "duplicate" -> {Counted(i, j) : i \in intents}
                  [] OTHER -> intents
  /\ pc' = [pc EXCEPT ![r] = "done"]
  /\ UNCHANGED World /\ UNCHANGED job

Fail(r) == /\ pc[r] \in {"checked", "insert", "count", "commit"}
           /\ UNCHANGED World /\ Reject(r)

Next ==
  \/ ChangeMode \/ Revalue \/ Tick
  \/ \E q \in 2..MaxQuantity : Preview(q)
  \/ \E r \in Requests :
       \/ \E t \in tokens, k \in Keys : AskOverride(r, t, k)
       \/ LookUpKey(r) \/ InsertOverride(r)
       \/ \E named \in Names({o.token : o \in overrides}), q \in 1..MaxQuantity, s \in Snapshots :
            AskIntent(r, named, q, s)
       \/ InsertIntent(r) \/ CountDuplicate(r)
       \/ Commit(r) \/ Fail(r)

Spec == Init /\ [][Next]_vars

-----------------------------------------------------------------------------
Identities == [mode : Modes, snapshot : Snapshots, override : Names(Tokens)]
Intents == [mode : Modes, snapshot : Snapshots, override : Names(Tokens),
            quantity : 1..MaxQuantity, count : Nat]

\* The rows and sessions are well formed (models/execution.py), and a request
\* that waits for its commit holds exactly the row it will write.
TypeOK ==
  /\ mode \in Modes /\ snapshot \in Snapshots /\ now \in 1..MaxNow
  /\ tokens \subseteq Tokens /\ overrides \subseteq Overrides /\ intents \subseteq Intents
  /\ pc \in [Requests -> {"new", "checked", "insert", "count", "commit", "done"}]
  /\ \A r \in Requests : LET j == job[r] IN
       CASE pc[r] = "new" -> j = NoJob
         [] pc[r] = "checked" -> j.token \in Tokens /\ j.key \in Keys
         [] OTHER -> \/ j.op = "override" /\ j.token \in Tokens /\ j.key \in Keys /\ j.mode \in Modes
                     \/ j.op = "replay" /\ j.token \in Tokens /\ j.got \in Overrides
                     \/ /\ j.op \in {"intent", "duplicate"} /\ Identity(j) \in Identities
                        /\ j.quantity \in 1..MaxQuantity

\* An override increases the risk of one intent: every intent that names it has the quantity,
\* snapshot and mode the owner confirmed, and no second intent is created from it, however the
\* mode changes between reads and inserts (_validate_risk_override, the identity hash).
OverrideBacksOneIntent ==
  \A i \in intents : i.override # {} =>
    /\ \E o \in overrides : /\ {o.token} = i.override /\ o.mode = i.mode
                            /\ o.token.snapshot = i.snapshot /\ o.token.quantity = i.quantity
    /\ \A k \in intents : k.override = i.override => k = i

\* What a request was told stays true: the intent has the plan it asked for, the override is the
\* one its preview signed, whoever inserted the row (_same_plan, _same_material_override).
AnswersStand ==
  \A r \in Requests : LET j == job[r] IN pc[r] = "done" =>
    CASE j.op = "override" -> \E o \in overrides : o.token = j.token /\ o.key = j.key
      [] j.op = "replay" -> j.got \in overrides /\ j.got.token = j.token
      [] OTHER -> \E i \in intents : Identity(i) = Identity(j) /\ i.quantity = j.quantity

\* duplicate_prevention_count is the number of requests that were answered with an intent of
\* somebody else, with any number of them at once (_count_duplicate_prevention).
CountIsSuppressedRetries ==
  \A i \in intents :
    i.count = Cardinality({r \in Requests : /\ pc[r] = "done" /\ job[r].op = "duplicate"
                                            /\ Identity(job[r]) = Identity(i)})

\* "manual risk override apply is PAPER-only": no override is recorded for another mode
\* (risk/manual_apply.py:110).
OverridesPaperOnly == \A o \in overrides : o.mode = "PAPER"
=============================================================================
