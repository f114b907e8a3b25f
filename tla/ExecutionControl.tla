--------------------------- MODULE ExecutionControl ---------------------------
(***************************************************************************)
(* The switches of server/app/execution: the kill switch, the lifecycle    *)
(* mode, the Lighter trade credential and the owner's Canary challenge,    *)
(* and the database sessions that change them or act on them.  One         *)
(* session-level advisory lock, the control lock (kill_switch.py:50),      *)
(* serialises them, on a connection of its own.                            *)
(*                                                                         *)
(* The kill switch is committed before the lock is given back.  The mode,  *)
(* the credential and the challenge are only flushed: their rows stay      *)
(* locked, and their old values readable, until the request commits, which *)
(* is after the lock is given back.                                        *)
(***************************************************************************)
EXTENDS Integers

CONSTANTS
  Sessions,
  NoOne,
  OwnerLevels  \* the levels the owner sets

ASSUME ControlAssumption == NoOne \notin Sessions

Levels == {"CLEAR", "HALT_NEW_ENTRIES", "CANCEL_PENDING_ENTRIES", "FLATTEN_ALL"}
ASSUME LevelsAssumption == OwnerLevels \subseteq Levels \ {"CLEAR"}
Modes == {"PAPER", "SANDBOX", "CANARY"}  \* LIVE is refused on every path
\* the slot is empty, or holds the generation the Canary policy names, or a later one
Creds == {"empty", "policy", "rotated"}
None == "none"

KillRank(l) == CASE l = "CLEAR" -> 0 [] l = "HALT_NEW_ENTRIES" -> 1
                 [] l = "CANCEL_PENDING_ENTRIES" -> 2 [] l = "FLATTEN_ALL" -> 3
RiskRank(m) == CASE m = "PAPER" -> 0 [] m = "SANDBOX" -> 1 [] m = "CANARY" -> 2

VARIABLES
  lock,     \* the session that holds the control lock
  kill,     \* risk_state.kill_switch_level
  mode,     \* execution_mode_state.mode, committed
  cred,     \* the credential in the slot lighter_trade, committed
  verdict,  \* the stored result of the challenge, None while it is unused, committed
  row,      \* the session that has locked the row of the mode, the slot, the challenge
  work,     \* what each session has written and not committed
  pc,
  job       \* the operation of each session and what it has read

vars == <<lock, kill, mode, cred, verdict, row, work, pc, job>>

Rows == {"mode", "slot", "challenge"}
Ops == {"set", "clear", "auto", "change", "downshift", "haltdown", "activate",
        "save", "submit", "guard"}
Places == {"idle", "read", "preview", "wait", "held", "saw", "halted", "verify",
           "gates", "apply", "slot", "trip", "window", "blocked", "unlock", "commit"}
\* the places where a session holds the control lock
Inside == Places \ {"idle", "read", "preview", "wait", "commit"}

Drafts == [mode : Modes \cup {None}, cred : Creds \cup {None},
           verdict : {None, "APPLIED", "BLOCKED"}]
Jobs == [op : Ops \cup {None}, goal : Modes \cup Levels \cup Creds \cup {None},
         seen : Modes \cup {None}, level : Levels \cup {None}]
NoWork == [mode |-> None, cred |-> None, verdict |-> None]
NoJob == [op |-> None, goal |-> None, seen |-> None, level |-> None]

ControlTypeOK ==
  /\ lock \in Sessions \cup {NoOne}
  /\ kill \in Levels /\ mode \in Modes
  /\ cred \in Creds
  /\ verdict \in {None, "APPLIED", "BLOCKED"}
  /\ row \in [Rows -> Sessions \cup {NoOne}]
  /\ work \in [Sessions -> Drafts]
  /\ pc \in [Sessions -> Places]
  /\ job \in [Sessions -> Jobs]

ControlInit ==
  /\ lock = NoOne
  /\ kill = "CLEAR" /\ mode = "PAPER" /\ cred \in Creds \ {"rotated"}
  /\ verdict = None
  /\ row = [r \in Rows |-> NoOne]
  /\ work = [s \in Sessions |-> NoWork]
  /\ pc = [s \in Sessions |-> "idle"]
  /\ job = [s \in Sessions |-> NoJob]

Goto(s, place) == pc' = [pc EXCEPT ![s] = place]
Free(r, s) == row[r] \in {NoOne, s}
LockRow(r, s) == Free(r, s) /\ row' = [row EXCEPT ![r] = s]
At(s, place, ops) == pc[s] = place /\ job[s].op \in ops
Committed == <<kill, mode, cred, verdict>>

(* ------------------------------ the requests --------------------------- *)
\* The public functions; those that read before they take the lock start at
\* "read" or "preview".
Call(s, op, goal, place) ==
  /\ pc[s] = "idle"
  /\ job' = [job EXCEPT ![s] = [NoJob EXCEPT !.op = op, !.goal = goal]]
  /\ Goto(s, place)
  /\ UNCHANGED <<lock, row, work>> /\ UNCHANGED Committed

Request(s) ==
  \/ \E l \in OwnerLevels : Call(s, "set", l, "wait")
  \/ \E op \in {"clear", "auto", "activate", "submit", "guard"} : Call(s, op, None, "wait")
  \/ \E m \in Modes : Call(s, "change", m, "preview")
  \/ \E m \in Modes : Call(s, "downshift", m, "read")
  \/ \E m \in Modes : Call(s, "haltdown", m, "wait")
  \/ \E c \in {"empty", "rotated"} : Call(s, "save", c, "wait")

Leaving(s) == Goto(s, "unlock") /\ job' = [job EXCEPT ![s] = NoJob]
Done(s) == Goto(s, "idle") /\ job' = [job EXCEPT ![s] = NoJob]

\* automatic_downshift: the mode is read before anything is locked
ReadBefore(s) ==
  /\ At(s, "read", {"downshift"})
  /\ IF RiskRank(job[s].goal) < RiskRank(mode)
     THEN Goto(s, "preview") /\ UNCHANGED job
     ELSE Done(s)
  /\ UNCHANGED <<lock, row, work>> /\ UNCHANGED Committed

\* evaluate_promotion, with the only evidence the server can have: ready says
\* whether the T-Invest sandbox has passed its acceptance
Allowed(current, target, ready) ==
  \/ RiskRank(target) <= RiskRank(current)
  \/ current = "PAPER" /\ target = "SANDBOX" /\ ready

\* mutant: the row is locked for the decision, before the control lock
PreviewLocked(s) ==
  /\ At(s, "preview", {"change", "downshift"}) /\ LockRow("mode", s)
  /\ \E ready \in BOOLEAN :
       /\ Allowed(mode, job[s].goal, ready)
       /\ Goto(s, "wait") /\ job' = [job EXCEPT ![s] = [@ EXCEPT !.seen = mode]]
  /\ UNCHANGED <<lock, work>> /\ UNCHANGED Committed

\* change_mode_with_guard: decided on the mode it reads now, outside the lock
Preview(s) ==
  /\ At(s, "preview", {"change", "downshift"})
  /\ \E ready \in BOOLEAN :
       IF Allowed(mode, job[s].goal, ready)
       THEN Goto(s, "wait") /\ job' = [job EXCEPT ![s] = [@ EXCEPT !.seen = mode]]
       ELSE Done(s)
  /\ UNCHANGED <<lock, row, work>> /\ UNCHANGED Committed

(* ----------------------------- the control lock ------------------------ *)
\* mutant: the lock is not waited for
BargeIn(s) ==
  /\ pc[s] = "wait"
  /\ lock' = s /\ Goto(s, "held")
  /\ UNCHANGED <<row, work, job>> /\ UNCHANGED Committed

TakeLock(s) ==
  /\ pc[s] = "wait" /\ lock = NoOne
  /\ lock' = s /\ Goto(s, "held")
  /\ UNCHANGED <<row, work, job>> /\ UNCHANGED Committed

Unlock(s) ==
  /\ pc[s] = "unlock"
  /\ lock' = NoOne /\ Goto(s, "commit")
  /\ UNCHANGED <<row, work, job>> /\ UNCHANGED Committed

Publish(s) ==
  /\ mode' = IF work[s].mode = None THEN mode ELSE work[s].mode
  /\ cred' = IF work[s].cred = None THEN cred ELSE work[s].cred
  /\ verdict' = IF work[s].verdict = None THEN verdict ELSE work[s].verdict

Release(s) ==
  /\ row' = [r \in Rows |-> IF row[r] = s THEN NoOne ELSE row[r]]
  /\ work' = [work EXCEPT ![s] = NoWork]

\* the end of the request: get_db commits
CommitRequest(s) ==
  /\ pc[s] = "commit" /\ Publish(s) /\ Release(s) /\ Done(s)
  /\ UNCHANGED <<lock, kill>>

\* The process dies, or the request raises: the transaction is rolled back and
\* both connections are closed.
Crash(s) ==
  /\ pc[s] # "idle" /\ Release(s) /\ Done(s)
  /\ lock' = IF lock = s THEN NoOne ELSE lock
  /\ UNCHANGED Committed

(* ------------------------------ the kill switch ------------------------ *)
\* _set_execution_kill_switch_locked and clear: committed while the lock is held
SetLevel(s, level) ==
  kill' = level /\ Publish(s) /\ Release(s) /\ UNCHANGED lock

OwnerSwitch(s) ==
  /\ At(s, "held", {"set", "clear"})
  /\ SetLevel(s, IF job[s].op = "clear" THEN "CLEAR" ELSE job[s].goal)
  /\ Leaving(s)

\* _automatic_halt_new_entries_locked: reads, compares the ranks, writes
AfterHalt(s) == CASE job[s].op = "haltdown" -> "halted"
                  [] job[s].op = "guard" -> "blocked"
                  [] OTHER -> "unlock"

ReadLevel(s) ==
  /\ \/ At(s, "held", {"auto", "haltdown"}) \/ At(s, "trip", {"guard"})
  /\ job' = [job EXCEPT ![s] = IF job[s].op = "haltdown"
                               THEN [@ EXCEPT !.level = kill, !.seen = mode]
                               ELSE [@ EXCEPT !.level = kill]]
  /\ Goto(s, "saw")
  /\ UNCHANGED <<lock, row, work>> /\ UNCHANGED Committed

\* automatic_halt_if_canary_missing_protection and the Lighter reconciliation
\* find nothing wrong
NothingWrong(s) ==
  /\ At(s, "held", {"auto"}) /\ Leaving(s)
  /\ UNCHANGED <<lock, row, work>> /\ UNCHANGED Committed

AutomaticHalt(s) ==
  /\ pc[s] = "saw"
  /\ IF KillRank(job[s].level) >= KillRank("HALT_NEW_ENTRIES")
     THEN UNCHANGED <<lock, row, work>> /\ UNCHANGED Committed
     ELSE SetLevel(s, "HALT_NEW_ENTRIES")
  /\ Goto(s, AfterHalt(s)) /\ UNCHANGED job

(* ---------------------------- the lifecycle mode ----------------------- *)
Stage(s, w) == work' = [work EXCEPT ![s] = w]

\* _change_execution_mode_locked waits for the row; the authorization it was
\* given is the one minted for the mode read in Preview
ChangeMode(s) ==
  /\ At(s, "held", {"change", "downshift"})
  /\ LockRow("mode", s)
  /\ IF mode = job[s].goal \/ job[s].seen = job[s].goal
     THEN UNCHANGED work
     ELSE Stage(s, [work[s] EXCEPT !.mode = job[s].goal])
  /\ Leaving(s)
  /\ UNCHANGED lock /\ UNCHANGED Committed

\* automatic_halt_and_downshift, after the HALT: this one commits in the lock
HaltedChange(s) ==
  /\ At(s, "halted", {"haltdown"})
  /\ IF RiskRank(job[s].goal) < RiskRank(job[s].seen)
     THEN Free("mode", s) /\ mode' = job[s].goal
     ELSE UNCHANGED mode
  /\ Leaving(s)
  /\ UNCHANGED <<lock, kill, cred, verdict, row, work>>

(* ----------------------- the owner's Canary activation ----------------- *)
\* confirm_canary_owner_activation: a stored result is returned as it is
Prior(s) ==
  /\ At(s, "held", {"activate"})
  /\ Goto(s, IF verdict # None THEN "unlock" ELSE "verify")
  /\ UNCHANGED <<lock, row, work, job>> /\ UNCHANGED Committed

\* mutant: consumed_at is not looked at once the row is locked
VerifyAgain(s) ==
  /\ At(s, "verify", {"activate"}) /\ LockRow("challenge", s)
  /\ Goto(s, "gates")
  /\ UNCHANGED <<lock, work, job>> /\ UNCHANGED Committed

\* verify_owner_step_up_signature locks the challenge and consumes it
Verify(s) ==
  /\ At(s, "verify", {"activate"}) /\ LockRow("challenge", s)
  /\ \/ verdict = None /\ Goto(s, "gates")
     \/ Goto(s, "unlock")  \* consumed, expired or wrongly signed
  /\ UNCHANGED <<lock, work, job>> /\ UNCHANGED Committed

\* the gates are read from what is committed now
Gates(s) ==
  /\ pc[s] = "gates"
  /\ \/ kill = "CLEAR" /\ mode = "SANDBOX" /\ Goto(s, "apply") /\ UNCHANGED work
     \/ Stage(s, [work[s] EXCEPT !.verdict = "BLOCKED"]) /\ Goto(s, "unlock")
  /\ UNCHANGED <<lock, row, job>> /\ UNCHANGED Committed

Apply(s) ==
  /\ pc[s] = "apply" /\ LockRow("mode", s)
  /\ Stage(s, [work[s] EXCEPT !.mode = "CANARY", !.verdict = "APPLIED"])
  /\ Goto(s, "unlock")
  /\ UNCHANGED <<lock, job>> /\ UNCHANGED Committed

(* --------------------------- the trade credential ---------------------- *)
\* save_secret and delete_secret of the slot lighter_trade
SaveSecret(s) ==
  /\ At(s, "held", {"save"}) /\ LockRow("slot", s)
  /\ Stage(s, [work[s] EXCEPT !.cred = job[s].goal])
  /\ Leaving(s)
  /\ UNCHANGED lock /\ UNCHANGED Committed

(* -------------------------- the guarded submits ------------------------ *)
\* _KillSwitchGuardedPort.submit
Submit(s) ==
  /\ At(s, "held", {"submit"})
  /\ Goto(s, IF kill = "CLEAR" THEN "window" ELSE "unlock")
  /\ UNCHANGED <<lock, row, work, job>> /\ UNCHANGED Committed

\* mutant: _fresh_mode without FOR UPDATE
PeekMode(s) ==
  /\ At(s, "held", {"guard"})
  /\ Goto(s, IF mode = "CANARY" /\ kill = "CLEAR" THEN "slot" ELSE "blocked")
  /\ UNCHANGED <<lock, row, work, job>> /\ UNCHANGED Committed

\* canary_submit_guard: the policy, then the mode under its row lock, then the
\* level
GuardMode(s) ==
  /\ At(s, "held", {"guard"})
  /\ \/ Goto(s, "blocked") /\ UNCHANGED row  \* no such policy
     \/ Goto(s, "trip") /\ UNCHANGED row     \* the policy is not what its hash says
     \/ /\ LockRow("mode", s)
        /\ Goto(s, IF mode = "CANARY" /\ kill = "CLEAR" THEN "slot" ELSE "blocked")
  /\ UNCHANGED <<lock, work, job>> /\ UNCHANGED Committed

\* then the slot under its row lock, if it has a row, the generation, the
\* exposure and the limits
GuardSlot(s) ==
  /\ pc[s] = "slot"
  /\ \/ Goto(s, "blocked") /\ UNCHANGED row  \* the runtime context is not known
     \/ /\ IF cred = "empty" THEN UNCHANGED row ELSE LockRow("slot", s)
        /\ \/ Goto(s, "trip")  \* drift, or a limit is broken
           \/ Goto(s, "blocked")
           \/ cred = "policy" /\ Goto(s, "window")
  /\ UNCHANGED <<lock, work, job>> /\ UNCHANGED Committed

\* the body of the with statement ends
Leave(s) ==
  /\ pc[s] \in {"window", "blocked"} /\ Goto(s, "unlock")
  /\ UNCHANGED <<lock, row, work, job>> /\ UNCHANGED Committed

Work(s) ==
  \/ ReadBefore(s) \/ Preview(s) \/ Unlock(s) \/ CommitRequest(s)
  \/ OwnerSwitch(s) \/ ReadLevel(s) \/ NothingWrong(s) \/ AutomaticHalt(s)
  \/ ChangeMode(s) \/ HaltedChange(s)
  \/ Prior(s) \/ Verify(s) \/ Gates(s) \/ Apply(s)
  \/ SaveSecret(s) \/ Submit(s) \/ GuardMode(s) \/ GuardSlot(s) \/ Leave(s)

ControlNext == \E s \in Sessions : Request(s) \/ TakeLock(s) \/ Work(s) \/ Crash(s)

ControlSpec == ControlInit /\ [][ControlNext]_vars

(* ------------------------------- properties ---------------------------- *)
\* While a worker's submit or a Canary guard that found nothing wrong is in its
\* window, what it decided on is still what is committed: the level, and for
\* the guard also the mode and the generation of the credential
\* (kill_switch.py:202, mode.py:194, canary_submit_guard.py:207).
WindowFacts ==
  \A s \in Sessions : pc[s] = "window" =>
    /\ kill = "CLEAR"
    /\ job[s].op = "guard" => mode = "CANARY" /\ cred = "policy"

\* No automatic action lowers the level the owner has set, however the owner's
\* command falls between its read and its write (automatic_safety.py:153).
AutomaticNeverWeakens ==
  [][\A s \in Sessions : pc[s] = "saw" /\ pc'[s] # "saw" => KillRank(kill') >= KillRank(kill)]_vars

\* One owner proof enters CANARY at most once: however often the confirmation
\* is sent again, and whatever demoted the mode meanwhile, a stored result
\* stays and CANARY is not entered on it (canary_owner_activation.py:311).
ProofUsedOnce ==
  [][/\ verdict # None => verdict' = verdict
     /\ mode' = "CANARY" /\ mode # "CANARY" => verdict = None]_vars

\* Nobody waits for the control lock while others may wait for its rows: a
\* row's owner has the lock or has only its commit left, so no two sessions can
\* wait for each other over two connections, which PostgreSQL would not see
\* (kill_switch.py:145, canary_submit_guard.py:347).
RowOrder == \A r \in Rows : row[r] # NoOne => row[r] = lock \/ pc[row[r]] = "commit"

\* "recheck every gate, then atomically enter CANARY": the mode becomes CANARY
\* from SANDBOX and with the kill switch clear (canary_owner_activation.py:305).
CanaryEntryGated ==
  [][mode' = "CANARY" /\ mode # "CANARY" => mode = "SANDBOX" /\ kill = "CLEAR"]_vars
=============================================================================
