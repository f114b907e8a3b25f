--------------------------- MODULE ExecutionWorkers ---------------------------
(***************************************************************************)
(* Several workers that call process_next_intent (server/app/execution/    *)
(* worker.py) over the same intents: the durable lease of a claim, the     *)
(* advisory lock of the venue/account/instrument tuple, the session in     *)
(* which a pass keeps its copy of the intent, and the finally block that   *)
(* gives the lease back.                                                   *)
(*                                                                         *)
(* What a pass does to its intent is module ExecutionLifecycle; here it    *)
(* writes (WriteStep, CommitStep) and ends (Settle, Raise, Cancel).        *)
(*                                                                         *)
(* A worker is a process with one session.  The tuple lock belongs to a    *)
(* connection of its pool, and the session may have moved to another one   *)
(* when it unlocks: then the lock stays behind.  Which connection a        *)
(* session has is module TupleLock; here every outcome is possible.        *)
(***************************************************************************)
EXTENDS Integers, FiniteSets

CONSTANTS
  Workers,
  Intents,    \* numbered in the order of created_at, then id
  TupleOf,    \* the venue/account/instrument of an intent
  NoOne,      \* no worker, no intent
  Broken      \* intents whose port call raises in every pass

ASSUME IntentsAssumption == Intents \subseteq Nat /\ Broken \subseteq Intents
ASSUME NoOneAssumption == NoOne \notin Workers /\ NoOne \notin Intents

VARIABLES
  row,    \* the committed columns of each intent
  pc,     \* where each worker is
  item,   \* the intent each worker has claimed
  pend,   \* what its session has flushed and not committed
  stale,  \* workers whose copy another session has overwritten since it was read
  lock,   \* the worker whose pool has the advisory lock of each tuple
  left,   \* tuples whose lock has outlived a pass on a connection of that pool
  overrun \* history: claimed intents whose lease has run out under a claimant

vars == <<row, pc, item, pend, stale, lock, left, overrun>>

Tuples == {TupleOf[i] : i \in Intents}

(* open: the state is a claimable one.  retry: whether next_retry_at has   *)
(* passed.  lease: whether lease_expires_at is empty, ahead or passed.     *)
(* Nothing looks at lease_owner but _release_lease, in the copy it has.    *)
Rows == [open : {"yes", "no"}, retry : {"due", "later"}, lease : {"none", "live", "expired"}]

TypeOK ==
  /\ row \in [Intents -> Rows]
  /\ pc \in [Workers -> {"idle", "claimed", "pass", "unlock", "release"}]
  /\ item \in [Workers -> Intents \cup {NoOne}]
  /\ pend \in [Workers -> {"none", "step", "over"}]
  /\ stale \subseteq Workers
  /\ lock \in [Tuples -> Workers \cup {NoOne}]
  /\ left \subseteq Tuples
  /\ overrun \subseteq Intents

Init ==
  /\ row = [i \in Intents |->
              [open |-> "yes", retry |-> "due", lease |-> "none"]]
  /\ pc = [w \in Workers |-> "idle"]
  /\ item = [w \in Workers |-> NoOne]
  /\ pend = [w \in Workers |-> "none"]
  /\ stale = {}
  /\ lock = [t \in Tuples |-> NoOne]
  /\ left = {}
  /\ overrun = {}

\* a flushed UPDATE keeps the row locked until its session commits
RowLocked(i) == \E w \in Workers : item[w] = i /\ pend[w] # "none"
RowFreeFor(w) == \A v \in Workers \ {w} : item[v] = item[w] => pend[v] = "none"

\* the others that hold a copy of w's intent now hold an old one
Overtaken(w) == {v \in Workers \ {w} : item[v] = item[w]}

ClaimedBut(w) == {item[v] : v \in Workers \ {w}}

(* ------------------------------- claiming ------------------------------ *)
\* mutant: a claim that looks at the due time and not at the lease
ClaimableLeased(i) == row[i].open = "yes" /\ row[i].retry = "due" /\ ~RowLocked(i)

\* mutant: a lease that was not given back is never taken over
ClaimableFree(i) ==
  /\ row[i].open = "yes" /\ row[i].retry = "due"
  /\ row[i].lease = "none"
  /\ ~RowLocked(i)

Claimable(i) ==
  /\ row[i].open = "yes" /\ row[i].retry = "due"
  /\ row[i].lease # "live"
  /\ ~RowLocked(i)

Oldest(i) == \A j \in Intents : Claimable(j) => i <= j

\* claim_next_intent, and the commit that publishes the lease
Claim(w, i) ==
  /\ pc[w] = "idle"
  /\ Claimable(i) /\ Oldest(i)
  /\ row' = [row EXCEPT ![i].lease = "live"]
  /\ item' = [item EXCEPT ![w] = i]
  /\ pc' = [pc EXCEPT ![w] = "claimed"]
  /\ stale' = stale \ {w}
  /\ UNCHANGED <<pend, lock, left, overrun>>

(* execution_tuple_lock does not wait.  The db.get that follows finds the   *)
(* object of the claim in the session and does not read the row again.      *)
Enter(w) ==
  /\ pc[w] = "claimed" /\ lock[TupleOf[item[w]]] = NoOne
  /\ lock' = [lock EXCEPT ![TupleOf[item[w]]] = w]
  /\ pc' = [pc EXCEPT ![w] = "pass"]
  /\ UNCHANGED <<row, item, pend, stale, left, overrun>>

\* the session has the connection again on which the process left the lock
Reenter(w) ==
  /\ pc[w] = "claimed" /\ lock[TupleOf[item[w]]] = w
  /\ pc' = [pc EXCEPT ![w] = "pass"]
  /\ UNCHANGED <<row, item, pend, stale, lock, left, overrun>>

\* "execution tuple is already claimed", or locked on another connection
TurnedAway(w) ==
  /\ pc[w] = "claimed" /\ lock[TupleOf[item[w]]] # NoOne
  /\ pc' = [pc EXCEPT ![w] = "release"]
  /\ UNCHANGED <<row, item, pend, stale, lock, left, overrun>>

(* -------------------------- a pass over an intent ---------------------- *)
WriteStep(w) ==
  /\ pc[w] = "pass" /\ pend[w] = "none" /\ item[w] \notin Broken
  /\ RowFreeFor(w)
  /\ pend' = [pend EXCEPT ![w] = "step"]
  /\ UNCHANGED <<row, pc, item, stale, lock, left, overrun>>

CommitStep(w) ==
  /\ pc[w] = "pass" /\ pend[w] = "step"
  /\ pend' = [pend EXCEPT ![w] = "none"]
  /\ stale' = stale \cup Overtaken(w)
  /\ UNCHANGED <<row, pc, item, lock, left, overrun>>

\* the pass commits a scheduled retry, or that the intent is over, and returns
Settle(w) ==
  /\ pc[w] = "pass" /\ item[w] \notin Broken /\ RowFreeFor(w)
  /\ \/ row' = [row EXCEPT ![item[w]].retry = "later"]
     \/ row' = [row EXCEPT ![item[w]].open = "no"]
  /\ pend' = [pend EXCEPT ![w] = "none"]
  /\ pc' = [pc EXCEPT ![w] = "unlock"]
  /\ stale' = stale \cup Overtaken(w)
  /\ UNCHANGED <<item, lock, left, overrun>>

\* _apply_pre_submit_kill_switch: CANCELLED is only flushed when the pass returns
Cancel(w) ==
  /\ pc[w] = "pass" /\ pend[w] = "none" /\ RowFreeFor(w)
  /\ pend' = [pend EXCEPT ![w] = "over"]
  /\ pc' = [pc EXCEPT ![w] = "unlock"]
  /\ UNCHANGED <<row, item, stale, lock, left, overrun>>

\* a port call raises: no retry is scheduled; or the kill switch halts the entry
Raise(w) ==
  /\ pc[w] = "pass"
  /\ pc' = [pc EXCEPT ![w] = "unlock"]
  /\ UNCHANGED <<row, item, pend, stale, lock, left, overrun>>

(* ------------------------------ giving back ---------------------------- *)
(* pg_advisory_unlock frees the lock on the connection that has it; on      *)
(* another one it answers false, which nobody looks at.  A lock that was    *)
(* entered twice stays in either case.                                      *)
Unlock(w) ==
  LET t == TupleOf[item[w]] IN
  /\ pc[w] = "unlock"
  /\ \/ t \notin left /\ lock' = [lock EXCEPT ![t] = NoOne] /\ UNCHANGED left
     \/ left' = left \cup {t} /\ UNCHANGED lock
  /\ pc' = [pc EXCEPT ![w] = "release"]
  /\ UNCHANGED <<row, item, pend, stale, overrun>>

(* _release_lease compares the owner in the session's copy, which is the    *)
(* worker itself since its claim, and so clears the lease of the row        *)
(* whoever holds it; the commit takes along what the pass left flushed.     *)
Release(w) ==
  /\ pc[w] = "release" /\ RowFreeFor(w)
  /\ row' = [row EXCEPT ![item[w]].lease = "none",
                        ![item[w]].open = IF pend[w] = "over" THEN "no" ELSE @]
  /\ pc' = [pc EXCEPT ![w] = "idle"]
  /\ item' = [item EXCEPT ![w] = NoOne]
  /\ pend' = [pend EXCEPT ![w] = "none"]
  /\ stale' = (IF pend[w] = "none" THEN stale ELSE stale \cup Overtaken(w)) \ {w}
  /\ overrun' = overrun \cap ClaimedBut(w)
  /\ UNCHANGED <<lock, left>>

(* ------------------------------ environment ---------------------------- *)
\* the process dies: PostgreSQL rolls back and frees its locks, the lease stays
Crash(w) ==
  /\ pc[w] # "idle" \/ \E t \in Tuples : lock[t] = w
  /\ pc' = [pc EXCEPT ![w] = "idle"]
  /\ item' = [item EXCEPT ![w] = NoOne]
  /\ pend' = [pend EXCEPT ![w] = "none"]
  /\ stale' = stale \ {w}
  /\ lock' = [t \in Tuples |-> IF lock[t] = w THEN NoOne ELSE lock[t]]
  /\ left' = {t \in left : lock[t] # w}
  /\ overrun' = overrun \cap ClaimedBut(w)
  /\ UNCHANGED row

\* after _LEASE_FOR, whether or not its claimant is still at work
LeaseExpires(i) ==
  /\ row[i].lease = "live"
  /\ row' = [row EXCEPT ![i].lease = "expired"]
  /\ overrun' = IF \E w \in Workers : item[w] = i THEN overrun \cup {i} ELSE overrun
  /\ UNCHANGED <<pc, item, pend, stale, lock, left>>

\* the back-off, _RETRY_BASE_SECONDS at least, is longer than it takes to give back lock and lease
RetryFallsDue(i) ==
  /\ row[i].retry = "later"
  /\ \A w \in Workers : item[w] = i => pc[w] \notin {"unlock", "release"}
  /\ row' = [row EXCEPT ![i].retry = "due"]
  /\ UNCHANGED <<pc, item, pend, stale, lock, left, overrun>>

Worker(w) ==
  \/ \E i \in Intents : Claim(w, i)
  \/ Enter(w) \/ Reenter(w) \/ TurnedAway(w) \/ WriteStep(w) \/ CommitStep(w)
  \/ Settle(w) \/ Cancel(w) \/ Raise(w)
  \/ Unlock(w) \/ Release(w)

Next ==
  \/ \E w \in Workers : Worker(w) \/ Crash(w)
  \/ \E i \in Intents : LeaseExpires(i) \/ RetryFallsDue(i)

Spec == Init /\ [][Next]_vars

(* ------------------------------- fairness ------------------------------ *)
(* A worker calls process_next_intent again whenever it returned, and goes  *)
(* on with what it began.  A process may die and a port call may raise at   *)
(* any time, but the passes over one intent do not fail for ever.  The      *)
(* back-off leaves room: an intent that is now and then the oldest one due  *)
(* is claimed, and one that now and then finds its tuple free enters it.    *)
(* Leases expire and retries fall due.  Nothing makes a session happen on   *)
(* the connection with the lock it left: Reenter has no fairness.           *)
GoesOn(w) == TurnedAway(w) \/ CommitStep(w) \/ Raise(w) \/ Unlock(w) \/ Release(w)
Fairness ==
  /\ \A w \in Workers : WF_vars(GoesOn(w))
  /\ \A i \in Intents :
       /\ SF_vars(\E w \in Workers : Claim(w, i))
       /\ SF_vars(\E w \in Workers : item[w] = i /\ Enter(w))
       /\ SF_vars(\E w \in Workers : item[w] = i /\ Settle(w))
       /\ WF_vars(LeaseExpires(i)) /\ WF_vars(RetryFallsDue(i))

FairSpec == Spec /\ Fairness

(* ------------------------------ properties ----------------------------- *)
(* A pass works on the intent as it is in the database, unless a lease of  *)
(* the intent has run out under a claimant.  A pass on an old copy acts on *)
(* a state that is over (posts again, arms again) and writes that state    *)
(* back over the newer one; no version column would refuse it.  So the     *)
(* lease is the only thing that keeps copies apart, whoever dies, fails,   *)
(* is turned away or gives back a lease that is no longer its own.         *)
OldCopyOnlyOverrun ==
  \A w \in Workers : pc[w] = "pass" /\ w \in stale => item[w] \in overrun

(* An intent that is due is sooner or later taken into a pass, whichever   *)
(* worker died with its lease or its lock, unless the lock of its tuple or *)
(* of an older one's stays behind on a connection: then it may be turned   *)
(* away for ever, or wait for ever behind one that is.  Intents of one     *)
(* tuple can turn each other away for ever, so it is checked for different *)
(* tuples.                                                                 *)
Served(i) == \E w \in Workers : item[w] = i /\ pc[w] = "pass"
Blocked(i) == \E j \in Intents : j <= i /\ TupleOf[j] \in left
DueIsServed ==
  \A i \in Intents : row[i].open = "yes" ~> (row[i].open = "no" \/ Served(i) \/ Blocked(i))

(* The inductive invariant: until its lease runs out under it, a claimed   *)
(* intent is its claimant's alone, under a live lease, and only copies of  *)
(* overrun intents have been overwritten.                                  *)
ClaimsItem == \A w \in Workers : pc[w] = "idle" <=> item[w] = NoOne
Alone(w) == Overtaken(w) = {} /\ row[item[w]].lease = "live"
AloneOrOverrun ==
  \A w \in Workers : pc[w] # "idle" => item[w] \in overrun \/ Alone(w)
StaleIsOverrun == \A w \in stale : item[w] \in overrun
LeaseInv == TypeOK /\ ClaimsItem /\ AloneOrOverrun /\ StaleIsOverrun
=============================================================================
