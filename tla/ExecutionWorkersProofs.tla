------------------------ MODULE ExecutionWorkersProofs ------------------------
(***************************************************************************)
(* What the lease of module ExecutionWorkers guarantees for every set of   *)
(* workers, intents and tuples, however long a pass takes, whoever crashes *)
(* and wherever a tuple's lock stays behind: until it runs out under its   *)
(* claimant, it keeps the copies of an intent apart.                       *)
(***************************************************************************)
EXTENDS ExecutionWorkers, TLAPS

LEMMA LeaseInvInit == Init => LeaseInv
  BY NoOneAssumption
  DEF Init, LeaseInv, TypeOK, Rows, ClaimsItem, AloneOrOverrun, StaleIsOverrun

(* Nobody else has a copy of an intent whose lease did not run out.        *)
LEMMA OneClaimant ==
  ASSUME LeaseInv, NEW v \in Workers, NEW w \in Workers,
         pc[w] # "idle", item[v] = item[w], item[w] \notin overrun
  PROVE  v = w
  BY DEF LeaseInv, AloneOrOverrun, Alone, Overtaken

(* Every action keeps the types, and the link between a worker's place and *)
(* its intent.                                                             *)
LEMMA TypesNext == TypeOK /\ ClaimsItem /\ [Next]_vars => TypeOK' /\ ClaimsItem'
<1> SUFFICES ASSUME TypeOK, ClaimsItem, [Next]_vars PROVE TypeOK' /\ ClaimsItem'
  OBVIOUS
<1> USE NoOneAssumption DEF TypeOK, Rows, ClaimsItem, Tuples
<1>1. ASSUME NEW w \in Workers, NEW i \in Intents, Claim(w, i) PROVE TypeOK' /\ ClaimsItem'
  BY <1>1 DEF Claim
<1>2. ASSUME NEW w \in Workers, Enter(w) PROVE TypeOK' /\ ClaimsItem'
  BY <1>2 DEF Enter
<1>3. ASSUME NEW w \in Workers, Reenter(w) \/ TurnedAway(w) PROVE TypeOK' /\ ClaimsItem'
  BY <1>3 DEF Reenter, TurnedAway
<1>4. ASSUME NEW w \in Workers, WriteStep(w) PROVE TypeOK' /\ ClaimsItem'
  BY <1>4 DEF WriteStep
<1>5. ASSUME NEW w \in Workers, CommitStep(w) PROVE TypeOK' /\ ClaimsItem'
  BY <1>5 DEF CommitStep, Overtaken
<1>6. ASSUME NEW w \in Workers, Settle(w) PROVE TypeOK' /\ ClaimsItem'
  BY <1>6 DEF Settle, Overtaken
<1>7. ASSUME NEW w \in Workers, Cancel(w) \/ Raise(w) PROVE TypeOK' /\ ClaimsItem'
  <2>1. CASE Cancel(w)
    BY <2>1 DEF Cancel
  <2>2. CASE Raise(w)
    BY <2>2 DEF Raise
  <2> QED
    BY <1>7, <2>1, <2>2
<1>8. ASSUME NEW w \in Workers, Unlock(w) PROVE TypeOK' /\ ClaimsItem'
  <2>1. item[w] \in Intents /\ TupleOf[item[w]] \in Tuples
    BY <1>8 DEF Unlock
  <2> QED
    BY <1>8, <2>1 DEF Unlock
<1>9. ASSUME NEW w \in Workers, Release(w) PROVE TypeOK' /\ ClaimsItem'
  BY <1>9 DEF Release, Overtaken
<1>10. ASSUME NEW w \in Workers, Crash(w) PROVE TypeOK' /\ ClaimsItem'
  BY <1>10 DEF Crash
<1>11. ASSUME NEW i \in Intents, LeaseExpires(i) PROVE TypeOK' /\ ClaimsItem'
  BY <1>11 DEF LeaseExpires
<1>12. ASSUME NEW i \in Intents, RetryFallsDue(i) PROVE TypeOK' /\ ClaimsItem'
  BY <1>12 DEF RetryFallsDue
<1>13. CASE UNCHANGED vars
  BY <1>13 DEF vars
<1> QED
  BY <1>1, <1>2, <1>3, <1>4, <1>5, <1>6, <1>7, <1>8, <1>9, <1>10, <1>11,
     <1>12, <1>13 DEF Next, Worker

(* The lease: every action leaves a claimed intent to its claimant alone,  *)
(* or has let its lease run out under it.                                  *)
LEMMA LeaseNext == LeaseInv /\ [Next]_vars => AloneOrOverrun' /\ StaleIsOverrun'
<1> SUFFICES ASSUME LeaseInv, [Next]_vars PROVE AloneOrOverrun' /\ StaleIsOverrun'
  OBVIOUS
<1>t. TypeOK /\ ClaimsItem /\ AloneOrOverrun /\ StaleIsOverrun
  BY DEF LeaseInv
<1> USE DEF AloneOrOverrun, StaleIsOverrun, Alone, Overtaken
<1>q. ASSUME UNCHANGED <<row, item, stale, overrun>>,
             \A w \in Workers : pc'[w] # "idle" => pc[w] # "idle"
      PROVE  AloneOrOverrun' /\ StaleIsOverrun'
  BY <1>q, <1>t
<1>1. ASSUME NEW w \in Workers, NEW i \in Intents, Claim(w, i)
      PROVE  AloneOrOverrun' /\ StaleIsOverrun'
  <2>1. row[i].lease # "live" /\ item[w] = NoOne /\ pc[w] = "idle"
    BY <1>1, <1>t DEF Claim, Claimable, ClaimsItem
  <2>2. /\ item' = [item EXCEPT ![w] = i] /\ pc' = [pc EXCEPT ![w] = "claimed"]
        /\ row' = [row EXCEPT ![i].lease = "live"]
        /\ stale' = stale \ {w} /\ overrun' = overrun
    BY <1>1 DEF Claim
  <2>3. i \in overrun \/ \A v \in Workers : item[v] # i
    BY <2>1, <1>t, NoOneAssumption DEF ClaimsItem
  <2>4. StaleIsOverrun'
    BY <2>2, <1>t DEF TypeOK
  <2>5. ASSUME NEW v \in Workers, pc'[v] # "idle", item'[v] \notin overrun'
        PROVE  Alone(v)'
    <3>1. CASE v = w
      <4>1. item'[v] = i /\ row'[i].lease = "live"
        BY <2>2, <3>1, <1>t DEF TypeOK, Rows
      <4>2. \A u \in Workers \ {w} : item'[u] = item[u] /\ item[u] # i
        BY <2>2, <2>3, <2>5, <4>1, <1>t DEF TypeOK
      <4> QED
        BY <4>1, <4>2, <3>1
    <3>2. CASE v # w
      <4>1. item'[v] = item[v] /\ pc[v] # "idle" /\ item[v] \notin overrun
        BY <2>2, <2>5, <3>2, <1>t DEF TypeOK
      <4>2. Alone(v)
        BY <4>1, <1>t
      <4>3. item[v] # i
        BY <4>1, <2>3
      <4>4. row'[item[v]] = row[item[v]]
        BY <2>2, <4>3, <1>t DEF TypeOK
      <4>5. \A u \in Workers \ {v} : item'[u] # item[v]
        BY <2>2, <4>2, <4>3, <1>t DEF TypeOK
      <4> QED
        BY <4>1, <4>2, <4>4, <4>5
    <3> QED
      BY <3>1, <3>2
  <2> QED
    BY <2>4, <2>5
<1>2. ASSUME NEW w \in Workers,
             \/ Enter(w) \/ Reenter(w) \/ TurnedAway(w) \/ WriteStep(w)
             \/ Cancel(w) \/ Raise(w) \/ Unlock(w)
      PROVE  AloneOrOverrun' /\ StaleIsOverrun'
  <2>1. UNCHANGED <<row, item, stale, overrun>> /\ pc[w] # "idle"
    BY <1>2 DEF Enter, Reenter, TurnedAway, WriteStep, Cancel, Raise, Unlock
  <2>2. \A v \in Workers \ {w} : pc'[v] = pc[v]
    BY <1>2, <1>t DEF Enter, Reenter, TurnedAway, WriteStep, Cancel, Raise, Unlock, TypeOK
  <2> QED
    BY <2>1, <2>2, <1>q
<1>3. ASSUME NEW w \in Workers, CommitStep(w) \/ Settle(w)
      PROVE  AloneOrOverrun' /\ StaleIsOverrun'
  <2>1. /\ UNCHANGED <<item, overrun>> /\ pc[w] # "idle"
        /\ stale' = stale \cup Overtaken(w)
        /\ \A v \in Workers : pc'[v] # "idle" => pc[v] # "idle"
    BY <1>3, <1>t DEF CommitStep, Settle, TypeOK
  <2>2. item[w] \in Intents
    BY <2>1, <1>t, NoOneAssumption DEF TypeOK, ClaimsItem
  <2>3. \A i \in Intents : row'[i].lease = row[i].lease
    <3>1. CASE CommitStep(w)
      BY <3>1 DEF CommitStep
    <3>2. CASE row' = [row EXCEPT ![item[w]].retry = "later"]
      BY <3>2, <2>2, <1>t DEF TypeOK, Rows
    <3>3. CASE row' = [row EXCEPT ![item[w]].open = "no"]
      BY <3>3, <2>2, <1>t DEF TypeOK, Rows
    <3> QED
      BY <1>3, <3>1, <3>2, <3>3 DEF Settle
  <2>4. \A v \in Overtaken(w) : item[v] \in overrun
    BY <2>1, OneClaimant
  <2>5. \A v \in Workers : pc[v] # "idle" => item[v] \in Intents
    BY <1>t, NoOneAssumption DEF TypeOK, ClaimsItem
  <2> QED
    BY <2>1, <2>3, <2>4, <2>5, <1>t
<1>4. ASSUME NEW w \in Workers, Release(w) \/ Crash(w)
      PROVE  AloneOrOverrun' /\ StaleIsOverrun'
  <2>1. /\ item' = [item EXCEPT ![w] = NoOne] /\ pc' = [pc EXCEPT ![w] = "idle"]
        /\ overrun' = overrun \cap ClaimedBut(w)
        /\ w \notin stale' /\ stale' \subseteq stale \cup Overtaken(w)
        /\ \A i \in Intents : i # item[w] => row'[i] = row[i]
    BY <1>4, <1>t DEF Release, Crash, TypeOK
  <2>2. \A v \in Overtaken(w) : pc[w] # "idle" => item[v] \in overrun
    BY OneClaimant
  <2>3. stale' \subseteq stale \/ pc[w] # "idle"
    BY <1>4 DEF Release, Crash
  <2>4. \A v \in Workers \ {w} : item'[v] = item[v] /\ pc'[v] = pc[v] /\ item[v] \in ClaimedBut(w)
    BY <2>1, <1>t DEF TypeOK, ClaimedBut
  <2>5. StaleIsOverrun'
    BY <2>1, <2>2, <2>3, <2>4, <1>t DEF TypeOK
  <2>6. ASSUME NEW v \in Workers, pc'[v] # "idle", item'[v] \notin overrun'
        PROVE  Alone(v)'
    <3>1. v # w
      BY <2>1, <2>6, <1>t DEF TypeOK
    <3>2. item'[v] = item[v] /\ pc[v] # "idle" /\ item[v] \notin overrun
      BY <2>1, <2>4, <2>6, <3>1
    <3>3. Alone(v) /\ item[v] \in Intents
      BY <3>2, <1>t, NoOneAssumption DEF TypeOK, ClaimsItem
    <3>4. item[w] # item[v]
      BY <3>1, <3>3
    <3>5. row'[item[v]] = row[item[v]]
      BY <2>1, <3>3, <3>4
    <3>6. \A u \in Workers \ {v} : item'[u] # item[v]
      BY <2>1, <2>4, <3>3, <1>t, NoOneAssumption DEF TypeOK
    <3> QED
      BY <3>2, <3>3, <3>5, <3>6
  <2> QED
    BY <2>5, <2>6
<1>5. ASSUME NEW i \in Intents, LeaseExpires(i) PROVE AloneOrOverrun' /\ StaleIsOverrun'
  <2>1. /\ UNCHANGED <<pc, item, stale>> /\ overrun \subseteq overrun'
        /\ \A w \in Workers : item[w] = i => i \in overrun'
        /\ \A j \in Intents : j # i => row'[j] = row[j]
    BY <1>5, <1>t DEF LeaseExpires, TypeOK
  <2>2. \A v \in Workers : pc[v] # "idle" => item[v] \in Intents
    BY <1>t, NoOneAssumption DEF TypeOK, ClaimsItem
  <2> QED
    BY <2>1, <2>2, <1>t
<1>6. ASSUME NEW i \in Intents, RetryFallsDue(i) PROVE AloneOrOverrun' /\ StaleIsOverrun'
  <2>1. /\ UNCHANGED <<pc, item, stale, overrun>>
        /\ \A j \in Intents : row'[j].lease = row[j].lease
    BY <1>6, <1>t DEF RetryFallsDue, TypeOK, Rows
  <2>2. \A v \in Workers : pc[v] # "idle" => item[v] \in Intents
    BY <1>t, NoOneAssumption DEF TypeOK, ClaimsItem
  <2> QED
    BY <2>1, <2>2, <1>t
<1>7. CASE UNCHANGED vars
  BY <1>7, <1>q DEF vars
<1> QED
  BY <1>1, <1>2, <1>3, <1>4, <1>5, <1>6, <1>7 DEF Next, Worker

(* Until its lease runs out under it, a claimed intent is its claimant's   *)
(* alone (claim_next_intent, _release_lease), whatever becomes of the      *)
(* tuple's lock.                                                           *)
THEOREM LeaseInvariant == Spec => []LeaseInv
<1>1. LeaseInv /\ [Next]_vars => LeaseInv'
  BY TypesNext, LeaseNext DEF LeaseInv
<1> QED
  BY <1>1, LeaseInvInit, PTL DEF Spec

(* A pass acts on a copy of the intent that another session has            *)
(* overwritten only if a lease of the intent has run out under a claimant. *)
THEOREM StalePassesAreOverrun == Spec => []OldCopyOnlyOverrun
<1>1. LeaseInv => OldCopyOnlyOverrun
  BY DEF LeaseInv, StaleIsOverrun, OldCopyOnlyOverrun
<1> QED
  BY <1>1, LeaseInvariant, PTL
=============================================================================
