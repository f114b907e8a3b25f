--------------------------- MODULE OperationsProofs ---------------------------
(***************************************************************************)
(* Proofs about the parts of Operations: the passes under a tuple's lock   *)
(* and the submits under the control lock (TupleLock), the accounting of   *)
(* deleted files (RetentionAttempts), the watermarks and the pairs of      *)
(* evidence of the market lane (MarketLane).                               *)
(***************************************************************************)
EXTENDS Operations, FiniteSetTheorems, WellFoundedInduction, TLAPS

(* ------------------------- the lock of a tuple ------------------------- *)
(* At the start every session runs on its own connection and holds nothing. *)
LEMMA InvInit == Init => IInv
  BY BoundAssumption, NoOneAssumption
  DEF Init, IInv, TypeOK, Places, InPass, Conns, Connected, OneProcess,
      PassIsLocked, LockedFrom

(* The pool hands out connections of the process, old or new. *)
LEMMA PoolTypes ==
  ASSUME TypeOK, NEW p \in Processes, TakeOut(p)
  PROVE  /\ PoolHead(p) \in Conns
         /\ pool' \in [Processes -> Seq(Conns)]
         /\ made' \in [Processes -> 0 .. MaxConns]
<1>1. CASE pool[p] # <<>>
  <2>1. pool[p] \in Seq(Conns)
    BY DEF TypeOK
  <2>2. Head(pool[p]) \in Conns /\ Tail(pool[p]) \in Seq(Conns)
    BY <1>1, <2>1
  <2> QED
    BY <1>1, <2>2 DEF PoolHead, TakeOut, TypeOK
<1>2. CASE pool[p] = <<>>
  <2>1. made[p] \in 0 .. MaxConns /\ made[p] < MaxConns
    BY <1>2 DEF TakeOut, TypeOK
  <2>2. made[p] + 1 \in Conns /\ made[p] + 1 \in 0 .. MaxConns
    BY <2>1, BoundAssumption DEF Conns
  <2> QED
    BY <1>2, <2>2 DEF PoolHead, TakeOut, TypeOK
<1> QED
  BY <1>1, <1>2

(* A session that begins a transaction gets a connection of its process. *)
LEMMA BeginTypes ==
  ASSUME TypeOK, NEW s \in Sessions, Begin(s)
  PROVE  /\ PoolHead(ProcOf[s]) \in Conns
         /\ pool' \in [Processes -> Seq(Conns)]
         /\ made' \in [Processes -> 0 .. MaxConns]
         /\ conn' \in [Sessions -> 0 .. MaxConns]
         /\ conn' = [conn EXCEPT ![s] = PoolHead(ProcOf[s])]
<1>1. ProcOf[s] \in Processes
  BY ProcAssumption
<1>2. /\ PoolHead(ProcOf[s]) \in Conns
      /\ pool' \in [Processes -> Seq(Conns)]
      /\ made' \in [Processes -> 0 .. MaxConns]
  BY <1>1, PoolTypes DEF Begin
<1>3. PoolHead(ProcOf[s]) \in 0 .. MaxConns
  BY <1>2, BoundAssumption DEF Conns
<1> QED
  BY <1>2, <1>3 DEF Begin, TypeOK

(* A connection that is given back goes to the pool of its process. *)
LEMMA PutBackTypes ==
  ASSUME TypeOK, NEW p \in Processes, NEW c \in Conns, PutBack(p, c)
  PROVE  pool' \in [Processes -> Seq(Conns)]
<1>1. Append(pool[p], c) \in Seq(Conns)
  BY DEF TypeOK
<1> QED
  BY <1>1 DEF PutBack, TypeOK

(* A commit gives the connection of the session back. *)
LEMMA CommitTypes ==
  ASSUME TypeOK, NEW s \in Sessions, conn[s] \in Conns, Commit(s)
  PROVE  /\ pool' \in [Processes -> Seq(Conns)]
         /\ made' \in [Processes -> 0 .. MaxConns]
         /\ conn' \in [Sessions -> 0 .. MaxConns]
         /\ conn' = [conn EXCEPT ![s] = 0]
<1>1. ProcOf[s] \in Processes
  BY ProcAssumption
<1>2. pool' \in [Processes -> Seq(Conns)]
  BY <1>1, PutBackTypes DEF Commit
<1> QED
  BY <1>2, BoundAssumption DEF Commit, TypeOK

(* The invariant of the locks survives every step that does not touch them *)
(* and lets no session into a pass.                                        *)
LEMMA LocksUntouched ==
  ASSUME IInv, UNCHANGED held,
         \A s \in Sessions :
           pc'[s] \in InPass => pc[s] \in InPass /\ tup'[s] = tup[s]
  PROVE  OneProcess' /\ PassIsLocked'
  BY DEF IInv, OneProcess, PassIsLocked, LockedFrom

(* Setting one entry of held. *)
LEMMA HeldUpdate ==
  ASSUME TypeOK, NEW p \in Processes, NEW c \in Conns, NEW t \in Tuples,
         NEW n \in Nat, held' = Counted(p, c, t, n)
  PROVE  /\ held' \in [Processes -> [Conns -> [Tuples -> Nat]]]
         /\ \A q \in Processes, d \in Conns, u \in Tuples :
              held'[q][d][u] = IF q = p /\ d = c /\ u = t THEN n ELSE held[q][d][u]
<1>1. held[p] \in [Conns -> [Tuples -> Nat]] /\ held[p][c] \in [Tuples -> Nat]
  BY DEF TypeOK
<1> DEFINE col == [held[p][c] EXCEPT ![t] = n]
           tab == [held[p] EXCEPT ![c] = col]
<1>2. col \in [Tuples -> Nat]
  BY <1>1
<1>3. tab \in [Conns -> [Tuples -> Nat]]
  BY <1>1, <1>2
<1>4. held' = [held EXCEPT ![p] = tab]
  BY <1>1 DEF TypeOK, Counted
<1>5. held' \in [Processes -> [Conns -> [Tuples -> Nat]]]
  BY <1>3, <1>4 DEF TypeOK
<1>6. ASSUME NEW q \in Processes, NEW d \in Conns, NEW u \in Tuples
      PROVE  held'[q][d][u] = IF q = p /\ d = c /\ u = t THEN n ELSE held[q][d][u]
  <2>1. held'[q] = IF q = p THEN tab ELSE held[q]
    BY <1>4 DEF TypeOK
  <2>2. tab[d] = IF d = c THEN col ELSE held[p][d]
    BY <1>1
  <2>3. col[u] = IF u = t THEN n ELSE held[p][c][u]
    BY <1>1
  <2> QED
    BY <2>1, <2>2, <2>3
<1> QED
  BY <1>5, <1>6

(* When no lock is added, a tuple stays locked from one process at most. *)
LEMMA FewerLocks ==
  ASSUME IInv,
         \A q \in Processes, d \in Conns, u \in Tuples :
           held'[q][d][u] > 0 => held[q][d][u] > 0
  PROVE  OneProcess'
<1>1. \A q \in Processes, u \in Tuples : LockedFrom(q, u)' => LockedFrom(q, u)
  BY DEF LockedFrom
<1> QED
  BY <1>1 DEF IInv, OneProcess

(* Giving back a level of a lock adds none. *)
LEMMA UnlockedFewer ==
  ASSUME TypeOK, NEW p \in Processes, NEW c \in Conns, NEW t \in Tuples,
         held' = Unlocked(p, c, t)
  PROVE  /\ held' \in [Processes -> [Conns -> [Tuples -> Nat]]]
         /\ \A q \in Processes, d \in Conns, u \in Tuples :
              /\ held'[q][d][u] > 0 => held[q][d][u] > 0
              /\ q # p => held'[q][d][u] = held[q][d][u]
<1>1. CASE held[p][c][t] > 0
  <2>1. PICK n \in Nat : n = held[p][c][t] - 1
    BY <1>1 DEF TypeOK
  <2>2. held' = Counted(p, c, t, n)
    BY <1>1, <2>1 DEF Unlocked
  <2>3. /\ held' \in [Processes -> [Conns -> [Tuples -> Nat]]]
        /\ \A q \in Processes, d \in Conns, u \in Tuples :
             held'[q][d][u] = IF q = p /\ d = c /\ u = t THEN n ELSE held[q][d][u]
    BY <2>2, HeldUpdate
  <2> QED
    BY <2>3, <1>1
<1>2. CASE ~(held[p][c][t] > 0)
  BY <1>2 DEF Unlocked, TypeOK
<1> QED
  BY <1>1, <1>2

(* No step leaves the types; a session in a pass has its tuple, and every  *)
(* session the connections its place needs.                                *)
LEMMA TypesNext == TypeOK /\ Connected /\ [Next]_vars => TypeOK' /\ Connected'
<1> SUFFICES ASSUME TypeOK, Connected, [Next]_vars PROVE TypeOK' /\ Connected'
  OBVIOUS
<1>p. \A s \in Sessions : ProcOf[s] \in Processes
  BY ProcAssumption
<1> USE NoOneAssumption DEF Go, Places, InPass
<1>1. ASSUME NEW s \in Sessions, StartClaim(s) PROVE TypeOK' /\ Connected'
  BY <1>1, BeginTypes DEF StartClaim, TypeOK, Connected
<1>2. ASSUME NEW s \in Sessions, CommitClaim(s) PROVE TypeOK' /\ Connected'
  <2>1. conn[s] \in Conns
    BY <1>2 DEF CommitClaim, Connected
  <2> QED
    BY <1>2, <2>1, CommitTypes DEF CommitClaim, TypeOK, Connected
<1>3. ASSUME NEW s \in Sessions, TryLock(s) PROVE TypeOK' /\ Connected'
  <2>0. PICK p \in Processes, c \in Conns, t \in Tuples :
          p = ProcOf[s] /\ c = PoolHead(ProcOf[s]) /\ t = tup[s]
    BY <1>3, <1>p, BeginTypes DEF TryLock, Connected
  <2>1. held' \in [Processes -> [Conns -> [Tuples -> Nat]]]
    <3>1. CASE Grantable(p, c, t)
      <4>1. PICK n \in Nat : n = held[p][c][t] + 1
        BY <2>0 DEF TypeOK
      <4>2. held' = Counted(p, c, t, n)
        BY <1>3, <2>0, <3>1, <4>1 DEF TryLock
      <4> QED
        BY <4>2, HeldUpdate
    <3>2. CASE ~Grantable(p, c, t)
      BY <1>3, <2>0, <3>2 DEF TryLock, TypeOK
    <3> QED
      BY <3>1, <3>2
  <2>2. pc' \in [Sessions -> Places]
    BY <1>3 DEF TryLock, TypeOK
  <2>3. TypeOK'
    BY <1>3, <2>1, <2>2, BeginTypes DEF TryLock, TypeOK
  <2>4. Connected'
    <3>1. conn' = [conn EXCEPT ![s] = PoolHead(ProcOf[s])] /\ PoolHead(ProcOf[s]) \in Conns
      BY <1>3, BeginTypes DEF TryLock
    <3>2. /\ pc[s] = "claimed" /\ UNCHANGED <<ctl, tup>>
          /\ \E g \in {"pass", "ending"} : pc' = [pc EXCEPT ![s] = g]
      BY <1>3 DEF TryLock
    <3> QED
      BY <3>1, <3>2 DEF TypeOK, Connected
  <2> QED
    BY <2>3, <2>4
<1>4. ASSUME NEW s \in Sessions, CommitPass(s) PROVE TypeOK' /\ Connected'
  <2>1. conn[s] \in Conns
    BY <1>4 DEF CommitPass, Connected
  <2> QED
    BY <1>4, <2>1, CommitTypes DEF CommitPass, TypeOK, Connected
<1>5. ASSUME NEW s \in Sessions, Resume(s) PROVE TypeOK' /\ Connected'
  BY <1>5, BeginTypes DEF Resume, TypeOK, Connected
<1>6. ASSUME NEW s \in Sessions, AskControl(s) PROVE TypeOK' /\ Connected'
  <2>1. /\ PoolHead(ProcOf[s]) \in Conns /\ PoolHead(ProcOf[s]) \in 0 .. MaxConns
        /\ pool' \in [Processes -> Seq(Conns)]
        /\ made' \in [Processes -> 0 .. MaxConns]
    BY <1>6, <1>p, PoolTypes, BoundAssumption DEF AskControl, Conns
  <2> QED
    BY <1>6, <2>1 DEF AskControl, TypeOK, Connected
<1>7. ASSUME NEW s \in Sessions, GetControl(s) PROVE TypeOK' /\ Connected'
  <2>1. ctl[s] \in Conns
    BY <1>7 DEF GetControl, Connected
  <2> QED
    BY <1>7, <1>p, <2>1, BeginTypes DEF GetControl, TypeOK, Connected
<1>8. ASSUME NEW s \in Sessions, LeaveControl(s) PROVE TypeOK' /\ Connected'
  <2>1. ctl[s] \in Conns
    BY <1>8 DEF LeaveControl, Connected
  <2>2. pool' \in [Processes -> Seq(Conns)]
    BY <1>8, <1>p, <2>1, PutBackTypes DEF LeaveControl
  <2> QED
    BY <1>8, <2>1, <2>2, BoundAssumption DEF LeaveControl, TypeOK, Connected
<1>9. ASSUME NEW s \in Sessions, Unlock(s) PROVE TypeOK' /\ Connected'
  <2>0. PICK p \in Processes, c \in Conns, t \in Tuples :
          /\ p = ProcOf[s] /\ t = tup[s]
          /\ c = IF pc[s] = "pass" THEN conn[s] ELSE PoolHead(ProcOf[s])
    BY <1>9, <1>p, BeginTypes DEF Unlock, Connected
  <2>1. /\ conn'[s] \in Conns
        /\ pool' \in [Processes -> Seq(Conns)]
        /\ made' \in [Processes -> 0 .. MaxConns]
        /\ conn' \in [Sessions -> 0 .. MaxConns]
        /\ \A r \in Sessions : r # s => conn'[r] = conn[r]
    <3>1. CASE pc[s] = "pass"
      BY <3>1, <1>9 DEF Unlock, TypeOK, Connected
    <3>2. CASE pc[s] = "port"
      BY <3>2, <1>9, BeginTypes DEF Unlock, TypeOK
    <3> QED
      BY <3>1, <3>2, <1>9 DEF Unlock
  <2>2. held' \in [Processes -> [Conns -> [Tuples -> Nat]]]
    BY <1>9, <2>0, UnlockedFewer DEF Unlock
  <2> QED
    BY <1>9, <2>1, <2>2 DEF Unlock, TypeOK, Connected
<1>10. ASSUME NEW s \in Sessions, Release(s) PROVE TypeOK' /\ Connected'
  <2>1. conn[s] \in Conns
    BY <1>10 DEF Release, Connected
  <2> QED
    BY <1>10, <2>1, CommitTypes DEF Release, TypeOK, Connected
<1>11. ASSUME NEW p \in Processes, Restart(p) PROVE TypeOK' /\ Connected'
  <2>1. held' \in [Processes -> [Conns -> [Tuples -> Nat]]]
    BY <1>11 DEF Restart, TypeOK
  <2>2. pool' \in [Processes -> Seq(Conns)]
    <3>1. <<>> \in Seq(Conns)
      OBVIOUS
    <3> QED
      BY <1>11, <3>1 DEF Restart, TypeOK
  <2>3. TypeOK'
    BY <1>11, <2>1, <2>2, BoundAssumption DEF Restart, TypeOK
  <2>4. Connected'
    BY <1>11 DEF Restart, Connected, TypeOK
  <2> QED
    BY <2>3, <2>4
<1>12. CASE UNCHANGED vars
  BY <1>12 DEF vars, TypeOK, Connected
<1> QED
  BY <1>1, <1>2, <1>3, <1>4, <1>5, <1>6, <1>7, <1>8, <1>9, <1>10, <1>11,
     <1>12 DEF Next, Step

(* Every step keeps the invariant of the passes. *)
LEMMA InvNext ==
  ASSUME \A r, s \in Sessions : ProcOf[r] = ProcOf[s] => r = s
  PROVE  IInv /\ [Next]_vars => IInv'
<1> SUFFICES ASSUME IInv, [Next]_vars PROVE OneProcess' /\ PassIsLocked'
  BY TypesNext DEF IInv
<1>t. TypeOK /\ Connected
  BY DEF IInv
<1>p. \A s \in Sessions : ProcOf[s] \in Processes
  BY ProcAssumption
<1> USE NoOneAssumption DEF Go, Places, InPass
<1>1. ASSUME NEW s \in Sessions, StartClaim(s) PROVE OneProcess' /\ PassIsLocked'
  BY <1>1, <1>t, LocksUntouched DEF StartClaim, TypeOK
<1>2. ASSUME NEW s \in Sessions, CommitClaim(s) PROVE OneProcess' /\ PassIsLocked'
  BY <1>2, <1>t, LocksUntouched DEF CommitClaim, TypeOK
<1>3. ASSUME NEW s \in Sessions, TryLock(s) PROVE OneProcess' /\ PassIsLocked'
  <2>0. PICK p \in Processes, c \in Conns, t \in Tuples :
          p = ProcOf[s] /\ c = PoolHead(ProcOf[s]) /\ t = tup[s]
    BY <1>3, <1>t, <1>p, BeginTypes DEF TryLock, Connected
  <2>1. ASSUME Grantable(p, c, t) PROVE OneProcess' /\ PassIsLocked'
    <3>1. /\ held' = Counted(p, c, t, held[p][c][t] + 1)
          /\ pc' = [pc EXCEPT ![s] = "pass"]
          /\ UNCHANGED <<ctl, control, tup>> /\ pc[s] = "claimed"
      BY <1>3, <2>0, <2>1 DEF TryLock
    <3>0. PICK n \in Nat : n = held[p][c][t] + 1 /\ n > 0
      BY <2>0, <1>t DEF TypeOK
    <3>h. held' = Counted(p, c, t, n)
      BY <3>0, <3>1
    <3>3. /\ held' \in [Processes -> [Conns -> [Tuples -> Nat]]]
          /\ \A q \in Processes, d \in Conns, u \in Tuples :
               held'[q][d][u] = IF q = p /\ d = c /\ u = t THEN n ELSE held[q][d][u]
      BY <3>h, <1>t, HeldUpdate
    <3>4. OneProcess'
      <4>1. ASSUME NEW q \in Processes, NEW d \in Conns, NEW u \in Tuples,
                   held'[q][d][u] > 0
            PROVE  (u = t /\ q = p) \/ (u # t /\ LockedFrom(q, u))
        <5>1. CASE u = t /\ q # p
          <6>1. held[q][d][u] > 0
            BY <4>1, <3>3, <5>1
          <6> QED
            BY <6>1, <5>1, <2>1 DEF Grantable
        <5>2. CASE u # t
          <6>1. held[q][d][u] > 0
            BY <4>1, <3>3, <5>2
          <6> QED
            BY <6>1, <5>2 DEF LockedFrom
        <5> QED
          BY <5>1, <5>2
      <4>2. \A q \in Processes, u \in Tuples :
              LockedFrom(q, u)' => (u = t /\ q = p) \/ (u # t /\ LockedFrom(q, u))
        BY <4>1 DEF LockedFrom
      <4> QED
        BY <4>2 DEF IInv, OneProcess
    <3>5. ASSUME NEW q \in Processes, NEW u \in Tuples, LockedFrom(q, u)
          PROVE  LockedFrom(q, u)'
      <4>1. PICK d \in Conns : held[q][d][u] > 0
        BY <3>5 DEF LockedFrom
      <4>2. held'[q][d][u] > 0
        BY <4>1, <3>3, <3>0
      <4> QED
        BY <4>2 DEF LockedFrom
    <3>6. LockedFrom(p, t)'
      <4>1. held'[p][c][t] > 0
        BY <3>3, <3>0
      <4> QED
        BY <4>1 DEF LockedFrom
    <3>7. PassIsLocked'
      <4> SUFFICES ASSUME NEW r \in Sessions, pc'[r] \in InPass
                   PROVE  LockedFrom(ProcOf[r], tup[r])'
        BY DEF PassIsLocked
      <4>1. CASE r = s
        BY <4>1, <3>1, <3>6, <2>0
      <4>2. CASE r # s
        <5>1. pc[r] \in InPass /\ tup[r] \in Tuples /\ tup'[r] = tup[r]
          BY <4>2, <3>1, <1>t DEF TypeOK, Connected
        <5>2. LockedFrom(ProcOf[r], tup[r])
          BY <5>1 DEF IInv, PassIsLocked
        <5> QED
          <6>1. LockedFrom(ProcOf[r], tup[r]) => \E d \in Conns : held'[ProcOf[r]][d][tup[r]] > 0
            BY <5>1, <3>5, <1>p DEF LockedFrom
          <6> QED
            BY <6>1, <5>1, <5>2 DEF LockedFrom
      <4> QED
        BY <4>1, <4>2
    <3> QED
      BY <3>4, <3>7
  <2>2. ASSUME ~Grantable(p, c, t) PROVE OneProcess' /\ PassIsLocked'
    <3>1. /\ UNCHANGED held /\ pc' = [pc EXCEPT ![s] = "ending"]
          /\ UNCHANGED <<ctl, control, tup>> /\ pc[s] = "claimed"
      BY <1>3, <2>0, <2>2 DEF TryLock
    <3> QED
      BY <3>1, <1>t, LocksUntouched DEF TypeOK
  <2> QED
    BY <2>1, <2>2
<1>4. ASSUME NEW s \in Sessions, CommitPass(s) PROVE OneProcess' /\ PassIsLocked'
  BY <1>4, <1>t, LocksUntouched DEF CommitPass, TypeOK
<1>5. ASSUME NEW s \in Sessions, Resume(s) PROVE OneProcess' /\ PassIsLocked'
  BY <1>5, <1>t, LocksUntouched DEF Resume, TypeOK
<1>6. ASSUME NEW s \in Sessions, AskControl(s) PROVE OneProcess' /\ PassIsLocked'
  BY <1>6, <1>t, LocksUntouched DEF AskControl, TypeOK
<1>7. ASSUME NEW s \in Sessions, GetControl(s) PROVE OneProcess' /\ PassIsLocked'
  BY <1>7, <1>t, LocksUntouched DEF GetControl, TypeOK
<1>8. ASSUME NEW s \in Sessions, LeaveControl(s) PROVE OneProcess' /\ PassIsLocked'
  BY <1>8, <1>t, LocksUntouched DEF LeaveControl, TypeOK
<1>9. ASSUME NEW s \in Sessions, Unlock(s) PROVE OneProcess' /\ PassIsLocked'
  <2>0. PICK p \in Processes, c \in Conns, t \in Tuples :
          /\ p = ProcOf[s] /\ t = tup[s]
          /\ c = IF pc[s] = "pass" THEN conn[s] ELSE PoolHead(ProcOf[s])
    BY <1>9, <1>t, <1>p, BeginTypes DEF Unlock, Connected
  <2>2. /\ held' = Unlocked(p, c, t) /\ pc' = [pc EXCEPT ![s] = "ending"]
        /\ UNCHANGED <<ctl, control, tup>> /\ pc[s] \in {"pass", "port"}
    BY <1>9, <2>0 DEF Unlock
  <2>3. \A q \in Processes, d \in Conns, u \in Tuples :
          /\ held'[q][d][u] > 0 => held[q][d][u] > 0
          /\ q # p => held'[q][d][u] = held[q][d][u]
    BY <2>2, <1>t, UnlockedFewer
  <2>5. OneProcess'
    BY <2>3, FewerLocks
  <2>6. PassIsLocked'
    <3> SUFFICES ASSUME NEW r \in Sessions, pc'[r] \in InPass
                 PROVE  LockedFrom(ProcOf[r], tup[r])'
      BY DEF PassIsLocked
    <3>1. r # s /\ pc[r] \in InPass /\ tup'[r] = tup[r] /\ tup[r] \in Tuples
      BY <2>2, <1>t DEF TypeOK, Connected
    <3>2. ProcOf[r] # p /\ ProcOf[r] \in Processes
      BY <3>1, <1>p, <2>0
    <3>3. LockedFrom(ProcOf[r], tup[r])
      BY <3>1 DEF IInv, PassIsLocked
    <3> QED
      BY <3>1, <3>2, <3>3, <2>3 DEF LockedFrom
  <2> QED
    BY <2>5, <2>6
<1>10. ASSUME NEW s \in Sessions, Release(s) PROVE OneProcess' /\ PassIsLocked'
  BY <1>10, <1>t, LocksUntouched DEF Release, TypeOK
<1>11. ASSUME NEW p \in Processes, Restart(p) PROVE OneProcess' /\ PassIsLocked'
  <2>1. \A q \in Processes, d \in Conns, u \in Tuples :
          held'[q][d][u] = IF q = p THEN 0 ELSE held[q][d][u]
    BY <1>11, <1>t DEF Restart, TypeOK
  <2>2. OneProcess'
    BY <2>1, FewerLocks
  <2>3. PassIsLocked'
    BY <1>11, <1>t, <1>p, <2>1
    DEF Restart, IInv, PassIsLocked, LockedFrom, TypeOK, Connected
  <2> QED
    BY <2>2, <2>3
<1>12. CASE UNCHANGED vars
  BY <1>12 DEF vars, IInv, OneProcess, PassIsLocked, LockedFrom
<1> QED
  BY <1>1, <1>2, <1>3, <1>4, <1>5, <1>6, <1>7, <1>8, <1>9, <1>10, <1>11,
     <1>12 DEF Next, Step

(* The invariant, for processes with one session each. *)
THEOREM LockInvariant ==
  ASSUME \A r, s \in Sessions : ProcOf[r] = ProcOf[s] => r = s
  PROVE  Spec => []IInv
  BY InvInit, InvNext, PTL DEF Spec

(* No two passes over one tuple (execution_tuple_lock), for every number   *)
(* of worker processes with one session each: a lock that leaks keeps      *)
(* others out, it never lets two in.                                       *)
THEOREM OnePassAtATime ==
  ASSUME \A r, s \in Sessions : ProcOf[r] = ProcOf[s] => r = s
  PROVE  Spec => []OnePassPerTuple
<1>1. IInv => OnePassPerTuple
  BY ProcAssumption
  DEF IInv, OneProcess, PassIsLocked, Connected, OnePassPerTuple, InPass
<1> QED
  BY <1>1, LockInvariant, PTL

(* -------------------- submits under the control lock ------------------- *)
(* At the start no connection has two uses. *)
LEMMA UseInit == Init => UseInv
<1> SUFFICES ASSUME Init PROVE UseInv
  OBVIOUS
<1>1. TypeOK /\ Connected
  BY InvInit DEF IInv
<1>2. OneUse
  BY ProcAssumption, BoundAssumption DEF Init, OneUse, PoolApart, Opened, UsedOrIdle, UsersApart
<1> QED
  BY <1>1, <1>2 DEF Init, UseInv, Attached, GuardHolds

(* The connections of a process are numbered in the order they were opened. *)
LEMMA Numbers ==
  ASSUME TypeOK
  PROVE  /\ \A p \in Processes : made[p] \in Nat
         /\ \A s \in Sessions : conn[s] \in Nat /\ ctl[s] \in Nat
         /\ \A p \in Processes : \A i \in DOMAIN pool[p] : i \in Nat /\ pool[p][i] \in 1 .. MaxConns
<1>1. ASSUME NEW p \in Processes, NEW i \in DOMAIN pool[p]
      PROVE  i \in Nat /\ pool[p][i] \in 1 .. MaxConns
  <2>1. pool[p] \in Seq(Conns)
    BY DEF TypeOK
  <2>2. DOMAIN pool[p] = 1 .. Len(pool[p]) /\ Len(pool[p]) \in Nat
    BY <2>1
  <2>3. \A k \in 1 .. Len(pool[p]) : pool[p][k] \in Conns
    BY <2>1
  <2> QED
    BY <2>2, <2>3 DEF Conns
<1> QED
  BY <1>1, BoundAssumption DEF TypeOK

(* A connection that is taken out of a pool is one nobody uses. *)
LEMMA TakenIsFree ==
  ASSUME TypeOK, OneUse, NEW p \in Processes, TakeOut(p)
  PROVE  /\ PoolHead(p) \in 1 .. made'[p] /\ made[p] <= made'[p]
         /\ \A s \in Sessions : ProcOf[s] = p => PoolHead(p) # conn[s] /\ PoolHead(p) # ctl[s]
         /\ \A i \in DOMAIN pool'[p] :
              /\ pool'[p][i] # PoolHead(p) /\ pool'[p][i] <= made'[p]
              /\ \A s \in Sessions : ProcOf[s] = p => pool'[p][i] # conn[s] /\ pool'[p][i] # ctl[s]
         /\ \A i, j \in DOMAIN pool'[p] : pool'[p][i] = pool'[p][j] => i = j
         /\ \A q \in Processes : q # p => pool'[q] = pool[q] /\ made'[q] = made[q]
<1> USE DEF OneUse, PoolApart, Opened, UsedOrIdle
<1>1. pool[p] \in Seq(Conns) /\ made[p] \in 0 .. MaxConns
  BY DEF TypeOK
<1>2. CASE pool[p] # <<>>
  <2>1. pool' = [pool EXCEPT ![p] = Tail(pool[p])] /\ made' = made /\ PoolHead(p) = Head(pool[p])
    BY <1>2 DEF TakeOut, PoolHead
  <2>2. pool'[p] = Tail(pool[p])
    BY <2>1 DEF TypeOK
  <2>3. /\ Head(pool[p]) = pool[p][1] /\ 1 \in DOMAIN pool[p]
        /\ \A i \in DOMAIN Tail(pool[p]) :
             i \in Nat /\ i + 1 \in DOMAIN pool[p] /\ Tail(pool[p])[i] = pool[p][i + 1] /\ i + 1 # 1
    BY <1>1, <1>2
  <2>4. pool[p][1] \in Conns
    BY <1>1, <2>3
  <2>5. PoolHead(p) \in 1 .. made[p]
    BY <2>1, <2>3, <2>4, <1>1, BoundAssumption DEF Conns
  <2> QED
    BY <2>1, <2>2, <2>3, <2>5, <1>1 DEF TypeOK
<1>3. CASE pool[p] = <<>>
  <2>1. pool' = pool /\ made' = [made EXCEPT ![p] = made[p] + 1] /\ PoolHead(p) = made[p] + 1
    BY <1>3 DEF TakeOut, PoolHead
  <2>2. made'[p] = made[p] + 1 /\ DOMAIN pool'[p] = {}
    BY <2>1, <1>3 DEF TypeOK
  <2>3. \A s \in Sessions : conn[s] \in Nat /\ ctl[s] \in Nat
    BY Numbers
  <2> QED
    BY <2>1, <2>2, <2>3, <1>1, BoundAssumption DEF TypeOK
<1> QED
  BY <1>2, <1>3

(* A session that takes a connection for one of its two purposes is its    *)
(* only user.                                                              *)
LEMMA TakenIsUsedOnce ==
  ASSUME TypeOK, OneUse, NEW s \in Sessions, TakeOut(ProcOf[s]),
         \/ conn[s] = 0 /\ conn' = [conn EXCEPT ![s] = PoolHead(ProcOf[s])] /\ ctl' = ctl
         \/ ctl[s] = 0 /\ ctl' = [ctl EXCEPT ![s] = PoolHead(ProcOf[s])] /\ conn' = conn
  PROVE  OneUse'
<1> DEFINE p == ProcOf[s]
<1>0. p \in Processes /\ \A r \in Sessions : ProcOf[r] \in Processes
  BY ProcAssumption
<1>t. PICK c : c = PoolHead(p)
  OBVIOUS
<1>2. /\ c \in 1 .. made'[p] /\ made[p] <= made'[p]
      /\ \A r \in Sessions : ProcOf[r] = p => c # conn[r] /\ c # ctl[r]
      /\ \A i \in DOMAIN pool'[p] :
           /\ pool'[p][i] # c /\ pool'[p][i] <= made'[p]
           /\ \A r \in Sessions : ProcOf[r] = p => pool'[p][i] # conn[r] /\ pool'[p][i] # ctl[r]
      /\ \A i, j \in DOMAIN pool'[p] : pool'[p][i] = pool'[p][j] => i = j
      /\ \A q \in Processes : q # p => pool'[q] = pool[q] /\ made'[q] = made[q]
  BY <1>0, <1>t, TakenIsFree
<1>3. /\ \A r \in Sessions : r # s => conn'[r] = conn[r] /\ ctl'[r] = ctl[r]
      /\ \/ conn[s] = 0 /\ conn'[s] = c /\ ctl'[s] = ctl[s]
         \/ ctl[s] = 0 /\ ctl'[s] = c /\ conn'[s] = conn[s]
  BY <1>t DEF TypeOK
<1>4. /\ \A q \in Processes : made[q] \in Nat
      /\ \A r \in Sessions : conn[r] \in Nat /\ ctl[r] \in Nat
  BY BoundAssumption DEF TypeOK
<1>5. made'[p] \in Nat
  BY <1>0, PoolTypes, BoundAssumption
<1> HIDE DEF p
<1>6. PoolApart'
  BY <1>2 DEF OneUse, PoolApart
<1>7. Opened'
  <2>1. \A r \in Sessions : conn'[r] <= made'[ProcOf[r]] /\ ctl'[r] <= made'[ProcOf[r]]
    <3> SUFFICES ASSUME NEW r \in Sessions PROVE conn'[r] <= made'[ProcOf[r]] /\ ctl'[r] <= made'[ProcOf[r]]
      OBVIOUS
    <3>1. conn[r] <= made[ProcOf[r]] /\ ctl[r] <= made[ProcOf[r]]
      BY DEF OneUse, Opened
    <3>2. CASE ProcOf[r] = p
      BY <3>1, <3>2, <1>0, <1>2, <1>3, <1>4, <1>5
    <3>3. CASE ProcOf[r] # p
      BY <3>1, <3>3, <1>0, <1>2, <1>3 DEF p
    <3> QED
      BY <3>2, <3>3
  <2> QED
    BY <2>1, <1>2 DEF OneUse, Opened
<1>8. UsedOrIdle'
  BY <1>0, <1>2, <1>3 DEF OneUse, UsedOrIdle, p
<1>9. UsersApart'
  BY <1>2, <1>3 DEF OneUse, UsersApart, p
<1> QED
  BY <1>6, <1>7, <1>8, <1>9 DEF OneUse

(* A connection that its one user gives back is idle. *)
LEMMA PutBackIsIdle ==
  ASSUME TypeOK, OneUse, NEW s \in Sessions, NEW c \in Conns,
         PutBack(ProcOf[s], c), UNCHANGED made,
         \/ conn[s] = c /\ conn' = [conn EXCEPT ![s] = 0] /\ ctl' = ctl
         \/ ctl[s] = c /\ ctl' = [ctl EXCEPT ![s] = 0] /\ conn' = conn
  PROVE  OneUse'
<1> DEFINE p == ProcOf[s]
<1>0. p \in Processes /\ \A r \in Sessions : ProcOf[r] \in Processes
  BY ProcAssumption
<1>1. pool[p] \in Seq(Conns)
  BY <1>0 DEF TypeOK
<1>2. /\ pool'[p] = Append(pool[p], c)
      /\ \A q \in Processes : q # p => pool'[q] = pool[q]
  BY <1>0 DEF PutBack, TypeOK
<1>3. /\ \A r \in Sessions : r # s => conn'[r] = conn[r] /\ ctl'[r] = ctl[r]
      /\ \/ conn[s] = c /\ conn'[s] = 0 /\ ctl'[s] = ctl[s]
         \/ ctl[s] = c /\ ctl'[s] = 0 /\ conn'[s] = conn[s]
  BY DEF TypeOK
<1>4. \A i \in DOMAIN pool'[p] :
        \/ i \in DOMAIN pool[p] /\ pool'[p][i] = pool[p][i] /\ pool[p][i] # c
        \/ i = Len(pool[p]) + 1 /\ pool'[p][i] = c
  <2>1. \A i \in DOMAIN pool[p] : pool[p][i] # c
    BY <1>3 DEF OneUse, UsedOrIdle
  <2> QED
    BY <2>1, <1>1, <1>2
<1>5. \A r \in Sessions : ProcOf[r] = p => c # conn'[r] /\ c # ctl'[r]
  BY <1>3 DEF OneUse, UsersApart, Conns
<1>6. c <= made[p] /\ made' = made /\ c # 0
  BY <1>3 DEF OneUse, Opened, Conns
<1>7. /\ \A q \in Processes : made[q] \in Nat
      /\ \A q \in Processes : \A i \in DOMAIN pool[q] : i \in Nat /\ pool[q][i] \in 1 .. MaxConns
  BY Numbers
<1> HIDE DEF p
<1>8. PoolApart'
  <2>1. \A i, j \in DOMAIN pool'[p] : pool'[p][i] = pool'[p][j] => i = j
    BY <1>0, <1>4 DEF OneUse, PoolApart
  <2> QED
    BY <1>2, <2>1 DEF OneUse, PoolApart
<1>9. Opened'
  <2>1. \A i \in DOMAIN pool'[p] : pool'[p][i] <= made'[p]
    BY <1>0, <1>4, <1>6 DEF OneUse, Opened
  <2>2. \A r \in Sessions : conn'[r] <= made'[ProcOf[r]] /\ ctl'[r] <= made'[ProcOf[r]]
    BY <1>0, <1>3, <1>6, <1>7 DEF OneUse, Opened
  <2> QED
    BY <1>2, <1>6, <2>1, <2>2 DEF OneUse, Opened
<1>10. UsedOrIdle'
  <2> SUFFICES ASSUME NEW r \in Sessions, NEW i \in DOMAIN pool'[ProcOf[r]]
               PROVE  pool'[ProcOf[r]][i] # conn'[r] /\ pool'[ProcOf[r]][i] # ctl'[r]
    BY DEF UsedOrIdle
  <2>1. CASE ProcOf[r] = p /\ i \in DOMAIN pool[p] /\ pool'[p][i] = pool[p][i]
    <3>1. pool[p][i] # conn[r] /\ pool[p][i] # ctl[r] /\ pool[p][i] # 0
      BY <2>1, <1>0, <1>7 DEF OneUse, UsedOrIdle
    <3> QED
      BY <2>1, <3>1, <1>3
  <2>2. CASE ProcOf[r] = p /\ pool'[p][i] = c
    BY <2>2, <1>5
  <2>3. CASE ProcOf[r] # p
    <3>1. r # s /\ pool'[ProcOf[r]] = pool[ProcOf[r]]
      BY <2>3, <1>0, <1>2 DEF p
    <3>2. pool[ProcOf[r]][i] # conn[r] /\ pool[ProcOf[r]][i] # ctl[r]
      BY <3>1 DEF OneUse, UsedOrIdle
    <3> QED
      BY <3>1, <3>2, <1>3
  <2> QED
    BY <2>1, <2>2, <2>3, <1>4
<1>11. UsersApart'
  BY <1>3, <1>6 DEF OneUse, UsersApart
<1> QED
  BY <1>8, <1>9, <1>10, <1>11 DEF OneUse

(* Every step keeps the invariant of the uses of a connection. *)
LEMMA UseNext == UseInv /\ [Next]_vars => UseInv'
<1> SUFFICES ASSUME UseInv, [Next]_vars PROVE OneUse' /\ Attached' /\ GuardHolds'
  BY TypesNext DEF UseInv
<1>t. TypeOK /\ Connected /\ OneUse /\ Attached /\ GuardHolds
  BY DEF UseInv
<1>p. \A s \in Sessions : ProcOf[s] \in Processes
  BY ProcAssumption
<1> USE DEF Go, Attached, GuardHolds
<1>1. ASSUME NEW s \in Sessions, StartClaim(s) PROVE OneUse' /\ Attached' /\ GuardHolds'
  <2>1. OneUse'
    BY <1>1, <1>t, TakenIsUsedOnce DEF StartClaim, Begin
  <2>2. Attached' /\ GuardHolds'
    BY <1>1, <1>t, BeginTypes DEF StartClaim, TypeOK, Conns
  <2> QED
    BY <2>1, <2>2
<1>2. ASSUME NEW s \in Sessions, CommitClaim(s) PROVE OneUse' /\ Attached' /\ GuardHolds'
  <2>1. OneUse'
    BY <1>2, <1>t, PutBackIsIdle DEF CommitClaim, Commit, Connected
  <2>2. Attached' /\ GuardHolds'
    BY <1>2, <1>t DEF CommitClaim, Commit, TypeOK
  <2> QED
    BY <2>1, <2>2
<1>3. ASSUME NEW s \in Sessions, TryLock(s) PROVE OneUse' /\ Attached' /\ GuardHolds'
  <2>1. OneUse'
    BY <1>3, <1>t, TakenIsUsedOnce DEF TryLock, Begin
  <2>2. /\ pc[s] = "claimed" /\ UNCHANGED <<ctl, control>>
        /\ \E g \in {"pass", "ending"} : pc' = [pc EXCEPT ![s] = g]
        /\ conn' = [conn EXCEPT ![s] = PoolHead(ProcOf[s])] /\ PoolHead(ProcOf[s]) # 0
    BY <1>3, <1>t, BeginTypes DEF TryLock, Conns
  <2>3. Attached' /\ GuardHolds'
    BY <2>2, <1>t DEF TypeOK
  <2> QED
    BY <2>1, <2>3
<1>4. ASSUME NEW s \in Sessions, CommitPass(s) PROVE OneUse' /\ Attached' /\ GuardHolds'
  <2>1. OneUse'
    BY <1>4, <1>t, PutBackIsIdle DEF CommitPass, Commit, Connected
  <2>2. Attached' /\ GuardHolds'
    BY <1>4, <1>t DEF CommitPass, Commit, TypeOK
  <2> QED
    BY <2>1, <2>2
<1>5. ASSUME NEW s \in Sessions, Resume(s) PROVE OneUse' /\ Attached' /\ GuardHolds'
  <2>1. OneUse'
    BY <1>5, <1>t, TakenIsUsedOnce DEF Resume, Begin
  <2>2. Attached' /\ GuardHolds'
    BY <1>5, <1>t, BeginTypes DEF Resume, TypeOK, Conns
  <2> QED
    BY <2>1, <2>2
<1>6. ASSUME NEW s \in Sessions, AskControl(s) PROVE OneUse' /\ Attached' /\ GuardHolds'
  <2>1. OneUse'
    BY <1>6, <1>t, TakenIsUsedOnce DEF AskControl
  <2>2. PoolHead(ProcOf[s]) # 0
    BY <1>6, <1>t, <1>p, PoolTypes DEF AskControl, Conns
  <2>3. Attached' /\ GuardHolds'
    BY <1>6, <1>t, <2>2 DEF AskControl, TypeOK
  <2> QED
    BY <2>1, <2>3
<1>7. ASSUME NEW s \in Sessions, GetControl(s) PROVE OneUse' /\ Attached' /\ GuardHolds'
  <2>1. OneUse'
    BY <1>7, <1>t, TakenIsUsedOnce DEF GetControl, Begin
  <2>2. Attached'
    BY <1>7, <1>t, BeginTypes DEF GetControl, TypeOK, Conns
  <2>4. GuardHolds'
    BY <1>7, <1>t, <1>p, NoOneAssumption DEF GetControl, TypeOK, Connected, Conns
  <2> QED
    BY <2>1, <2>2, <2>4
<1>8. ASSUME NEW s \in Sessions, LeaveControl(s) PROVE OneUse' /\ Attached' /\ GuardHolds'
  <2>0. ctl[s] \in Conns
    BY <1>8, <1>t DEF LeaveControl, Connected
  <2>1. OneUse'
    BY <1>8, <1>t, <2>0, PutBackIsIdle DEF LeaveControl
  <2>2. Attached'
    BY <1>8, <1>t DEF LeaveControl, TypeOK
  <2>3. GuardHolds'
    BY <1>8, <1>t, <2>0 DEF LeaveControl, TypeOK, OneUse, UsersApart
  <2> QED
    BY <2>1, <2>2, <2>3
<1>9. ASSUME NEW s \in Sessions, Unlock(s) PROVE OneUse' /\ Attached' /\ GuardHolds'
  <2>1. CASE pc[s] = "pass"
    <3>1. OneUse'
      BY <1>9, <1>t, <2>1 DEF Unlock, OneUse, PoolApart, Opened, UsedOrIdle, UsersApart
    <3>2. Attached' /\ GuardHolds'
      BY <1>9, <1>t, <2>1 DEF Unlock, TypeOK
    <3> QED
      BY <3>1, <3>2
  <2>2. CASE pc[s] = "port"
    <3>1. OneUse'
      BY <1>9, <1>t, <2>2, TakenIsUsedOnce DEF Unlock, Begin
    <3>2. Attached' /\ GuardHolds'
      BY <1>9, <1>t, <2>2, BeginTypes DEF Unlock, TypeOK, Conns
    <3> QED
      BY <3>1, <3>2
  <2> QED
    BY <1>9, <2>1, <2>2 DEF Unlock
<1>10. ASSUME NEW s \in Sessions, Release(s) PROVE OneUse' /\ Attached' /\ GuardHolds'
  <2>1. OneUse'
    BY <1>10, <1>t, PutBackIsIdle DEF Release, Commit, Connected
  <2>2. Attached' /\ GuardHolds'
    BY <1>10, <1>t DEF Release, Commit, TypeOK
  <2> QED
    BY <2>1, <2>2
<1>11. ASSUME NEW p \in Processes, Restart(p) PROVE OneUse' /\ Attached' /\ GuardHolds'
  <2>1. OneUse'
    BY <1>11, <1>t, <1>p DEF Restart, TypeOK, OneUse, PoolApart, Opened, UsedOrIdle, UsersApart
  <2>2. Attached'
    BY <1>11, <1>t DEF Restart, TypeOK
  <2>3. GuardHolds'
    BY <1>11, <1>t, <1>p DEF Restart, TypeOK
  <2> QED
    BY <2>1, <2>2, <2>3
<1>12. CASE UNCHANGED vars
  BY <1>12, <1>t DEF vars, OneUse, PoolApart, Opened, UsedOrIdle, UsersApart
<1> QED
  BY <1>1, <1>2, <1>3, <1>4, <1>5, <1>6, <1>7, <1>8, <1>9, <1>10, <1>11,
     <1>12 DEF Next, Step

(* A guarded submit holds the control lock on a connection that no other   *)
(* session of its process runs on (execution_control_lock), for any number *)
(* of worker processes, sessions and connections.                          *)
THEOREM SubmitsUnderControl == Spec => []SubmitUnderControl
<1>1. UseInv => SubmitUnderControl
  BY ProcAssumption DEF UseInv, OneUse, UsersApart, GuardHolds, Attached, SubmitUnderControl
<1> QED
  BY <1>1, UseInit, UseNext, PTL DEF Spec

(* ------------------------------ retention ------------------------------ *)
(* Before its first attempt a runner owns nothing. *)
LEMMA RetentionInit == Retention!Init => Retention!IInv
  BY RetentionAssumption
  DEF Retention!Init, Retention!IInv, Retention!TypeOK, Retention!LockKept, Retention!LookStands,
      Retention!Started, Retention!WorkRecorded, Retention!Working, Retention!Accounted,
      Retention!Resolved, Retention!Attempts

(* A runner that gives up its attempt leaves the others and the rows alone. *)
LEMMA RetentionIdle ==
  ASSUME Retention!IInv, NEW r \in Runners,
         Retention!GoIdle(r), UNCHANGED <<period, intents, outcomes, deleted>>
  PROVE  Retention!IInv'
<1> USE RetentionAssumption
<1> USE DEF Retention!IInv, Retention!TypeOK, Retention!Started, Retention!Go, Retention!GoIdle
<1>1. Retention!TypeOK' /\ Retention!Started'
  OBVIOUS
<1>2. Retention!LockKept'
  BY DEF Retention!LockKept
<1>3. Retention!LookStands'
  BY DEF Retention!LookStands, Retention!Barred, Retention!Resolved
<1>4. Retention!WorkRecorded' /\ Retention!Accounted'
  BY DEF Retention!WorkRecorded, Retention!Working, Retention!Accounted, Retention!Resolved
<1> QED
  BY <1>1, <1>2, <1>3, <1>4

(* Every step of retention keeps the lock, the look and the accounts. *)
LEMMA RetentionNext == Retention!IInv /\ [Retention!Next]_retentionVars => Retention!IInv'
<1> SUFFICES ASSUME Retention!IInv, [Retention!Next]_retentionVars PROVE Retention!IInv'
  OBVIOUS
<1> USE RetentionAssumption
<1> USE DEF Retention!IInv, Retention!TypeOK, Retention!LockKept, Retention!LookStands,
      Retention!Started, Retention!WorkRecorded, Retention!Working, Retention!Accounted,
      Retention!Resolved, Retention!Go
<1>1. ASSUME NEW r \in Runners, Retention!Start(r) PROVE Retention!IInv'
  BY <1>1 DEF Retention!Start, Retention!Attempts, Retention!Barred
<1>2. ASSUME NEW r \in Runners, Retention!TryLock(r) PROVE Retention!IInv'
  <2>1. CASE up[r] /\ lock = NoOne
    BY <1>2, <2>1 DEF Retention!TryLock, Retention!Barred
  <2>2. CASE ~(up[r] /\ lock = NoOne)
    <3>1. Retention!GoIdle(r) /\ UNCHANGED <<period, intents, outcomes, deleted>>
      BY <1>2, <2>2 DEF Retention!TryLock
    <3> QED
      BY <3>1, RetentionIdle
  <2> QED
    BY <2>1, <2>2
<1>3. ASSUME NEW r \in Runners, Retention!Look(r) PROVE Retention!IInv'
  BY <1>3 DEF Retention!Look, Retention!Barred
<1>4. ASSUME NEW r \in Runners, Retention!CommitIntent(r) PROVE Retention!IInv'
  <2>1. attempt[r] \in Retention!Attempts
    BY <1>4 DEF Retention!CommitIntent
  <2>2. CASE intents' = intents
    BY <1>4, <2>2 DEF Retention!CommitIntent, Retention!Barred
  <2>3. CASE up[r] /\ intents' = intents \cup {attempt[r]}
    <3>1. attempt[r] \notin intents /\ \A b \in intents : Retention!Resolved(b)
      BY <1>4, <2>3 DEF Retention!CommitIntent, Retention!Barred
    <3>2. deleted[attempt[r]] = 0 /\ done[r] = 0 /\ ~Retention!Resolved(attempt[r])
      BY <1>4, <2>1, <3>1 DEF Retention!CommitIntent
    <3>3. \A s \in Runners : ~Retention!Working(s)
      BY <3>1
    <3>4. \A s \in Runners \ {r} : ~(up[s] /\ at[s] = "clear")
      BY <1>4, <2>3 DEF Retention!CommitIntent
    <3>5. Retention!TypeOK'
      <4>1. intents' \subseteq Retention!Attempts
        BY <2>1, <2>3
      <4>2. at' \in [Runners -> {"idle", "started", "locked", "clear", "unlinking", "told", "leaving"}]
        BY <1>4 DEF Retention!CommitIntent
      <4>3. up' \in [Runners -> BOOLEAN] /\ lock' \in Runners \cup {NoOne}
        BY <1>4 DEF Retention!CommitIntent
      <4> QED
        BY <1>4, <4>1, <4>2, <4>3 DEF Retention!CommitIntent
    <3>10. Retention!Started'
      BY <1>4 DEF Retention!CommitIntent
    <3>8. Retention!LockKept'
      BY <1>4 DEF Retention!CommitIntent
    <3>9. Retention!Accounted'
      BY <1>4, <2>3 DEF Retention!CommitIntent
    <3>6. Retention!LookStands'
      BY <1>4, <2>3, <3>4 DEF Retention!CommitIntent
    <3>7. Retention!WorkRecorded'
      BY <1>4, <2>3, <2>1, <3>2, <3>3 DEF Retention!CommitIntent
    <3> QED
      BY <3>5, <3>6, <3>7, <3>8, <3>9, <3>10
  <2> QED
    BY <1>4, <2>2, <2>3 DEF Retention!CommitIntent
<1>5. ASSUME NEW r \in Runners, Retention!Unlink(r) PROVE Retention!IInv'
  BY <1>5 DEF Retention!Unlink, Retention!Barred
<1>6. ASSUME NEW r \in Runners, Retention!EndUnlinking(r) PROVE Retention!IInv'
  BY <1>6 DEF Retention!EndUnlinking, Retention!Barred
<1>7. ASSUME NEW r \in Runners, Retention!CommitOutcome(r) PROVE Retention!IInv'
  <2>1. attempt[r] \in intents /\ deleted[attempt[r]] = done[r] /\ attempt[r] \in Retention!Attempts
    BY <1>7 DEF Retention!CommitOutcome
  <2>2. CASE outcomes' = outcomes
    <3>1. Retention!TypeOK' /\ Retention!Started'
      BY <1>7, <2>2 DEF Retention!CommitOutcome
    <3>2. Retention!LockKept'
      BY <1>7 DEF Retention!CommitOutcome
    <3>3. Retention!LookStands' /\ Retention!Accounted'
      BY <1>7, <2>2 DEF Retention!CommitOutcome, Retention!Barred
    <3>4. Retention!WorkRecorded'
      BY <1>7, <2>2 DEF Retention!CommitOutcome
    <3> QED
      BY <3>1, <3>2, <3>3, <3>4
  <2>3. CASE up[r] /\ Retention!Told(r)
    <3>1. /\ outcomes' \in [Retention!Attempts -> Nat \cup {NoOne}]
          /\ \A a \in Retention!Attempts :
               outcomes'[a] = IF a = attempt[r] THEN done[r] ELSE outcomes[a]
      BY <2>1, <2>3 DEF Retention!Told
    <3>2. \A s \in Runners : Retention!Working(s)' => Retention!Working(s) /\ s # r
      BY <1>7 DEF Retention!CommitOutcome
    <3>3. Retention!TypeOK' /\ Retention!Started'
      BY <1>7, <3>1 DEF Retention!CommitOutcome
    <3>6. Retention!LockKept'
      BY <1>7 DEF Retention!CommitOutcome
    <3>7. Retention!Accounted'
      BY <1>7, <2>1, <3>1 DEF Retention!CommitOutcome
    <3>4. Retention!LookStands'
      BY <1>7, <2>1, <3>1 DEF Retention!CommitOutcome, Retention!Barred
    <3>5. Retention!WorkRecorded'
      BY <1>7, <2>1, <3>1, <3>2 DEF Retention!CommitOutcome
    <3> QED
      BY <3>3, <3>4, <3>5, <3>6, <3>7
  <2> QED
    BY <1>7, <2>2, <2>3 DEF Retention!CommitOutcome
<1>8. ASSUME NEW r \in Runners, Retention!Leave(r) PROVE Retention!IInv'
  BY <1>8, RetentionIdle DEF Retention!Leave
<1>9. ASSUME NEW r \in Runners, Retention!Break(r) PROVE Retention!IInv'
  BY <1>9 DEF Retention!Break, Retention!Barred
<1>10. ASSUME NEW r \in Runners, Retention!Crash(r) PROVE Retention!IInv'
  BY <1>10, RetentionIdle DEF Retention!Crash
<1>11. CASE Retention!NextPeriod
  BY <1>11 DEF Retention!NextPeriod, Retention!Barred
<1>12. CASE UNCHANGED retentionVars
  BY <1>12 DEF retentionVars, Retention!Barred
<1> QED
  BY <1>1, <1>2, <1>3, <1>4, <1>5, <1>6, <1>7, <1>8, <1>9, <1>10, <1>11, <1>12 DEF Retention!Next

(* Elements that are all equal are one at most. *)
LEMMA AtMostOne ==
  ASSUME NEW W, \A r, s \in W : r = s
  PROVE  Cardinality(W) <= 1
<1>1. CASE W = {}
  BY <1>1, FS_EmptySet
<1>2. CASE W # {}
  <2>1. PICK r \in W : W = {r}
    BY <1>2
  <2>2. Cardinality({r}) = 1
    BY FS_Singleton
  <2> QED
    BY <2>1, <2>2
<1> QED
  BY <1>1, <1>2

(* The instance has a copy of Cardinality of its own. *)
LEMMA SameCardinality == \A S : Retention!Cardinality(S) = Cardinality(S)
  BY DEF Retention!Cardinality, Cardinality

(* The invariant of retention accounts for every deleted file. *)
LEMMA RetentionCounts == Retention!IInv => DeletionsAccounted
<1> SUFFICES ASSUME Retention!IInv PROVE DeletionsAccounted
  OBVIOUS
<1>1. \A r, s \in {r \in Runners : at[r] = "unlinking"} : r = s
  BY DEF Retention!IInv, Retention!WorkRecorded, Retention!Working
<1>2. Retention!Cardinality({r \in Runners : at[r] = "unlinking"}) <= 1
  <2>1. Cardinality({r \in Runners : at[r] = "unlinking"}) <= 1
    BY <1>1, AtMostOne
  <2> QED
    BY <2>1, SameCardinality
<1>3. \A a \in Retention!Attempts :
        /\ deleted[a] <= Budget
        /\ deleted[a] > 0 => a \in intents
        /\ Retention!Resolved(a) => outcomes[a] = deleted[a]
  BY DEF Retention!IInv, Retention!Accounted
<1> QED
  BY <1>2, <1>3 DEF DeletionsAccounted, Retention!DeletionsAccounted

(* Every deleted file is accounted for in a row of its attempt, an attempt *)
(* that is resolved tells all of them, and one that has deleted has a row, *)
(* for any number of runners, attempts and crashes                         *)
(* (ops/retention_attempts.py).                                            *)
THEOREM FilesAccounted == AllSpec => []DeletionsAccounted
<1>1. AllInit => Retention!IInv
  BY RetentionInit DEF AllInit
<1>2. Retention!IInv /\ [AllNext]_<<part, vars, retentionVars, marketVars>> => Retention!IInv'
  <2> SUFFICES ASSUME Retention!IInv, [AllNext]_<<part, vars, retentionVars, marketVars>>
               PROVE  Retention!IInv'
    OBVIOUS
  <2>1. [Retention!Next]_retentionVars
    BY DEF AllNext
  <2> QED
    BY <2>1, RetentionNext
<1> QED
  BY <1>1, <1>2, RetentionCounts, PTL DEF AllSpec

(* ----------------------- finite sets of naturals ----------------------- *)
(* A set of naturals that is not empty has a least element. *)
LEMMA LeastOf ==
  ASSUME NEW T, T \subseteq Nat, T # {}
  PROVE  \E x \in T : \A y \in T : x <= y
<1>1. PICK x \in T : \A y \in T : <<y, x>> \notin OpToRel(<, Nat)
  BY NatLessThanWellFounded, WFMin
<1>2. \A y \in T : ~(y < x)
  BY <1>1 DEF OpToRel
<1> QED
  BY <1>2

(* Induction over the naturals, for a set. *)
LEMMA SetInduction ==
  ASSUME NEW T, 0 \in T, \A n \in Nat : n \in T => n + 1 \in T
  PROVE  Nat \subseteq T
<1> SUFFICES ASSUME Nat \ T # {} PROVE FALSE
  OBVIOUS
<1>1. PICK x \in Nat \ T : \A y \in Nat \ T : x <= y
  BY LeastOf
<1>2. x - 1 \in Nat /\ x - 1 \notin Nat \ T /\ (x - 1) + 1 = x
  BY <1>1
<1> QED
  BY <1>1, <1>2

(* A finite set of naturals is bounded. *)
LEMMA FiniteBounded ==
  ASSUME NEW S, IsFiniteSet(S), S \subseteq Nat
  PROVE  \E b \in Nat : \A x \in S : x <= b
<1>1. PICK m \in Nat : ExistsSurjection(1 .. m, S)
  BY FS_NatSurjection
<1>2. PICK f \in [1 .. m -> S] : \A x \in S : \E i \in 1 .. m : f[i] = x
  BY <1>1 DEF ExistsSurjection, Surjection
<1> DEFINE T == {n \in Nat : n <= m => \E b \in Nat : \A i \in 1 .. n : f[i] <= b}
<1>3. 0 \in T
  OBVIOUS
<1>4. ASSUME NEW n \in Nat, n \in T PROVE n + 1 \in T
  <2> SUFFICES ASSUME n + 1 <= m PROVE \E b \in Nat : \A i \in 1 .. n + 1 : f[i] <= b
    OBVIOUS
  <2>1. PICK b \in Nat : \A i \in 1 .. n : f[i] <= b
    BY <1>4
  <2>2. f[n + 1] \in Nat
    <3>1. n + 1 \in 1 .. m
      BY <1>1
    <3> QED
      BY <3>1, <1>2
  <2>3. PICK d \in Nat : b <= d /\ f[n + 1] <= d
    <3>1. CASE b <= f[n + 1]
      BY <2>2, <3>1
    <3>2. CASE f[n + 1] <= b
      BY <3>2
    <3> QED
      BY <2>2, <3>1, <3>2
  <2>4. \A i \in 1 .. n + 1 : f[i] <= d
    <3> SUFFICES ASSUME NEW i \in 1 .. n + 1 PROVE f[i] <= d
      OBVIOUS
    <3>1. i \in 1 .. m /\ f[i] \in Nat
      <4>1. i \in 1 .. m
        BY <1>1
      <4> QED
        BY <4>1, <1>2
    <3>2. i \in 1 .. n \/ i = n + 1
      OBVIOUS
    <3> QED
      BY <2>1, <2>3, <3>1, <3>2
  <2> QED
    BY <2>4
<1>5. m \in T
  <2> HIDE DEF T
  <2> QED
    BY <1>3, <1>4, SetInduction
<1> QED
  <2>1. PICK b \in Nat : \A i \in 1 .. m : f[i] <= b
    BY <1>1, <1>5
  <2>2. \A x \in S : x <= b
    BY <1>2, <2>1
  <2> QED
    BY <2>2

(* Min and Max are what they say. *)
LEMMA MinOf ==
  ASSUME NEW S, S \subseteq Nat, S # {}
  PROVE  Market!Min(S) \in S /\ \A y \in S : Market!Min(S) <= y
  BY LeastOf DEF Market!Min

LEMMA MaxOf ==
  ASSUME NEW S, S \subseteq Nat, IsFiniteSet(S), S # {}
  PROVE  Market!Max(S) \in S /\ \A y \in S : y <= Market!Max(S)
<1>1. PICK b \in Nat : \A x \in S : x <= b
  BY FiniteBounded
<1> DEFINE T == {n \in Nat : \E x \in S : n = b - x}
<1>2. T # {}
  <2>1. PICK x \in S : x \in Nat /\ x <= b
    BY <1>1
  <2>2. b - x \in T
    BY <1>1, <2>1
  <2> QED
    BY <2>2
<1>3. PICK n \in T : \A k \in T : n <= k
  BY <1>2, LeastOf
<1>4. PICK x \in S : n = b - x
  BY <1>3
<1>5. ASSUME NEW y \in S PROVE x >= y
  <2>1. b - y \in T
    BY <1>1
  <2>2. n <= b - y
    BY <2>1, <1>3
  <2> QED
    BY <2>2, <1>4
<1>6. Market!Max(S) \in S /\ \A y \in S : Market!Max(S) >= y
  BY <1>5 DEF Market!Max
<1> QED
  BY <1>6

(* The newest of a set of hours, 0 when there is none. *)
LEMMA NewestOf ==
  ASSUME NEW S, S \subseteq Nat, IsFiniteSet(S)
  PROVE  /\ Market!Newest(S) \in Nat /\ \A y \in S : y <= Market!Newest(S)
         /\ S = {} => Market!Newest(S) = 0
         /\ S # {} => Market!Newest(S) \in S
  BY MaxOf DEF Market!Newest

(* ---------------- bars and snapshots of the market lane ---------------- *)
(* The instance has copies of the operators of FiniteSets of its own. *)
LEMMA MarketSets == \A S : (Market!IsFiniteSet(S) <=> IsFiniteSet(S)) /\ Market!Cardinality(S) = Cardinality(S)
  BY DEF Market!IsFiniteSet, IsFiniteSet, Market!Cardinality, Cardinality

(* The reach of an instrument is its newest stored bar. *)
LEMMA ReachIs ==
  ASSUME Market!TypeOK, Market!BarsInOrder, NEW i \in Instruments
  PROVE  /\ Market!Reach(i) \in Nat /\ bars[i] \subseteq Nat
         /\ \A h \in bars[i] : h <= Market!Reach(i)
         /\ bars[i] = {} => Market!Reach(i) = 0
         /\ bars[i] # {} => Market!Reach(i) \in bars[i]
<1>1. bars[i] \subseteq Nat /\ IsFiniteSet(bars[i])
  BY MarketSets DEF Market!TypeOK, Market!BarsInOrder
<1> QED
  BY <1>1, NewestOf DEF Market!Reach

(* The closed bars of a lane are finitely many rows. *)
LEMMA StoredFinite ==
  ASSUME NEW b \in [Instruments -> SUBSET Nat], \A i \in Instruments : IsFiniteSet(b[i]), NEW l
  PROVE  IsFiniteSet(Market!Stored(b, l))
<1> DEFINE I == {i \in Instruments : LaneOf[i] = l}
           R == {{i} \X b[i] : i \in I}
           f == [i \in I |-> {i} \X b[i]]
<1>1. IsFiniteSet(I)
  BY MarketAssumption, FS_Subset
<1>2. f \in Surjection(I, R)
  BY DEF Surjection
<1>3. IsFiniteSet(R)
  <2> HIDE DEF I, R, f
  <2> QED
    BY <1>1, <1>2, FS_Surjection
<1>4. ASSUME NEW T \in R PROVE IsFiniteSet(T)
  <2>1. PICK i \in I : T = {i} \X b[i]
    BY <1>4
  <2>2. IsFiniteSet({i}) /\ IsFiniteSet(b[i])
    BY FS_Singleton
  <2>3. IsFiniteSet({i} \X b[i])
    BY <2>2, FS_Product
  <2> QED
    BY <2>1, <2>3
<1>5. IsFiniteSet(UNION R)
  BY <1>3, <1>4, FS_UNION
<1> QED
  BY <1>5 DEF Market!Stored

(* A snapshot tells the bars it was taken of from all the bars stored      *)
(* later: their number grows with them.                                    *)
LEMMA SnapshotTells ==
  ASSUME Market!TypeOK, Market!BarsInOrder, NEW n \in [Instruments -> Nat],
         Market!SnapshotOf(Market!UpTo(n)) = Market!Snapshot,
         NEW i \in Instruments, NEW h \in bars[i]
  PROVE  h <= n[i]
<1> DEFINE l == LaneOf[i]
           b == Market!UpTo(n)
<1>1. /\ bars \in [Instruments -> SUBSET Nat] /\ \A j \in Instruments : IsFiniteSet(bars[j])
      /\ b \in [Instruments -> SUBSET Nat] /\ \A j \in Instruments : b[j] \subseteq bars[j]
  BY MarketSets DEF Market!TypeOK, Market!BarsInOrder, Market!UpTo
<1>2. <<i, h>> \in Market!Stored(bars, l)
  BY DEF Market!Stored
<1>3. l \in DOMAIN Market!SnapshotOf(bars) /\ Market!SnapshotOf(bars)[l] = Market!Mark(bars, l)
  BY <1>2 DEF Market!SnapshotOf, Market!Lanes
<1>4. Market!SnapshotOf(b)[l] = Market!Mark(b, l)
  <2>1. l \in DOMAIN Market!SnapshotOf(b)
    BY <1>3 DEF Market!Snapshot
  <2> QED
    BY <2>1 DEF Market!SnapshotOf
<1>5. Cardinality(Market!Stored(b, l)) = Cardinality(Market!Stored(bars, l))
  BY <1>3, <1>4, MarketSets DEF Market!Snapshot, Market!Mark
<1>6. Market!Stored(b, l) \subseteq Market!Stored(bars, l)
  <2> HIDE DEF b
  <2> QED
    BY <1>1 DEF Market!Stored
<1>7. Market!Stored(b, l) = Market!Stored(bars, l)
  BY <1>1, <1>5, <1>6, StoredFinite, FS_Subset
<1>8. h \in b[i]
  <2> HIDE DEF b
  <2> QED
    BY <1>2, <1>7 DEF Market!Stored
<1> QED
  BY <1>8 DEF Market!UpTo

(* --------------------- evidence of the market lane --------------------- *)
(* At the start nothing is marked and nothing is paired. *)
LEMMA MarketInit == Market!Init => Market!MarkInv /\ Market!PairInv
<1> SUFFICES ASSUME Market!Init PROVE Market!MarkInv /\ Market!PairInv
  OBVIOUS
<1>1. \A i \in Instruments : bars[i] = {h \in Trading[i] : h <= Loaded} /\ bars[i] \subseteq 0 .. Loaded
  BY MarketAssumption DEF Market!Init
<1>2. \A i \in Instruments : IsFiniteSet(bars[i])
  <2>1. IsFiniteSet(0 .. Loaded)
    BY MarketAssumption, FS_Interval
  <2>2. \A i \in Instruments : bars[i] \in SUBSET (0 .. Loaded)
    BY <1>1
  <2> QED
    BY <2>1, <2>2, FS_Subset
<1>3. Market!BarsInOrder
  BY <1>1, <1>2, MarketSets, MarketAssumption DEF Market!BarsInOrder
<1>4. Market!TypeOK
  BY <1>1, MarketAssumption DEF Market!Init, Market!TypeOK
<1>5. Market!ScanMarkTold /\ Market!ShadowMarkTold
  BY <1>3, <1>4, ReachIs DEF Market!Init, Market!ScanMarkTold, Market!ShadowMarkTold
<1> QED
  BY <1>3, <1>4, <1>5
  DEF Market!Init, Market!MarkInv, Market!PairInv, Market!SignalsUsable, Market!EvidenceIsHonest

(* What an ingest adds to the bars of an instrument is newer than all it   *)
(* has stored.                                                             *)
LEMMA IngestAdds ==
  ASSUME Market!TypeOK, Market!BarsInOrder, Market!Ingest, NEW i \in Instruments
  PROVE  /\ bars[i] \subseteq bars'[i] /\ bars'[i] \subseteq Trading[i] /\ IsFiniteSet(bars'[i])
         /\ \A h \in bars'[i], g \in Trading[i] : g <= h => g \in bars'[i]
         /\ \A h \in bars'[i] : h \in bars[i] \/ h > Market!Reach(i)
         /\ bars' \in [Instruments -> SUBSET Nat]
<1>1. PICK upto \in [Instruments -> {0} \cup UNION {Trading[j] : j \in Instruments}] :
        /\ \A j \in Instruments :
             upto[j] \in {Market!Reach(j)} \cup {h \in Trading[j] : h > Market!Reach(j)}
        /\ bars' = [j \in Instruments |-> {h \in Trading[j] : h <= upto[j]}]
  BY DEF Market!Ingest
<1>2. /\ Market!Reach(i) \in Nat /\ bars[i] \subseteq Nat
      /\ \A h \in bars[i] : h <= Market!Reach(i)
      /\ bars[i] = {} => Market!Reach(i) = 0
      /\ bars[i] # {} => Market!Reach(i) \in bars[i]
  BY ReachIs
<1>3. /\ bars[i] \subseteq Trading[i] /\ Trading[i] \subseteq Nat \ {0}
      /\ \A h \in bars[i], g \in Trading[i] : g <= h => g \in bars[i]
  BY MarketAssumption DEF Market!BarsInOrder
<1>4. upto[i] \in Nat /\ upto[i] >= Market!Reach(i) /\ bars'[i] = {h \in Trading[i] : h <= upto[i]}
  BY <1>1, <1>2, <1>3
<1>5. IsFiniteSet(bars'[i])
  <2>1. bars'[i] \in SUBSET (0 .. upto[i])
    BY <1>3, <1>4
  <2> QED
    <3>1. IsFiniteSet(0 .. upto[i])
      BY <1>4, FS_Interval
    <3> QED
      BY <2>1, <3>1, FS_Subset
<1>6. \A h \in Trading[i] : h <= Market!Reach(i) => h \in bars[i]
  BY <1>2, <1>3
<1>7. bars[i] \subseteq bars'[i] /\ \A h \in bars'[i] : h \in bars[i] \/ h > Market!Reach(i)
  BY <1>2, <1>3, <1>4, <1>6
<1>8. bars' \in [Instruments -> SUBSET Nat]
  BY <1>1, MarketAssumption
<1> QED
  BY <1>3, <1>4, <1>5, <1>7, <1>8

(* Rows and pairs as PaperAb and Shadow make them. *)
LEMMA RowTypes ==
  ASSUME Market!TypeOK, Market!BarsInOrder, Market!AnyBar
  PROVE  Market!EvaluatedAt \in Nat /\ Market!Rows \subseteq Market!Observation
<1> DEFINE R == {Market!Reach(i) : i \in Instruments}
           f == [i \in Instruments |-> Market!Reach(i)]
<1>1. R \subseteq Nat /\ R # {}
  BY ReachIs DEF Market!AnyBar
<1>2. IsFiniteSet(R)
  <2>1. f \in Surjection(Instruments, R)
    BY DEF Surjection
  <2> HIDE DEF R, f
  <2> QED
    BY <2>1, FS_Surjection, MarketAssumption
<1>3. Market!EvaluatedAt \in Nat
  <2>1. Market!Max(R) \in R
    <3> HIDE DEF R
    <3> QED
      BY <1>1, <1>2, MaxOf
  <2> QED
    BY <1>1, <2>1 DEF Market!EvaluatedAt
<1> QED
  BY <1>3, ReachIs DEF Market!Rows, Market!Observation

(* A label is the first bar after the horizon: the stored bars are a       *)
(* prefix of those that are traded.                                        *)
LEMMA LabelIsFirst ==
  ASSUME Market!TypeOK, Market!BarsInOrder, NEW row \in Market!Observation
  PROVE  /\ Market!Label(row) \in Market!Outcome
         /\ Market!Label(row) # NoOne => Market!Label(row).exit = Market!FirstAfter(row)
<1> DEFINE i == row.instrument
           E == Market!ExitBars(row)
           F == {h \in Trading[i] : h >= row.at + Horizon}
<1>1. /\ i \in Instruments /\ row.at \in Nat /\ Trading[i] \subseteq Nat
      /\ bars[i] \subseteq Trading[i]
      /\ \A h \in bars[i], g \in Trading[i] : g <= h => g \in bars[i]
  BY MarketAssumption DEF Market!Observation, Market!BarsInOrder
<1>2. E = {h \in bars[i] : h >= row.at + Horizon} /\ E \subseteq F /\ E \subseteq Nat /\ F \subseteq Nat
  BY <1>1 DEF Market!ExitBars
<1>3. CASE E = {}
  BY <1>3 DEF Market!Label, Market!Outcome
<1>4. CASE E # {}
  <2>1. Market!Min(E) \in E /\ \A y \in E : Market!Min(E) <= y
    <3> HIDE DEF E
    <3> QED
      BY <1>2, <1>4, MinOf
  <2>2. Market!Min(F) \in F /\ \A y \in F : Market!Min(F) <= y
    <3>1. F # {}
      BY <1>2, <1>4
    <3> HIDE DEF F
    <3> QED
      BY <1>2, <3>1, MinOf
  <2>3. Market!Min(F) \in E
    BY <1>1, <1>2, <2>1, <2>2
  <2>4. Market!Min(E) = Market!Min(F) /\ Market!Min(E) \in Nat
    <3> HIDE DEF E, F
    <3> QED
      BY <1>2, <2>1, <2>2, <2>3
  <2>5. Market!Label(row) = [exit |-> Market!Min(E)]
    BY <1>4 DEF Market!Label
  <2>6. Market!FirstAfter(row) = Market!Min(F)
    BY DEF Market!FirstAfter
  <2> HIDE DEF E, F
  <2> QED
    BY <2>4, <2>5, <2>6 DEF Market!Outcome
<1> QED
  BY <1>3, <1>4

ArmHonest(arm, row) ==
  /\ arm \in Market!Arm
  /\ arm.signal => arm.usable
  /\ arm.signal /\ arm.outcome # NoOne => arm.outcome.exit = Market!FirstAfter(row)

(* An arm that is settled keeps what it has seen and gets the label of its *)
(* row.                                                                    *)
LEMMA SettledIsHonest ==
  ASSUME Market!TypeOK, Market!BarsInOrder, NEW row \in Market!Observation,
         NEW arm, ArmHonest(arm, row)
  PROVE  /\ ArmHonest(Market!Settled(arm, row), row)
         /\ Market!Settled(arm, row).seen = arm.seen /\ Market!Settled(arm, row).usable = arm.usable
<1>1. CASE arm.outcome # NoOne
  BY <1>1 DEF ArmHonest, Market!Settled
<1>2. CASE arm.outcome = NoOne /\ arm.usable /\ arm.signal
  <2>1. Market!Settled(arm, row) = [arm EXCEPT !.outcome = Market!Label(row)]
    BY <1>2 DEF Market!Settled
  <2> QED
    BY <2>1, LabelIsFirst DEF ArmHonest, Market!Arm
<1>3. CASE arm.outcome = NoOne /\ ~(arm.usable /\ arm.signal)
  <2>1. Market!Settled(arm, row) = [arm EXCEPT !.outcome = [exit |-> row.at]]
    BY <1>3 DEF Market!Settled
  <2>2. [exit |-> row.at] \in Market!Outcome
    BY DEF Market!Observation, Market!Outcome
  <2> QED
    BY <2>1, <2>2, <1>3 DEF ArmHonest, Market!Arm
<1> QED
  BY <1>1, <1>2, <1>3

(* The arms of a new pair: the control has seen nothing after the row. *)
LEMMA NewPairIsHonest ==
  ASSUME Market!TypeOK, Market!BarsInOrder, NEW row \in shadows
  PROVE  /\ Market!NewPair(row) \in [of : {row}, candidate : Market!Arm, control : Market!Arm]
         /\ ArmHonest(Market!NewPair(row).candidate, row)
         /\ ArmHonest(Market!NewPair(row).control, row)
         /\ Market!NewPair(row).control.usable => Market!NewPair(row).control.seen <= row.at
<1>1. row \in Market!Observation /\ Market!Reach(row.instrument) \in Nat
  BY ReachIs DEF Market!TypeOK, Market!Observation
<1> DEFINE i == row.instrument
           m == row.seen
           n == Market!Reach(i)
           c == Market!NewArm(m, m # 0, Market!Emits(i, m))
           d == Market!NewArm(n, n # 0 /\ Market!ControlUsable(row), Market!Emits(i, n))
<1>3. Market!NewPair(row) = [of |-> row, candidate |-> c, control |-> d]
  BY DEF Market!NewPair
<1>4. /\ c \in Market!Arm /\ (c.signal => c.usable) /\ c.outcome = NoOne
      /\ d \in Market!Arm /\ (d.signal => d.usable) /\ d.outcome = NoOne
      /\ d.seen = n /\ (d.usable => Market!ControlUsable(row))
  <2>1. m \in Nat /\ n \in Nat
    BY <1>1 DEF Market!Observation
  <2>2. c = [seen |-> m, usable |-> m # 0,
             signal |-> m # 0 /\ Market!Emits(i, m), outcome |-> NoOne]
    BY DEF Market!NewArm
  <2>3. d = [seen |-> n, usable |-> n # 0 /\ Market!ControlUsable(row),
             signal |-> (n # 0 /\ Market!ControlUsable(row)) /\ Market!Emits(i, n), outcome |-> NoOne]
    BY DEF Market!NewArm
  <2> HIDE DEF c, d, m, n, i
  <2>4. c \in Market!Arm /\ (c.signal => c.usable) /\ c.outcome = NoOne
    BY <2>1, <2>2 DEF Market!Arm, Market!Outcome
  <2>5. d \in Market!Arm /\ (d.signal => d.usable) /\ d.outcome = NoOne
    BY <2>1, <2>3 DEF Market!Arm, Market!Outcome
  <2>6. d.seen = n /\ (d.usable => Market!ControlUsable(row))
    BY <2>3
  <2> QED
    BY <2>4, <2>5, <2>6
<1>5. d.usable => d.seen <= row.at
  BY <1>4 DEF Market!ControlUsable
<1> HIDE DEF c, d
<1> QED
  BY <1>3, <1>4, <1>5 DEF ArmHonest

(* Seeding and resolving pairs of evidence keeps them honest. *)
LEMMA PaperAbHonest ==
  ASSUME Market!PairInv, Market!PaperAb
  PROVE  /\ pairs' \subseteq [of : shadows, candidate : Market!Arm, control : Market!Arm]
         /\ Market!SignalsUsable' /\ Market!EvidenceIsHonest'
<1>1. Market!TypeOK /\ Market!BarsInOrder
  BY DEF Market!PairInv
<1> DEFINE All == pairs \cup {Market!NewPair(row) : row \in shadows \ {p.of : p \in pairs}}
           Done(p) == [p EXCEPT !.candidate = Market!Settled(@, p.of), !.control = Market!Settled(@, p.of)]
<1>2. pairs' = {Done(p) : p \in All}
  BY DEF Market!PaperAb
<1>3. ASSUME NEW p \in All
      PROVE  /\ p \in [of : shadows, candidate : Market!Arm, control : Market!Arm]
             /\ ArmHonest(p.candidate, p.of) /\ ArmHonest(p.control, p.of)
             /\ p.control.usable => p.control.seen <= p.of.at
  <2>1. CASE p \in pairs
    BY <2>1, <1>1 DEF Market!PairInv, Market!TypeOK, Market!SignalsUsable, Market!EvidenceIsHonest, ArmHonest
  <2>2. CASE p \notin pairs
    <3>1. PICK row \in shadows : p = Market!NewPair(row)
      BY <2>2
    <3> QED
      BY <3>1, <1>1, NewPairIsHonest
  <2> QED
    BY <2>1, <2>2
<1>4. ASSUME NEW p \in All
      PROVE  /\ Done(p) \in [of : shadows, candidate : Market!Arm, control : Market!Arm]
             /\ Done(p).of = p.of
             /\ ArmHonest(Done(p).candidate, p.of) /\ ArmHonest(Done(p).control, p.of)
             /\ Done(p).control.usable => Done(p).control.seen <= p.of.at
  <2>1. p.of \in Market!Observation
    BY <1>1, <1>3 DEF Market!TypeOK
  <2>2. /\ Done(p).of = p.of
        /\ Done(p).candidate = Market!Settled(p.candidate, p.of)
        /\ Done(p).control = Market!Settled(p.control, p.of)
        /\ Done(p) \in [of : shadows, candidate : {Done(p).candidate}, control : {Done(p).control}]
    <3> DEFINE a == Market!Settled(p.candidate, p.of)
               b == Market!Settled(p.control, p.of)
               q == [p EXCEPT !.candidate = a]
               r == [q EXCEPT !.control = b]
    <3> HIDE DEF a, b
    <3>1. q \in [of : shadows, candidate : {a}, control : Market!Arm] /\ q.of = p.of /\ q.control = p.control
      BY <1>3
    <3> HIDE DEF q
    <3>2. r \in [of : shadows, candidate : {a}, control : {b}] /\ r.of = p.of
      BY <3>1
    <3>3. Done(p) = r
      BY <3>1 DEF q, a, b
    <3> QED
      BY <3>2, <3>3 DEF a, b
  <2>3. ArmHonest(Done(p).candidate, p.of) /\ ArmHonest(Done(p).control, p.of)
    BY <1>1, <1>3, <2>1, <2>2, SettledIsHonest
  <2>4. Done(p).control.usable => Done(p).control.seen <= p.of.at
    BY <1>1, <1>3, <2>1, <2>2, SettledIsHonest
  <2>5. Done(p).candidate \in Market!Arm /\ Done(p).control \in Market!Arm /\ p.of \in shadows
    BY <1>3, <2>3 DEF ArmHonest
  <2>6. Done(p) \in [of : shadows, candidate : Market!Arm, control : Market!Arm]
    <3> HIDE DEF Done
    <3> QED
      BY <2>2, <2>5
  <2> QED
    BY <2>2, <2>3, <2>4, <2>6
<1> HIDE DEF All, Done
<1>5. pairs' \subseteq [of : shadows, candidate : Market!Arm, control : Market!Arm]
  BY <1>2, <1>4
<1>6. \A row : Market!FirstAfter(row)' = Market!FirstAfter(row)
  BY DEF Market!FirstAfter
<1> QED
  BY <1>2, <1>4, <1>5, <1>6 DEF Market!SignalsUsable, Market!EvidenceIsHonest, ArmHonest

(* --------------------- the market lane step by step -------------------- *)
(* The bars only grow, and only by newer ones: what a job has looked at    *)
(* stays the same.                                                         *)
LEMMA BarsGrow ==
  ASSUME Market!TypeOK, Market!BarsInOrder, bars' = bars \/ Market!Ingest
  PROVE  /\ Market!BarsInOrder' /\ bars' \in [Instruments -> SUBSET Nat]
         /\ \A i \in Instruments : Market!Reach(i)' >= Market!Reach(i)
         /\ \A n \in [Instruments -> Nat] :
              (\A i \in Instruments : n[i] <= Market!Reach(i)) => Market!UpTo(n)' = Market!UpTo(n)
<1>1. CASE bars' = bars
  BY <1>1, ReachIs DEF Market!TypeOK, Market!BarsInOrder, Market!Reach, Market!UpTo
<1>2. CASE Market!Ingest
  <2>1. Market!BarsInOrder' /\ bars' \in [Instruments -> SUBSET Nat]
    <3>1. \A i \in Instruments : Market!IsFiniteSet(bars'[i])
      BY <1>2, IngestAdds, MarketSets
    <3>2. bars' \in [Instruments -> SUBSET Nat]
      <4>1. CASE Instruments = {}
        BY <1>2, <4>1 DEF Market!Ingest
      <4>2. CASE Instruments # {}
        BY <1>2, <4>2, IngestAdds
      <4> QED
        BY <4>1, <4>2
    <3> QED
      BY <1>2, <3>1, <3>2, IngestAdds DEF Market!BarsInOrder
  <2>2. ASSUME NEW i \in Instruments PROVE Market!Reach(i)' >= Market!Reach(i)
    <3>1. bars'[i] \subseteq Nat /\ IsFiniteSet(bars'[i]) /\ bars[i] \subseteq bars'[i]
      BY <1>2, <2>1, IngestAdds
    <3>2. /\ Market!Newest(bars'[i]) \in Nat
          /\ \A h \in bars'[i] : h <= Market!Newest(bars'[i])
      BY <3>1, NewestOf
    <3> QED
      BY <3>1, <3>2, ReachIs DEF Market!Reach
  <2>3. ASSUME NEW n \in [Instruments -> Nat], \A i \in Instruments : n[i] <= Market!Reach(i),
               NEW i \in Instruments
        PROVE  {h \in bars'[i] : h <= n[i]} = {h \in bars[i] : h <= n[i]}
    <3>1. /\ \A h \in bars'[i] : h \in Nat /\ (h \in bars[i] \/ h > Market!Reach(i))
          /\ bars[i] \subseteq bars'[i]
      BY <1>2, <2>1, IngestAdds
    <3> QED
      BY <2>3, <3>1, ReachIs
  <2>4. ASSUME NEW n \in [Instruments -> Nat], \A i \in Instruments : n[i] <= Market!Reach(i)
        PROVE  Market!UpTo(n)' = Market!UpTo(n)
    BY <2>3, <2>4 DEF Market!UpTo
  <2> QED
    BY <2>1, <2>2, <2>4
<1> QED
  BY <1>1, <1>2

(* A job that has woken up has looked at every stored bar.                 *)
LEMMA UpToAll ==
  ASSUME Market!TypeOK, Market!BarsInOrder
  PROVE  Market!UpTo([i \in Instruments |-> Market!Reach(i)]) = bars
  BY ReachIs DEF Market!UpTo, Market!TypeOK

(* Every step keeps what the marks tell. *)
LEMMA MarkNext == Market!MarkInv /\ [Market!Next]_marketVars /\ Market!TypeOK' => Market!MarkInv'
<1> SUFFICES ASSUME Market!MarkInv, [Market!Next]_marketVars, Market!TypeOK'
             PROVE  Market!BarsInOrder' /\ Market!ScanMarkTold' /\ Market!ShadowMarkTold'
  BY DEF Market!MarkInv
<1>1. Market!TypeOK /\ Market!BarsInOrder /\ Market!ScanMarkTold /\ Market!ShadowMarkTold
  BY DEF Market!MarkInv
<1>2. bars' = bars \/ Market!Ingest
  BY DEF Market!Next, Market!Scan, Market!Shadow, Market!PaperAb, Market!Fail,
         Market!FailToCommit, Market!Restart, marketVars
<1>3. /\ Market!BarsInOrder' /\ bars' \in [Instruments -> SUBSET Nat]
      /\ \A i \in Instruments : Market!Reach(i)' >= Market!Reach(i)
      /\ \A n \in [Instruments -> Nat] :
           (\A i \in Instruments : n[i] <= Market!Reach(i)) => Market!UpTo(n)' = Market!UpTo(n)
  BY <1>1, <1>2, BarsGrow
<1>4. \A i \in Instruments : Market!Reach(i) \in Nat /\ Market!Reach(i)' \in Nat
  <2>1. \A i \in Instruments : Market!Reach(i)' \in Nat
    BY <1>3, MarketSets, NewestOf DEF Market!Reach, Market!BarsInOrder
  <2> QED
    BY <1>1, <2>1, ReachIs
<1>5. scanned \in [Instruments -> Nat] /\ \A i \in Instruments : scanned[i] <= Market!Reach(i)
  BY <1>1 DEF Market!TypeOK, Market!ScanMarkTold
<1>6. Market!ScanMarkTold'
  <2>1. CASE scanMark' = scanMark /\ scanned' = scanned /\ ("scan" \in lost' <=> "scan" \in lost)
    <3>1. \A i \in Instruments : scanned'[i] <= Market!Reach(i)'
      BY <2>1, <1>3, <1>4, <1>5
    <3>2. Market!UpTo(scanned)' = Market!UpTo(scanned)
      <4>1. [i \in Instruments |-> {h \in bars'[i] : h <= scanned[i]}] = Market!UpTo(scanned)
        BY <1>3, <1>5 DEF Market!UpTo
      <4> QED
        BY <2>1, <4>1 DEF Market!UpTo
    <3>3. Market!SnapshotOf(Market!UpTo(scanned))' = Market!SnapshotOf(Market!UpTo(scanned))
      BY <3>2 DEF Market!SnapshotOf, Market!Lanes, Market!Mark, Market!Stored
    <3> QED
      BY <2>1, <3>1, <3>3, <1>1 DEF Market!ScanMarkTold
  <2>2. CASE bars' = bars /\ scanMark' = Market!Snapshot /\ scanned' = [i \in Instruments |-> Market!Reach(i)]
    <3>1. Market!UpTo(scanned)' = bars
      BY <2>2, <1>1, UpToAll DEF Market!UpTo
    <3>2. Market!SnapshotOf(Market!UpTo(scanned))' = Market!Snapshot
      BY <3>1 DEF Market!SnapshotOf, Market!Snapshot, Market!Lanes, Market!Mark, Market!Stored
    <3> QED
      BY <2>2, <3>2, <1>3, <1>4 DEF Market!ScanMarkTold
  <2>3. CASE bars' = bars /\ scanned' = scanned /\ (scanMark' = NoOne \/ "scan" \in lost')
    BY <2>3, <1>3, <1>4, <1>5 DEF Market!ScanMarkTold
  <2>4. CASE Market!Ingest
    BY <2>1, <2>4 DEF Market!Ingest
  <2>5. CASE Market!Scan
    BY <2>1, <2>2, <2>5 DEF Market!Scan
  <2>6. CASE Market!Shadow
    BY <2>1, <2>6 DEF Market!Shadow
  <2>7. CASE Market!PaperAb
    BY <2>1, <2>7 DEF Market!PaperAb
  <2>8. CASE Market!Fail
    BY <2>1, <2>8 DEF Market!Fail
  <2>9. CASE Market!FailToCommit
    BY <2>1, <2>3, <2>9 DEF Market!FailToCommit
  <2>10. CASE Market!Restart
    BY <2>3, <2>10 DEF Market!Restart
  <2>11. CASE UNCHANGED marketVars
    BY <2>1, <2>11 DEF marketVars
  <2> QED
    BY <2>4, <2>5, <2>6, <2>7, <2>8, <2>9, <2>10, <2>11 DEF Market!Next
<1>7. Market!ShadowMarkTold'
  <2>1. CASE shadowMark' = shadowMark /\ shadows' = shadows /\ ("shadow" \in lost' <=> "shadow" \in lost)
    <3>1. CASE ~(shadowMark # NoOne /\ "shadow" \notin lost)
      BY <2>1, <3>1 DEF Market!ShadowMarkTold
    <3>2. CASE shadowMark # NoOne /\ "shadow" \notin lost
      <4>1. PICK n \in [Instruments -> {row.seen : row \in shadows}] :
              /\ shadowMark = Market!SnapshotOf(Market!UpTo(n))
              /\ \A i \in Instruments :
                   n[i] <= Market!Reach(i) /\ \E row \in shadows : row.instrument = i /\ row.seen = n[i]
        BY <3>2, <1>1 DEF Market!ShadowMarkTold
      <4>2. n \in [Instruments -> Nat]
        BY <4>1, <1>1 DEF Market!TypeOK, Market!Observation
      <4>3. Market!UpTo(n)' = Market!UpTo(n)
        BY <4>1, <4>2, <1>3
      <4>4. Market!SnapshotOf(Market!UpTo(n))' = Market!SnapshotOf(Market!UpTo(n))
        BY <4>3 DEF Market!SnapshotOf, Market!Lanes, Market!Mark, Market!Stored
      <4>5. \A i \in Instruments : n[i] <= Market!Reach(i)'
        BY <4>1, <4>2, <1>3, <1>4
      <4> QED
        BY <2>1, <4>1, <4>4, <4>5 DEF Market!ShadowMarkTold
    <3> QED
      BY <3>1, <3>2
  <2>2. CASE bars' = bars /\ shadowMark' = Market!Snapshot /\ shadows' = shadows \cup Market!Rows
    <3> DEFINE n == [i \in Instruments |-> Market!Reach(i)]
    <3>1. Market!UpTo(n)' = bars
      BY <2>2, <1>1, UpToAll DEF Market!UpTo, Market!Reach
    <3>2. Market!SnapshotOf(Market!UpTo(n))' = Market!Snapshot
      BY <3>1 DEF Market!SnapshotOf, Market!Snapshot, Market!Lanes, Market!Mark, Market!Stored
    <3>3. \A i \in Instruments :
            \E row \in shadows' : row.instrument = i /\ row.seen = n[i]
      <4> SUFFICES ASSUME NEW i \in Instruments
                   PROVE  \E row \in shadows' : row.instrument = i /\ row.seen = n[i]
        OBVIOUS
      <4> DEFINE r == [instrument |-> i, at |-> Market!EvaluatedAt, seen |-> Market!Reach(i)]
      <4>1. r \in shadows'
        BY <2>2 DEF Market!Rows
      <4>2. r.instrument = i /\ r.seen = n[i]
        OBVIOUS
      <4> QED
        BY <4>1, <4>2
    <3>4. n \in [Instruments -> {row.seen : row \in shadows'}]
      BY <3>3
    <3>5. n' = n /\ \A i \in Instruments : n[i] <= Market!Reach(i)'
      BY <2>2, <1>4 DEF Market!Reach
    <3>6. shadowMark' = Market!SnapshotOf(Market!UpTo(n))'
      BY <2>2, <3>2
    <3> HIDE DEF n
    <3> QED
      BY <3>3, <3>4, <3>5, <3>6 DEF Market!ShadowMarkTold
  <2>3. CASE shadowMark' = NoOne \/ "shadow" \in lost'
    BY <2>3 DEF Market!ShadowMarkTold
  <2>4. CASE Market!Ingest
    BY <2>1, <2>4 DEF Market!Ingest
  <2>5. CASE Market!Scan
    BY <2>1, <2>5 DEF Market!Scan
  <2>6. CASE Market!Shadow
    BY <2>1, <2>2, <2>6 DEF Market!Shadow
  <2>7. CASE Market!PaperAb
    BY <2>1, <2>7 DEF Market!PaperAb
  <2>8. CASE Market!Fail
    BY <2>1, <2>8 DEF Market!Fail
  <2>9. CASE Market!FailToCommit
    BY <2>1, <2>3, <2>9 DEF Market!FailToCommit
  <2>10. CASE Market!Restart
    BY <2>3, <2>10 DEF Market!Restart
  <2>11. CASE UNCHANGED marketVars
    BY <2>1, <2>11 DEF marketVars
  <2> QED
    BY <2>4, <2>5, <2>6, <2>7, <2>8, <2>9, <2>10, <2>11 DEF Market!Next
<1> QED
  BY <1>3, <1>6, <1>7

(* Every step keeps the types and what the pairs tell. *)
LEMMA PairNext == Market!PairInv /\ [Market!Next]_marketVars => Market!PairInv'
<1> SUFFICES ASSUME Market!PairInv, [Market!Next]_marketVars PROVE Market!PairInv'
  OBVIOUS
<1>1. Market!TypeOK /\ Market!BarsInOrder /\ Market!SignalsUsable /\ Market!EvidenceIsHonest
  BY DEF Market!PairInv
<1>2. bars' = bars \/ Market!Ingest
  BY DEF Market!Next, Market!Scan, Market!Shadow, Market!PaperAb, Market!Fail,
         Market!FailToCommit, Market!Restart, marketVars
<1>3. Market!BarsInOrder' /\ bars' \in [Instruments -> SUBSET Nat]
  BY <1>1, <1>2, BarsGrow
<1>4. CASE Market!PaperAb
  <2>1. Market!TypeOK'
    BY <1>1, <1>3, <1>4, PaperAbHonest DEF Market!TypeOK, Market!PaperAb
  <2> QED
    BY <1>3, <1>4, <2>1, PaperAbHonest DEF Market!PairInv
<1>5. CASE pairs' = pairs /\ shadows \subseteq shadows' /\ Market!TypeOK'
  <2>1. \A row : Market!FirstAfter(row)' = Market!FirstAfter(row)
    BY DEF Market!FirstAfter
  <2>2. Market!SignalsUsable' /\ Market!EvidenceIsHonest'
    BY <1>1, <1>5, <2>1 DEF Market!SignalsUsable, Market!EvidenceIsHonest
  <2> QED
    BY <1>3, <1>5, <2>2 DEF Market!PairInv
<1>6. CASE Market!Ingest
  BY <1>1, <1>3, <1>5, <1>6 DEF Market!Ingest, Market!TypeOK
<1>7. CASE Market!Scan
  <2>1. scanned' \in [Instruments -> Nat]
    BY <1>1, <1>7, ReachIs DEF Market!Scan, Market!TypeOK
  <2> QED
    BY <1>1, <1>3, <1>5, <1>7, <2>1 DEF Market!Scan, Market!TypeOK
<1>8. CASE Market!Shadow
  <2>1. shadows' \subseteq Market!Observation /\ shadows \subseteq shadows'
    BY <1>1, <1>8, RowTypes DEF Market!Shadow, Market!Wakes, Market!TypeOK
  <2>2. pairs' \subseteq [of : shadows', candidate : Market!Arm, control : Market!Arm]
    BY <1>1, <1>8, <2>1 DEF Market!Shadow, Market!TypeOK
  <2> QED
    BY <1>1, <1>3, <1>5, <1>8, <2>1, <2>2 DEF Market!Shadow, Market!TypeOK
<1>9. CASE Market!Fail
  BY <1>1, <1>3, <1>5, <1>9, MarketAssumption DEF Market!Fail, Market!Fault, Market!Order, Market!TypeOK
<1>10. CASE Market!FailToCommit
  BY <1>1, <1>3, <1>5, <1>10, MarketAssumption
  DEF Market!FailToCommit, Market!Fault, Market!Order, Market!TypeOK
<1>11. CASE Market!Restart
  BY <1>1, <1>3, <1>5, <1>11, MarketAssumption DEF Market!Restart, Market!Fault, Market!TypeOK
<1>12. CASE UNCHANGED marketVars
  BY <1>1, <1>3, <1>5, <1>12 DEF marketVars, Market!TypeOK
<1> QED
  BY <1>4, <1>6, <1>7, <1>8, <1>9, <1>10, <1>11, <1>12 DEF Market!Next

(* What sleeps has nothing to look at.                                     *)
LEMMA AsleepHasSeenAll == Market!MarkInv => Market!NoBarSleeps
<1> SUFFICES ASSUME Market!MarkInv PROVE Market!NoBarSleeps
  OBVIOUS
<1>1. Market!TypeOK /\ Market!BarsInOrder /\ Market!ScanMarkTold /\ Market!ShadowMarkTold
  BY DEF Market!MarkInv
<1>2. ASSUME ~Market!Wakes(scanMark), "scan" \notin lost, NEW i \in Instruments
      PROVE  scanned[i] = Market!Reach(i)
  <2>1. scanned \in [Instruments -> Nat] /\ scanned[i] <= Market!Reach(i)
    BY <1>1 DEF Market!TypeOK, Market!ScanMarkTold
  <2>2. CASE bars[i] = {}
    BY <2>1, <2>2, <1>1, ReachIs
  <2>3. CASE bars[i] # {}
    <3>1. scanMark # NoOne /\ scanMark = Market!Snapshot
      BY <1>2, <2>3 DEF Market!Wakes, Market!AnyBar
    <3>2. Market!SnapshotOf(Market!UpTo(scanned)) = Market!Snapshot
      BY <1>1, <1>2, <3>1 DEF Market!ScanMarkTold
    <3>3. Market!Reach(i) \in bars[i] /\ Market!Reach(i) \in Nat
      BY <2>3, <1>1, ReachIs
    <3>4. Market!Reach(i) <= scanned[i]
      BY <1>1, <2>1, <3>2, <3>3, SnapshotTells
    <3> QED
      BY <2>1, <3>3, <3>4
  <2> QED
    BY <2>2, <2>3
<1>3. ASSUME ~Market!Wakes(shadowMark), Market!AnyBar, "shadow" \notin lost, NEW i \in Instruments
      PROVE  \E row \in shadows : row.instrument = i /\ row.seen = Market!Reach(i)
  <2>1. shadowMark # NoOne /\ shadowMark = Market!Snapshot
    BY <1>3 DEF Market!Wakes
  <2>2. PICK n \in [Instruments -> {row.seen : row \in shadows}] :
          /\ shadowMark = Market!SnapshotOf(Market!UpTo(n))
          /\ \A j \in Instruments :
               n[j] <= Market!Reach(j) /\ \E row \in shadows : row.instrument = j /\ row.seen = n[j]
    BY <1>1, <1>3, <2>1 DEF Market!ShadowMarkTold
  <2>3. n \in [Instruments -> Nat]
    BY <2>2, <1>1 DEF Market!TypeOK, Market!Observation
  <2>4. n[i] = Market!Reach(i)
    <3>1. CASE bars[i] = {}
      BY <2>2, <2>3, <3>1, <1>1, ReachIs
    <3>2. CASE bars[i] # {}
      <4>1. Market!Reach(i) \in bars[i] /\ Market!Reach(i) \in Nat
        BY <3>2, <1>1, ReachIs
      <4>2. Market!Reach(i) <= n[i]
        BY <1>1, <2>1, <2>2, <2>3, <4>1, SnapshotTells
      <4> QED
        BY <2>2, <2>3, <4>1, <4>2
    <3> QED
      BY <3>1, <3>2
  <2> QED
    BY <2>2, <2>4
<1> QED
  BY <1>2, <1>3 DEF Market!NoBarSleeps

(* The market lane moves in its own steps. *)
LEMMA MarketStep == [AllNext]_<<part, vars, retentionVars, marketVars>> => [Market!Next]_marketVars
  BY DEF AllNext

(* The scan and Shadow never sleep over a stored bar, for any instruments, *)
(* lanes and hours of trading, whatever is rolled back or restarted        *)
(* (scheduler/market_watermark.py); a lost commit is the exception that    *)
(* lost records.                                                           *)
THEOREM EveryBarIsSeen == AllSpec => []NoBarSleeps
<1> DEFINE Inv == Market!MarkInv /\ Market!PairInv
<1>1. AllInit => Inv
  BY MarketInit DEF AllInit
<1>2. Inv /\ [AllNext]_<<part, vars, retentionVars, marketVars>> => Inv'
  BY MarketStep, MarkNext, PairNext DEF Market!PairInv
<1>3. Inv => NoBarSleeps
  BY AsleepHasSeenAll DEF NoBarSleeps
<1> QED
  BY <1>1, <1>2, <1>3, PTL DEF AllSpec

(* The control of a pair has seen no bar after the moment of its           *)
(* candidate, and a signal has the first bar after its horizon as its      *)
(* label, for any instruments, hours of trading and horizon                *)
(* (experiments/paper_ab_runtime_v1.py).                                   *)
THEOREM PairsAreHonest == AllSpec => []EvidenceIsHonest
<1>1. AllInit => Market!PairInv
  BY MarketInit DEF AllInit
<1>2. Market!PairInv /\ [AllNext]_<<part, vars, retentionVars, marketVars>> => Market!PairInv'
  BY MarketStep, PairNext
<1>3. Market!PairInv => EvidenceIsHonest
  BY DEF EvidenceIsHonest, Market!PairInv
<1> QED
  BY <1>1, <1>2, <1>3, PTL DEF AllSpec

(* No step of any part leaves its types, and a lock has an owner.          *)
THEOREM OperationsTyped == AllSpec => []OperationsTypeOK
<1> DEFINE Inv == UseInv /\ Retention!IInv /\ Market!PairInv
           allVars == <<part, vars, retentionVars, marketVars>>
<1>1. AllInit => Inv
  BY UseInit, RetentionInit, MarketInit DEF AllInit
<1>2. Inv /\ [AllNext]_allVars => Inv'
  <2>1. [AllNext]_allVars => [Next]_vars /\ [Retention!Next]_retentionVars
    BY DEF AllNext
  <2> QED
    BY <2>1, UseNext, RetentionNext, MarketStep, PairNext
<1>3. Inv => OperationsTypeOK
  BY DEF UseInv, Retention!IInv, Market!PairInv, OperationsTypeOK
<1> QED
  BY <1>1, <1>2, <1>3, PTL DEF AllSpec
===============================================================================
