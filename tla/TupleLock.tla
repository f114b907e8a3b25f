------------------------------- MODULE TupleLock -------------------------------
(***************************************************************************)
(* The PostgreSQL connections behind a pass of the execution worker.  The  *)
(* advisory lock of a venue/account/instrument tuple is taken with         *)
(* db.execute (server/app/execution/worker.py:92), so it belongs to the    *)
(* connection the session has at that moment.  A commit gives the          *)
(* connection back to the engine's pool, the next statement takes the      *)
(* pool's oldest one.  The control lock (kill_switch.py:50) has a          *)
(* connection of its own.                                                  *)
(*                                                                         *)
(* A session-level advisory lock outlives transactions and the pool's      *)
(* reset; it is counted per connection, and only the connection that holds *)
(* it can give it back.                                                    *)
(***************************************************************************)
EXTENDS Integers, Sequences

CONSTANTS
  Sessions,
  Processes,  \* each has one engine, hence one pool
  ProcOf,     \* the process a session lives in
  Tuples,
  NoOne,      \* no tuple, no holder
  MaxConns,   \* bound on the connections of a pool; two a session are enough
  MaxDepth    \* bound on how often one connection takes the same lock

ASSUME ProcAssumption == ProcOf \in [Sessions -> Processes]
ASSUME BoundAssumption == MaxConns \in Nat \ {0} /\ MaxDepth \in Nat \ {0}
ASSUME NoOneAssumption == NoOne \notin Tuples /\ NoOne \notin [process : Processes, conn : Nat]

Conns == 1 .. MaxConns

VARIABLES
  pool,     \* the idle connections of each process, oldest first
  made,     \* how many connections each process has opened
  conn,     \* the connection a session's transaction runs on, or 0
  ctl,      \* the connection a session has taken for the control lock, or 0
  held,     \* how often a connection has taken a tuple's lock
  control,  \* the connection that holds the control lock
  pc,       \* where each session is
  tup       \* the tuple of the intent it has claimed

vars == <<pool, made, conn, ctl, held, control, pc, tup>>

InPass == {"pass", "port", "wait", "guarded"}
Places == InPass \cup {"idle", "claiming", "claimed", "ending"}

TypeOK ==
  /\ pool \in [Processes -> Seq(Conns)]
  /\ made \in [Processes -> 0 .. MaxConns]
  /\ conn \in [Sessions -> 0 .. MaxConns]
  /\ ctl \in [Sessions -> 0 .. MaxConns]
  /\ held \in [Processes -> [Conns -> [Tuples -> Nat]]]
  /\ control \in [process : Processes, conn : Conns] \cup {NoOne}
  /\ pc \in [Sessions -> Places]
  /\ tup \in [Sessions -> Tuples \cup {NoOne}]

Init ==
  /\ pool = [p \in Processes |-> <<>>]
  /\ made = [p \in Processes |-> 0]
  /\ conn = [s \in Sessions |-> 0]
  /\ ctl = [s \in Sessions |-> 0]
  /\ held = [p \in Processes |-> [c \in Conns |-> [t \in Tuples |-> 0]]]
  /\ control = NoOne
  /\ pc = [s \in Sessions |-> "idle"]
  /\ tup = [s \in Sessions |-> NoOne]

Go(s, place) == pc' = [pc EXCEPT ![s] = place]

(* ------------------------- SQLAlchemy's QueuePool ---------------------- *)
\* the oldest idle connection, or a new one
PoolHead(p) == IF pool[p] # <<>> THEN Head(pool[p]) ELSE made[p] + 1

TakeOut(p) ==
  IF pool[p] # <<>>
  THEN pool' = [pool EXCEPT ![p] = Tail(@)] /\ UNCHANGED made
  ELSE /\ made[p] < MaxConns
       /\ made' = [made EXCEPT ![p] = @ + 1]
       /\ UNCHANGED pool

PutBack(p, c) == pool' = [pool EXCEPT ![p] = Append(@, c)]

\* the first statement of a transaction
Begin(s) ==
  /\ TakeOut(ProcOf[s])
  /\ conn' = [conn EXCEPT ![s] = PoolHead(ProcOf[s])]

Commit(s) ==
  /\ PutBack(ProcOf[s], conn[s])
  /\ conn' = [conn EXCEPT ![s] = 0]
  /\ UNCHANGED made

(* -------------------------- a pass of a worker ------------------------- *)
\* process_next_intent reads the level, claims an intent and commits the lease
StartClaim(s) ==
  /\ pc[s] = "idle" /\ Begin(s) /\ Go(s, "claiming")
  /\ \E t \in Tuples : tup' = [tup EXCEPT ![s] = t]
  /\ UNCHANGED <<ctl, held, control>>

CommitClaim(s) ==
  /\ pc[s] = "claiming" /\ Commit(s) /\ Go(s, "claimed")
  /\ UNCHANGED <<ctl, held, control, tup>>

Counted(p, c, t, n) == [held EXCEPT ![p][c][t] = n]

\* mutant: a lock of the process, not of the database
GrantableHere(p, c, t) == \A d \in Conns : held[p][d][t] > 0 => d = c

\* pg_try_advisory_lock on connection c of process p
Grantable(p, c, t) ==
  \A q \in Processes, d \in Conns : held[q][d][t] > 0 => q = p /\ d = c

TryLock(s) ==
  LET p == ProcOf[s]
      c == PoolHead(p)
      t == tup[s] IN
  /\ pc[s] = "claimed" /\ Begin(s)
  /\ IF Grantable(p, c, t)
     THEN /\ held[p][c][t] < MaxDepth
          /\ held' = Counted(p, c, t, held[p][c][t] + 1)
          /\ Go(s, "pass")
     ELSE UNCHANGED held /\ Go(s, "ending")
  /\ UNCHANGED <<ctl, control, tup>>

\* process_execution_intent commits before a port call, or before it returns
CommitPass(s) ==
  /\ pc[s] = "pass" /\ Commit(s) /\ Go(s, "port")
  /\ UNCHANGED <<ctl, held, control, tup>>

\* and uses the session again afterwards
Resume(s) ==
  /\ pc[s] = "port" /\ Begin(s) /\ Go(s, "pass")
  /\ UNCHANGED <<ctl, held, control, tup>>

\* _KillSwitchGuardedPort.submit: execution_control_lock opens its connection
AskControl(s) ==
  /\ pc[s] = "port" /\ TakeOut(ProcOf[s]) /\ Go(s, "wait")
  /\ ctl' = [ctl EXCEPT ![s] = PoolHead(ProcOf[s])]
  /\ UNCHANGED <<conn, held, control, tup>>

\* mutant: the control lock on the session's connection
GetControlOnSession(s) ==
  /\ pc[s] = "wait" /\ control = NoOne
  /\ control' = [process |-> ProcOf[s], conn |-> PoolHead(ProcOf[s])]
  /\ Begin(s) /\ Go(s, "guarded")
  /\ UNCHANGED <<ctl, held, tup>>

\* it gets the lock; the session then reads the level for the submit
GetControl(s) ==
  /\ pc[s] = "wait" /\ control = NoOne
  /\ control' = [process |-> ProcOf[s], conn |-> ctl[s]]
  /\ Begin(s) /\ Go(s, "guarded")
  /\ UNCHANGED <<ctl, held, tup>>

\* the submit has answered or was blocked
LeaveControl(s) ==
  /\ pc[s] = "guarded"
  /\ control' = IF control = [process |-> ProcOf[s], conn |-> ctl[s]] THEN NoOne ELSE control
  /\ PutBack(ProcOf[s], ctl[s])
  /\ ctl' = [ctl EXCEPT ![s] = 0]
  /\ Go(s, "pass")
  /\ UNCHANGED <<made, conn, held, tup>>

\* pg_advisory_unlock: gives back one level of the connection's own lock, if any
Unlocked(p, c, t) ==
  IF held[p][c][t] > 0 THEN Counted(p, c, t, held[p][c][t] - 1) ELSE held

\* the finally block of execution_tuple_lock, on whatever connection the session has
Unlock(s) ==
  LET c == IF pc[s] = "pass" THEN conn[s] ELSE PoolHead(ProcOf[s]) IN
  /\ \/ pc[s] = "pass" /\ UNCHANGED <<pool, made, conn>>
     \/ pc[s] = "port" /\ Begin(s)
  /\ held' = Unlocked(ProcOf[s], c, tup[s])
  /\ Go(s, "ending")
  /\ UNCHANGED <<ctl, control, tup>>

\* _release_lease and the last commit
Release(s) ==
  /\ pc[s] = "ending" /\ Commit(s) /\ Go(s, "idle")
  /\ tup' = [tup EXCEPT ![s] = NoOne]
  /\ UNCHANGED <<ctl, held, control>>

\* the process dies with its sessions, its connections and their locks
Restart(p) ==
  LET Own == {s \in Sessions : ProcOf[s] = p} IN
  /\ made[p] > 0
  /\ pool' = [pool EXCEPT ![p] = <<>>]
  /\ made' = [made EXCEPT ![p] = 0]
  /\ conn' = [s \in Sessions |-> IF s \in Own THEN 0 ELSE conn[s]]
  /\ ctl' = [s \in Sessions |-> IF s \in Own THEN 0 ELSE ctl[s]]
  /\ held' = [held EXCEPT ![p] = [c \in Conns |-> [t \in Tuples |-> 0]]]
  /\ control' = IF control # NoOne /\ control.process = p THEN NoOne ELSE control
  /\ pc' = [s \in Sessions |-> IF s \in Own THEN "idle" ELSE pc[s]]
  /\ tup' = [s \in Sessions |-> IF s \in Own THEN NoOne ELSE tup[s]]

Step(s) ==
  \/ StartClaim(s) \/ CommitClaim(s) \/ TryLock(s)
  \/ CommitPass(s) \/ Resume(s)
  \/ AskControl(s) \/ GetControl(s) \/ LeaveControl(s)
  \/ Unlock(s) \/ Release(s)

Next == (\E s \in Sessions : Step(s)) \/ (\E p \in Processes : Restart(p))

Spec == Init /\ [][Next]_vars

(* ------------------------------ properties ----------------------------- *)
(* Two passes never run over one venue/account/instrument at a time: what  *)
(* execution_tuple_lock is for.                                            *)
OnePassPerTuple ==
  \A r, s \in Sessions :
    pc[r] \in InPass /\ pc[s] \in InPass /\ tup[r] = tup[s] => r = s

(* The lock of a tuple is not held once the pass over it is over.  A lock  *)
(* left on an idle connection turns every later pass over the tuple away,  *)
(* its protection and its emergency flatten included.                      *)
NothingLeaks ==
  \A p \in Processes, c \in Conns, t \in Tuples :
    held[p][c][t] > 0 =>
      \E s \in Sessions : ProcOf[s] = p /\ tup[s] = t /\ pc[s] \in InPass

(* During a guarded submit the control lock is on the connection opened    *)
(* for it, which no session's commit can hand to anybody else: the kill    *)
(* switch cannot change between the check of the level and the answer.     *)
SubmitUnderControl ==
  \A s \in Sessions :
    pc[s] = "guarded" =>
      /\ control = [process |-> ProcOf[s], conn |-> ctl[s]]
      /\ \A r \in Sessions : ProcOf[r] = ProcOf[s] => conn[r] # ctl[s]

(* The inductive invariant behind OnePassPerTuple for processes with one   *)
(* session each: a tuple is locked from one process at most, and a session *)
(* inside a pass is in a process that has its tuple locked.                *)
LockedFrom(p, t) == \E c \in Conns : held[p][c][t] > 0
OneProcess ==
  \A p, q \in Processes, t \in Tuples : LockedFrom(p, t) /\ LockedFrom(q, t) => p = q
PassIsLocked ==
  \A s \in Sessions : pc[s] \in InPass => LockedFrom(ProcOf[s], tup[s])
Connected ==
  \A s \in Sessions :
    /\ pc[s] # "idle" => tup[s] \in Tuples
    /\ pc[s] \in {"claiming", "pass", "guarded", "ending"} => conn[s] \in Conns
    /\ pc[s] \in {"wait", "guarded"} => ctl[s] \in Conns
IInv == TypeOK /\ Connected /\ OneProcess /\ PassIsLocked

(* The inductive invariant behind SubmitUnderControl, for any number of    *)
(* sessions in a process: a connection is idle in its pool or one session  *)
(* uses it for one purpose, where it is tells whether the session has one, *)
(* and a guarded submit has the control lock on its own.                   *)
PoolApart == \A p \in Processes : \A i, j \in DOMAIN pool[p] : pool[p][i] = pool[p][j] => i = j
Opened ==
  /\ \A p \in Processes : \A i \in DOMAIN pool[p] : pool[p][i] <= made[p]
  /\ \A s \in Sessions : conn[s] <= made[ProcOf[s]] /\ ctl[s] <= made[ProcOf[s]]
UsedOrIdle ==
  \A s \in Sessions : \A i \in DOMAIN pool[ProcOf[s]] :
    pool[ProcOf[s]][i] # conn[s] /\ pool[ProcOf[s]][i] # ctl[s]
UsersApart ==
  \A r, s \in Sessions : ProcOf[r] = ProcOf[s] =>
    /\ conn[r] # 0 => conn[r] # ctl[s] /\ (conn[r] = conn[s] => r = s)
    /\ ctl[r] # 0 /\ ctl[r] = ctl[s] => r = s
OneUse == PoolApart /\ Opened /\ UsedOrIdle /\ UsersApart
Attached ==
  \A s \in Sessions :
    /\ conn[s] # 0 <=> pc[s] \in {"claiming", "pass", "guarded", "ending"}
    /\ ctl[s] # 0 <=> pc[s] \in {"wait", "guarded"}
GuardHolds ==
  \A s \in Sessions : pc[s] = "guarded" => control = [process |-> ProcOf[s], conn |-> ctl[s]]
UseInv == TypeOK /\ Connected /\ OneUse /\ Attached /\ GuardHolds
=============================================================================
