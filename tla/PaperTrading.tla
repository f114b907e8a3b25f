---------------------------- MODULE PaperTrading ----------------------------
(***************************************************************************)
(* Ideas for one instrument and the paper trades the owner approves.  Who  *)
(* changes them: the scheduler (pipeline/scan.py, supervise.py, trigger.py,*)
(* paper/tracker.py, live_tracker.py), the repair that runs before every   *)
(* request of the owner (operational_guard.py) and the requests themselves *)
(* (api/v1/ideas.py, paper.py, control.py).  All of them move an idea with *)
(* transition (journal/lifecycle.py), which appends to the idea's journal. *)
(*                                                                         *)
(* Each session is a transaction at READ COMMITTED that works on copies of *)
(* the rows it has read and writes the columns it has changed.  A job      *)
(* treats every row it finds in one transaction; here a session follows    *)
(* one of them.  FILLED stands for PARTIALLY_FILLED, FILLED, TP1_HIT,      *)
(* TP2_HIT and MANAGING, CANCELLED for MISSED too; the block statuses      *)
(* nothing sets are left out.                                              *)
(***************************************************************************)
EXTENDS Integers, Sequences, FiniteSets, FiniteSetsExt

CONSTANTS
  Sessions,
  Ideas,
  MaxEvents  \* bound on the events of an idea's journal

Statuses == {"none", "WATCH", "TRIGGERED", "ACTIVE", "FILLED", "STOPPED", "CLOSED", "CANCELLED",
             "TIMED_OUT"}
Terminal == {"STOPPED", "TIMED_OUT", "CANCELLED", "CLOSED"}

VARIABLES
  idea,     \* the status of each idea, committed; "none" before a scan finds it
  trade,    \* the paper trade of each idea: status and outcome
  journal,  \* idea_events
  skipped,  \* idea_skips
  stage,
  work      \* the copies a session has and what it will write

vars == <<idea, trade, journal, skipped, stage, work>>
Rows == <<idea, trade, journal, skipped>>

NoTrade == [status |-> "none", outcome |-> "none"]
Pending == [status |-> "PENDING", outcome |-> "none"]
Opened(t) == [status |-> "OPEN", outcome |-> t.outcome]
Ended(o) == [status |-> "CLOSED", outcome |-> o]
Dropped == [status |-> "CANCELLED", outcome |-> "unfilled"]
IsLive(t) == t.status \in {"PENDING", "OPEN"}
IsTrade(t) == t.status # "none"

\* op, the idea worked on, the trade as read and as it will be, the idea's status as read, the
\* statuses it will go through and the number of the first event
NoWork == [op |-> "none", idea |-> "none", from |-> NoTrade, to |-> NoTrade, old |-> "none",
           path |-> <<>>, seq |-> 0]

Init ==
  /\ idea = [i \in Ideas |-> "none"] /\ trade = [i \in Ideas |-> NoTrade]
  /\ journal = [i \in Ideas |-> {}] /\ skipped = {}
  /\ stage = [s \in Sessions |-> "idle"] /\ work = [s \in Sessions |-> NoWork]

-----------------------------------------------------------------------------
\* journal/lifecycle.py: the table of transitions and the shortest ways through it.
Allowed ==
  [x \in Statuses |->
     CASE x = "WATCH" -> {"TRIGGERED", "CANCELLED", "TIMED_OUT"}
       [] x = "TRIGGERED" -> {"ACTIVE", "CANCELLED", "TIMED_OUT"}
       [] x = "ACTIVE" -> {"FILLED", "CANCELLED", "TIMED_OUT"}
       [] x = "FILLED" -> {"STOPPED", "TIMED_OUT", "CLOSED"}
       [] x \in {"STOPPED", "TIMED_OUT"} -> {"CLOSED"}
       [] OTHER -> {}]
Paths(old, goal) ==
  LET one == {p \in {<<goal>>} : goal \in Allowed[old]}
      two == {<<x, goal>> : x \in {y \in Allowed[old] : goal \in Allowed[y]}}
      three == UNION {{<<x, y, goal>> : y \in {z \in Allowed[x] : goal \in Allowed[z]}} :
                      x \in Allowed[old]} IN
  IF one # {} THEN one ELSE IF two # {} THEN two ELSE three

LastNumber(i) == Max({e.seq : e \in journal[i]} \cup {0})
\* The events of path with numbers from seq: old status, new status.
Events(old, path, seq) ==
  {[seq |-> seq + n - 1, old |-> IF n = 1 THEN old ELSE path[n - 1], new |-> path[n]] :
     n \in 1..Len(path)}

\* Who holds the row of an idea: an owner's decision from its start, a writer until it commits.
IdeaFree(s, i) ==
  \A q \in Sessions \ {s} : work[q].idea = i =>
    ~(stage[q] = "decide" \/ (stage[q] = "commit" /\ work[q].path # <<>>))
\* A changed copy of a trade is written, and its row locked, before the idea's row is.
Changes(q) == work[q].from # work[q].to
TradeWritten(q) == Changes(q) /\ stage[q] \in {"idea", "number", "write", "commit"}
TradeFree(s, i) == \A q \in Sessions \ {s} : ~(work[q].idea = i /\ TradeWritten(q))

To(s, g) == stage' = [stage EXCEPT ![s] = g]
Finish(s) == To(s, "idle") /\ work' = [work EXCEPT ![s] = NoWork]
GiveUp(s) == Finish(s) /\ UNCHANGED Rows
Begin(s, g, w) == /\ stage[s] = "idle" /\ To(s, g) /\ work' = [work EXCEPT ![s] = w]
                  /\ UNCHANGED Rows

-----------------------------------------------------------------------------
\* Jobs that move an idea on what the market did.

\* scan: no second idea while one is alive.
Publish(i) ==
  /\ idea[i] = "none" /\ \A j \in Ideas : idea[j] \in Terminal \cup {"none"}
  /\ \E x \in {"WATCH", "TRIGGERED"} :
       /\ idea' = [idea EXCEPT ![i] = x]
       /\ journal' = [journal EXCEPT ![i] = Events("none", <<x>>, 1)]
  /\ UNCHANGED <<trade, skipped, stage, work>>

Move(i, goal) == [NoWork EXCEPT !.op = "move", !.idea = i, !.old = idea[i], !.path = <<goal>>]
Supervise(s, i) ==
  /\ idea[i] \in {"WATCH", "TRIGGERED"}
  /\ \E goal \in {"CANCELLED", "TIMED_OUT"} : Begin(s, "number", Move(i, goal))
Trigger(s, i) == idea[i] = "WATCH" /\ Begin(s, "number", Move(i, "TRIGGERED"))
\* The repair ends a decision nobody took; it looked for trades first.
ExpireDecision(s, i) ==
  idea[i] = "TRIGGERED" /\ ~IsTrade(trade[i]) /\ Begin(s, "number", Move(i, "TIMED_OUT"))

-----------------------------------------------------------------------------
\* Jobs that move a trade on: the copy is changed, written, and the idea follows.
Work(op, i, to) == [NoWork EXCEPT !.op = op, !.idea = i, !.from = trade[i], !.to = to]

\* What the bars and the calendar make of it (advance, _expire).
Advanced(t) == {t, Opened(t), Ended("stop"), Ended("target")}
               \cup IF t = Pending THEN {Dropped} ELSE {}
Track(s, i) ==
  IsLive(trade[i]) /\ \E to \in Advanced(trade[i]) : Begin(s, "flush", Work("track", i, to))

FollowTrade(t) ==
  CASE t.status = "CLOSED" -> IF t.outcome = "stop" THEN "STOPPED" ELSE "CLOSED"
    [] t.status = "CANCELLED" -> "TIMED_OUT"
    [] t.status = "OPEN" -> "FILLED"
    [] OTHER -> "none"
\* A path or nothing to do: what is left then is to commit.
Goes(s, old, goal, next) ==
  LET ways == IF goal = old \/ goal = "none" THEN {} ELSE Paths(old, goal) IN
  IF ways = {}
  THEN /\ work' = [work EXCEPT ![s].old = old]
       /\ To(s, IF next = "flush" THEN "flush" ELSE "commit")
  ELSE \E p \in ways : /\ work' = [work EXCEPT ![s].old = old, ![s].path = p]
                       /\ To(s, next)
ReadIdea(s) ==
  LET w == work[s] IN
  /\ stage[s] = "idea" /\ w.op = "track"
  /\ Goes(s, idea[w.idea], FollowTrade(w.to), "number")
  /\ UNCHANGED Rows

\* The repair reads the trades and then their ideas.
Repair(s, i) == IsTrade(trade[i]) /\ Begin(s, "repair", Work("repair", i, trade[i]))
ApprovedEnd(old) == IF old = "ACTIVE" THEN "CANCELLED" ELSE "TIMED_OUT"
RepairGoal(t, old) ==
  CASE t.status = "PENDING" -> "ACTIVE" [] t.status = "CANCELLED" -> ApprovedEnd(old)
    [] OTHER -> FollowTrade(t)
RepairPending(old) ==
  {"CANCELLED",        \* the target or the stop was reached without it
   ApprovedEnd(old)}   \* its time is over
RepairIdea(s) ==
  LET w == work[s]
      old == idea[w.idea]
      found == {<<w.from, RepairGoal(w.from, old)>>} \cup
               IF w.from = Pending THEN {<<Dropped, goal>> : goal \in RepairPending(old)} ELSE {}
  IN
  /\ stage[s] = "repair"
  /\ \E r \in found :
       LET ways == IF old \in Terminal \/ r[2] \in {old, "none"} THEN {} ELSE Paths(old, r[2]) IN
       \E p \in IF ways = {} THEN {<<>>} ELSE ways :
         work' = [work EXCEPT ![s].to = r[1], ![s].old = old, ![s].path = p]
  /\ To(s, "flush")
  /\ UNCHANGED Rows

\* UPDATE paper_trades: waits for the row; one live trade per instrument (a partial index).
Written(s, t) == [status |-> IF work[s].from.status # work[s].to.status THEN work[s].to.status ELSE t.status,
                  outcome |-> IF work[s].from.outcome # work[s].to.outcome THEN work[s].to.outcome
                                                                           ELSE t.outcome]
AfterFlush(s) == CASE work[s].op = "track" -> "idea"
                   [] work[s].path # <<>> -> "number"
                   [] OTHER -> "commit"
OtherLive(i) == \E j \in Ideas \ {i} : IsLive(trade[j])
Flush(s) ==
  LET i == work[s].idea IN
  /\ stage[s] = "flush"
  /\ Changes(s) => /\ TradeFree(s, i)
                   /\ IsLive(work[s].to) => \A q \in Sessions \ {s} : ~TradeWritten(q)
  /\ IF Changes(s) /\ IsLive(work[s].to) /\ OtherLive(i)
     THEN GiveUp(s)
     ELSE To(s, AfterFlush(s)) /\ UNCHANGED <<Rows, work>>

-----------------------------------------------------------------------------
\* transition: the greatest number of the journal is read, then the row is updated and the events
\* inserted; a number that is taken ends the transaction.
Number(s) ==
  /\ stage[s] = "number" /\ To(s, "write")
  /\ work' = [work EXCEPT ![s].seq = LastNumber(work[s].idea) + 1]
  /\ UNCHANGED Rows
\* mutant: the numbers of a journal are not unique
NeverTaken(i, n) == FALSE
Taken(i, n) == \E e \in journal[i] : e.seq = n
Write(s) ==
  LET i == work[s].idea IN
  /\ stage[s] = "write" /\ IdeaFree(s, i)
  /\ work[s].seq + Len(work[s].path) <= MaxEvents + 1
  /\ IF Taken(i, work[s].seq) THEN GiveUp(s) ELSE To(s, "commit") /\ UNCHANGED <<Rows, work>>

Commit(s) ==
  LET w == work[s]
      i == w.idea IN
  /\ stage[s] = "commit"
  /\ trade' = [trade EXCEPT ![i] = IF Changes(s) THEN Written(s, @) ELSE @]
  /\ idea' = [idea EXCEPT ![i] = IF w.path # <<>> THEN w.path[Len(w.path)] ELSE @]
  /\ journal' = [journal EXCEPT ![i] = @ \cup Events(w.old, w.path, w.seq)]
  /\ skipped' = IF w.op = "reject" THEN skipped \cup {i} ELSE skipped
  /\ Finish(s)

-----------------------------------------------------------------------------
\* The owner's decisions lock the idea; one taken before is answered again and changes nothing.
\* mutant: a rejection does not look for a trade
NotSkipped(i) == i \notin skipped
Undecided(i) == ~IsTrade(trade[i]) /\ i \notin skipped
Decide(s, i) ==
  /\ IdeaFree(s, i) /\ idea[i] # "none" /\ Undecided(i)
  /\ Begin(s, "decide", [NoWork EXCEPT !.op = "decide", !.idea = i])
\* A verdict of the supervision that comes first is rolled back with the refusal.
Approve(s) ==
  LET i == work[s].idea IN
  /\ stage[s] = "decide" /\ idea[i] = "TRIGGERED"
  /\ LastNumber(i) < MaxEvents
  /\ \A j \in Ideas : ~IsLive(trade[j])
  /\ \A q \in Sessions \ {s} : ~TradeWritten(q)
  /\ To(s, "commit")
  /\ work' = [work EXCEPT ![s] = [NoWork EXCEPT !.op = "approve", !.idea = i, !.to = Pending,
                                  !.old = "TRIGGERED", !.path = <<"ACTIVE">>, !.seq = LastNumber(i) + 1]]
  /\ UNCHANGED Rows
Reject(s) ==
  LET i == work[s].idea IN
  /\ stage[s] = "decide" /\ "CANCELLED" \in Allowed[idea[i]]
  /\ LastNumber(i) < MaxEvents
  /\ To(s, "commit")
  /\ work' = [work EXCEPT ![s] = [NoWork EXCEPT !.op = "reject", !.idea = i, !.old = idea[i],
                                  !.path = <<"CANCELLED">>, !.seq = LastNumber(i) + 1]]
  /\ UNCHANGED Rows
CloseByOwner(s, i) == IsLive(trade[i]) /\ Begin(s, "flush", Work("close", i, Ended("owner")))

\* Refused, failed or died.
Abort(s) == stage[s] # "idle" /\ GiveUp(s)

Next ==
  \/ \E i \in Ideas : Publish(i)
  \/ \E s \in Sessions :
       \/ \E i \in Ideas : \/ Supervise(s, i) \/ Trigger(s, i) \/ ExpireDecision(s, i)
                           \/ Track(s, i) \/ Repair(s, i) \/ Decide(s, i) \/ CloseByOwner(s, i)
       \/ ReadIdea(s) \/ RepairIdea(s) \/ Flush(s) \/ Number(s) \/ Write(s) \/ Commit(s)
       \/ Approve(s) \/ Reject(s) \/ Abort(s)

Spec == Init /\ [][Next]_vars

-----------------------------------------------------------------------------
TradeRows == [status : {"none", "PENDING", "OPEN", "CLOSED", "CANCELLED"},
              outcome : {"none", "stop", "target", "owner", "unfilled"}]

\* Rows and sessions are well formed, a journal has no gap in its numbers and an instrument at
\* most one live trade (uq_paper_live_per_instrument).
TypeOK ==
  /\ idea \in [Ideas -> Statuses] /\ trade \in [Ideas -> TradeRows] /\ skipped \subseteq Ideas
  /\ \A i \in Ideas : {e.seq : e \in journal[i]} = 1..LastNumber(i)
  /\ \A i, j \in Ideas : IsLive(trade[i]) /\ IsLive(trade[j]) => i = j
  /\ stage \in [Sessions -> {"idle", "decide", "repair", "flush", "idea", "number", "write", "commit"}]
  /\ \A s \in Sessions : stage[s] = "idle" <=> work[s] = NoWork

\* An idea is approved or rejected, never both, however an approval, a rejection and jobs overlap
\* (the lock of the idea's row, api/v1/ideas.py:370).
OneDecision == \A i \in skipped : ~IsTrade(trade[i])

\* The newest event of the journal tells the idea's status, and no number is used twice, whichever
\* stale copies the sessions write (uq_idea_events_sequence and the row's lock).
JournalTellsStatus ==
  \A i \in Ideas : \A e \in journal[i] :
    /\ e.seq = LastNumber(i) => e.new = idea[i]
    /\ \A f \in journal[i] : e.seq = f.seq => e = f

\* "the owner may take a position off himself": a trade he closed is closed for good
\* (api/v1/paper.py:142).
OwnerCloseStands == \A i \in Ideas : trade[i].outcome = "owner" => trade[i].status = "CLOSED"

\* "otherwise the history will hold states the system never was in": every event starts where the
\* one before it ended (journal/lifecycle.py:115).
JournalChains ==
  \A i \in Ideas : \A e, f \in journal[i] : f.seq = e.seq + 1 => f.old = e.new
=============================================================================
