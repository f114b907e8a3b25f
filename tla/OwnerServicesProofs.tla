------------------------- MODULE OwnerServicesProofs -------------------------
(***************************************************************************)
(* Paper trading, the outbox, the enrolment and the exits of a paper       *)
(* trade: each has an inductive invariant over its own actions, and a      *)
(* behavior of the four side by side is a behavior of each.                *)
(***************************************************************************)
EXTENDS OwnerServices, FiniteSetTheorems, NaturalsInduction, WellFoundedInduction, TLAPS

Jobs == {"track", "repair", "close"}
Decisions == {"decide", "approve", "reject"}
Holds(s) == stage[s] = "decide" \/ (stage[s] = "commit" /\ work[s].path # <<>>)

\* A session's copies are a record with these fields, whatever is in them.
IsWork(w) == DOMAIN w = {"op", "idea", "from", "to", "old", "path", "seq"}

Shape ==
  /\ trade = [i \in Ideas |-> trade[i]] /\ skipped \subseteq Ideas
  /\ stage = [s \in Sessions |-> stage[s]]
  /\ work = [s \in Sessions |-> work[s]] /\ \A s \in Sessions : IsWork(work[s])

\* What the copies of a session have to do with the statement it is at.
Copies(s) ==
  /\ work[s].op \in Jobs \cup Decisions \cup {"none", "move"}
  /\ (stage[s] = "idle") = (work[s].op = "none")
  /\ work[s].op # "none" => work[s].idea \in Ideas
  /\ (stage[s] = "decide") = (work[s].op = "decide")
  /\ work[s].op \in {"approve", "reject"} => stage[s] = "commit" /\ work[s].path # <<>>
  /\ work[s].op \in Jobs => IsTrade(work[s].from) /\ IsTrade(work[s].to)
  /\ work[s].op \notin Jobs \cup {"approve"} => work[s].from = work[s].to
  /\ work[s].op = "approve" => work[s].from = NoTrade /\ work[s].to = Pending
  /\ stage[s] = "repair" => work[s].op = "repair"
  /\ stage[s] = "idea" \/ (stage[s] = "flush" /\ work[s].op = "track") => work[s].path = <<>>

\* What a session knows of the rows it has looked at.
Knows(s) ==
  /\ work[s].op \in Jobs => IsTrade(trade[work[s].idea])
  /\ work[s].op \in Decisions => Undecided(work[s].idea)

Alone == \A s, q \in Sessions : Holds(s) /\ Holds(q) /\ work[s].idea = work[q].idea => s = q

IInv == Shape /\ Alone /\ OneDecision /\ \A s \in Sessions : Copies(s) /\ Knows(s)

-----------------------------------------------------------------------------
\* The copies of a session that is idle.
LEMMA NoWorkShape == IsWork(NoWork) /\ NoWork.op = "none" /\ NoWork.from = NoTrade
  /\ NoWork.to = NoTrade
                     /\ NoWork.path = <<>>
  BY DEF IsWork, NoWork

\* No trade, no skip and no session under way: the invariant holds at first.
LEMMA Initial == Init => IInv
<1> SUFFICES ASSUME Init PROVE IInv OBVIOUS
<1>1. Shape BY NoWorkShape DEF Init, Shape
<1>2. Alone BY DEF Init, Alone, Holds
<1>3. OneDecision BY DEF Init, OneDecision
<1>4. ASSUME NEW s \in Sessions PROVE Copies(s) /\ Knows(s)
  BY NoWorkShape DEF Init, Copies, Knows, Jobs, Decisions
<1> QED BY <1>1, <1>2, <1>3, <1>4 DEF IInv

\* A session's own record and stage change, the rows do not.
LEMMA OneMoves ==
  ASSUME IInv, NEW s \in Sessions, NEW g, NEW w,
         stage' = [stage EXCEPT ![s] = g], work' = [work EXCEPT ![s] = w],
         UNCHANGED <<trade, skipped>>,
         IsWork(w), Copies(s)', Knows(s)',
         Holds(s)' => \A q \in Sessions \ {s} : Holds(q) => work[q].idea # w.idea
  PROVE  IInv'
<1> USE DEF IInv
<1>1. /\ stage'[s] = g /\ work'[s] = w
      /\ \A q \in Sessions \ {s} : stage'[q] = stage[q] /\ work'[q] = work[q]
  BY DEF Shape
<1>2. Shape' BY <1>1 DEF Shape
<1>3. OneDecision' BY DEF OneDecision
<1>4. Alone' BY <1>1 DEF Alone, Holds
<1>5. ASSUME NEW q \in Sessions PROVE Copies(q)' /\ Knows(q)'
  <2>1. CASE q = s BY <2>1
  <2>2. CASE q # s
    <3>1. stage'[q] = stage[q] /\ work'[q] = work[q] BY <1>1, <2>2
    <3>2. Copies(q) /\ Knows(q) OBVIOUS
    <3> QED BY <3>1, <3>2 DEF Copies, Knows, Undecided
  <2> QED BY <2>1, <2>2
<1> QED BY <1>2, <1>3, <1>4, <1>5

\* A session that dies or raises lets its row go and changes nothing else.
LEMMA GivesUp ==
  ASSUME IInv, NEW s \in Sessions, GiveUp(s)
  PROVE  IInv'
<1>1. stage' = [stage EXCEPT ![s] = "idle"] /\ work' = [work EXCEPT ![s] = NoWork]
      /\ UNCHANGED <<trade, skipped>>
  BY DEF GiveUp, Finish, To, Rows
<1>2. stage'[s] = "idle" /\ work'[s] = NoWork BY <1>1 DEF IInv, Shape
<1>3. Copies(s)' /\ Knows(s)' BY <1>2, NoWorkShape DEF Copies, Knows, Jobs, Decisions
<1>4. ~Holds(s)' BY <1>2 DEF Holds
<1> QED BY <1>1, <1>3, <1>4, NoWorkShape, OneMoves

\* A session that begins with a copy w.
LEMMA Begins ==
  ASSUME IInv, NEW s \in Sessions, NEW g, NEW w, Begin(s, g, w), IsWork(w),
         Copies(s)', Knows(s)',
         Holds(s)' => \A q \in Sessions \ {s} : Holds(q) => work[q].idea # w.idea
  PROVE  IInv'
<1>1. stage' = [stage EXCEPT ![s] = g] /\ work' = [work EXCEPT ![s] = w]
      /\ UNCHANGED <<trade, skipped>>
  BY DEF Begin, To, Rows
<1> QED BY <1>1, OneMoves

\* What the first statement of a session changes.
LEMMA BeginsAt ==
  ASSUME IInv, NEW s \in Sessions, NEW g, NEW w, Begin(s, g, w)
  PROVE  stage'[s] = g /\ work'[s] = w /\ trade' = trade /\ skipped' = skipped
BY DEF Begin, To, Rows, IInv, Shape

\* The copies of a session that moves an idea.
LEMMA MoveShape ==
  ASSUME NEW i, NEW goal
  PROVE  LET w == Move(i, goal) IN
         IsWork(w) /\ w.op = "move" /\ w.idea = i /\ w.from = w.to
BY DEF Move, NoWork, IsWork

\* The copies of a session that has read a trade.
LEMMA WorkShape ==
  ASSUME NEW op, NEW i, NEW to
  PROVE  LET w == Work(op, i, to) IN
         IsWork(w) /\ w.op = op /\ w.idea = i /\ w.from = trade[i] /\ w.to = to /\ w.path = <<>>
BY DEF Work, NoWork, IsWork

\* A session that only moves an idea decides nothing.
LEMMA MoveBegins ==
  ASSUME IInv, NEW s \in Sessions, NEW i \in Ideas, NEW goal, Begin(s, "number", Move(i, goal))
  PROVE  IInv'
<1>1. stage'[s] = "number" /\ work'[s] = Move(i, goal) BY BeginsAt
<1>2. Copies(s)' /\ Knows(s)' BY <1>1, MoveShape DEF Copies, Knows, Jobs, Decisions
<1>3. ~Holds(s)' BY <1>1 DEF Holds
<1> QED BY <1>2, <1>3, MoveShape, Begins

\* A session that works on a trade has found one.
LEMMA JobBegins ==
  ASSUME IInv, NEW s \in Sessions, NEW i \in Ideas, NEW op \in Jobs, NEW to,
         NEW g \in {"flush", "repair"},
         g = "repair" => op = "repair", IsTrade(trade[i]), IsTrade(to), Begin(s, g, Work(op, i, to))
  PROVE  IInv'
<1>1. stage'[s] = g /\ work'[s] = Work(op, i, to) /\ trade' = trade BY BeginsAt
<1>2. op \notin Decisions \cup {"none", "move"} BY DEF Jobs, Decisions
<1>3. Copies(s)' /\ Knows(s)' BY <1>1, <1>2, WorkShape DEF Copies, Knows, Jobs, Decisions, IsTrade
<1>4. ~Holds(s)' BY <1>1 DEF Holds
<1> QED BY <1>3, <1>4, WorkShape, Begins

-----------------------------------------------------------------------------
\* A trade that is advanced stays a trade.
LEMMA Advances ==
  ASSUME NEW t, IsTrade(t), NEW to \in Advanced(t)
  PROVE  IsTrade(to)
<1>1. CASE to = t BY <1>1
<1>2. CASE to = Opened(t) BY <1>2 DEF Opened, IsTrade
<1>3. CASE to \in {Ended("stop"), Ended("target"), Dropped} BY <1>3 DEF Ended, Dropped, IsTrade
<1> QED BY <1>1, <1>2, <1>3 DEF Advanced

\* Every session but a decision begins with copies that are right.
LEMMA JobsStart ==
  ASSUME IInv, NEW s \in Sessions, NEW i \in Ideas,
         Supervise(s, i) \/ Trigger(s, i) \/ ExpireDecision(s, i) \/ Track(s, i) \/ Repair(s, i)
         \/ CloseByOwner(s, i)
  PROVE  IInv'
<1>1. CASE Supervise(s, i) BY <1>1, MoveBegins DEF Supervise
<1>2. CASE Trigger(s, i) BY <1>2, MoveBegins DEF Trigger
<1>3. CASE ExpireDecision(s, i) BY <1>3, MoveBegins DEF ExpireDecision
<1>4. CASE Track(s, i)
  <2>1. PICK to \in Advanced(trade[i]) : Begin(s, "flush", Work("track", i, to)) BY <1>4 DEF Track
  <2>2. IsTrade(trade[i]) BY <1>4 DEF Track, IsLive, IsTrade
  <2>3. IsTrade(to) BY <2>1, <2>2, Advances
  <2> QED BY <2>1, <2>2, <2>3, JobBegins DEF Jobs
<1>5. CASE Repair(s, i) BY <1>5, JobBegins DEF Repair, Jobs
<1>6. CASE CloseByOwner(s, i)
  <2>1. IsTrade(trade[i]) /\ IsTrade(Ended("owner"))
    BY <1>6 DEF CloseByOwner, IsLive, IsTrade, Ended
  <2> QED BY <1>6, <2>1, JobBegins DEF CloseByOwner, Jobs
<1> QED BY <1>1, <1>2, <1>3, <1>4, <1>5, <1>6

\* A decision begins by taking the row of an idea that is neither a trade nor skipped; nobody else
\* holds it.
LEMMA DecisionStarts ==
  ASSUME IInv, NEW s \in Sessions, NEW i \in Ideas, Decide(s, i)
  PROVE  IInv'
<1> DEFINE w == [NoWork EXCEPT !.op = "decide", !.idea = i]
<1>1. IsWork(w) /\ w.op = "decide" /\ w.idea = i /\ w.from = NoTrade /\ w.to = NoTrade /\ w.path = <<>>
  BY DEF NoWork, IsWork
<1>2. Begin(s, "decide", w) BY DEF Decide
<1>3. stage'[s] = "decide" /\ work'[s] = w /\ trade' = trade /\ skipped' = skipped BY <1>2, BeginsAt
<1>4. Undecided(i)' BY <1>3 DEF Decide, Undecided
<1>5. Copies(s)' /\ Knows(s)' BY <1>1, <1>3, <1>4 DEF Copies, Knows, Jobs, Decisions
<1>6. \A q \in Sessions \ {s} : Holds(q) => work[q].idea # w.idea
  BY <1>1 DEF Decide, IdeaFree, Holds
<1> HIDE DEF w
<1> QED BY <1>1, <1>2, <1>5, <1>6, Begins

-----------------------------------------------------------------------------
\* A session goes on: its operation and its idea stay, and it does not come to hold the row, or it
\* does while nobody else holds it.
LEMMA GoesOn ==
  ASSUME IInv, NEW s \in Sessions, NEW g \in {"flush", "idea", "number", "write", "commit"}, NEW w,
         stage' = [stage EXCEPT ![s] = g], work' = [work EXCEPT ![s] = w],
         UNCHANGED <<trade, skipped>>,
         work[s].op \in Jobs \cup {"move"},
         IsWork(w), w.op = work[s].op, w.idea = work[s].idea, w.from = work[s].from,
         w.to = work[s].to \/ (w.op \in Jobs /\ IsTrade(w.to)),
         g = "idea" \/ (g = "flush" /\ w.op = "track") => w.path = <<>>,
         g = "commit" => w.path = <<>> \/ IdeaFree(s, w.idea)
  PROVE  IInv'
<1>1. stage'[s] = g /\ work'[s] = w BY DEF IInv, Shape
<1>2. w.op \in Jobs \cup {"move"} /\ w.op \notin Decisions \cup {"none"} BY DEF Jobs, Decisions
<1>3. Copies(s) /\ Knows(s) BY DEF IInv
<1>4. Copies(s)'
  <2>1. w.op \in Jobs => IsTrade(w.from) /\ IsTrade(w.to) BY <1>3 DEF Copies
  <2>2. w.op \notin Jobs \cup {"approve"} => w.from = w.to BY <1>3 DEF Copies
  <2>3. w.idea \in Ideas BY <1>2, <1>3 DEF Copies
  <2> QED BY <1>1, <1>2, <2>1, <2>2, <2>3 DEF Copies, Decisions, IsTrade
<1>5. Knows(s)' BY <1>1, <1>2, <1>3 DEF Knows, IsTrade
<1>6. Holds(s)' => \A q \in Sessions \ {s} : Holds(q) => work[q].idea # w.idea
  BY <1>1 DEF Holds, IdeaFree
<1> QED BY <1>4, <1>5, <1>6, OneMoves

\* The second look at the idea of a trade.
LEMMA ReadsIdea ==
  ASSUME IInv, NEW s \in Sessions, ReadIdea(s)
  PROVE  IInv'
<1> DEFINE old == idea[work[s].idea]
<1>1. IsWork(work[s]) /\ work[s].op = "track" /\ work[s].path = <<>> /\ UNCHANGED <<trade, skipped>>
  BY DEF ReadIdea, IInv, Shape, Copies, Rows
<1>2. CASE /\ work' = [work EXCEPT ![s].old = old]
           /\ stage' = [stage EXCEPT ![s] = "commit"]
  <2> DEFINE w == [work[s] EXCEPT !.old = old]
  <2>1. work' = [work EXCEPT ![s] = w] BY <1>2
  <2>2. IsWork(w) /\ w.op = work[s].op /\ w.idea = work[s].idea /\ w.from = work[s].from
        /\ w.to = work[s].to /\ w.path = <<>>
    BY <1>1 DEF IsWork
  <2> HIDE DEF w
  <2> QED BY <1>1, <1>2, <2>1, <2>2, GoesOn DEF Jobs
<1>3. CASE \E p : /\ work' = [work EXCEPT ![s].old = old, ![s].path = p]
                  /\ stage' = [stage EXCEPT ![s] = "number"]
  <2>1. PICK p : /\ work' = [work EXCEPT ![s].old = old, ![s].path = p]
                 /\ stage' = [stage EXCEPT ![s] = "number"]
    BY <1>3
  <2> DEFINE w == [work[s] EXCEPT !.old = old, !.path = p]
  <2>2. work' = [work EXCEPT ![s] = w] BY <2>1 DEF IInv, Shape
  <2>3. IsWork(w) /\ w.op = work[s].op /\ w.idea = work[s].idea /\ w.from = work[s].from
        /\ w.to = work[s].to
    BY <1>1 DEF IsWork
  <2> HIDE DEF w
  <2> QED BY <1>1, <2>1, <2>2, <2>3, GoesOn DEF Jobs
<1> QED BY <1>2, <1>3 DEF ReadIdea, Goes, To

\* The look of the repair at the idea of a trade.
LEMMA RepairsIdea ==
  ASSUME IInv, NEW s \in Sessions, RepairIdea(s)
  PROVE  IInv'
<1> DEFINE old == idea[work[s].idea]
<1>1. /\ IsWork(work[s]) /\ UNCHANGED <<trade, skipped>>
      /\ work[s].op = "repair" /\ IsTrade(work[s].from)
      /\ stage' = [stage EXCEPT ![s] = "flush"]
  BY DEF RepairIdea, IInv, Shape, Copies, Rows, To, Jobs
<1> DEFINE w0 == work[s]
           found == {<<w0.from, RepairGoal(w0.from, old)>>} \cup
                    IF w0.from = Pending THEN {<<Dropped, goal>> : goal \in RepairPending(old)} ELSE {}
<1>2. \E to \in {w0.from, Dropped} : \E p :
        work' = [work EXCEPT ![s].to = to, ![s].old = old, ![s].path = p]
  <2>1. PICK r \in found : \E p :
          work' = [work EXCEPT ![s].to = r[1], ![s].old = old, ![s].path = p]
    BY DEF RepairIdea
  <2>2. r[1] \in {w0.from, Dropped}
    <3>1. CASE r = <<w0.from, RepairGoal(w0.from, old)>> BY <3>1
    <3>2. CASE \E goal \in RepairPending(old) : r = <<Dropped, goal>> BY <3>2
    <3> QED BY <3>1, <3>2
  <2> QED BY <2>1, <2>2
<1>a. PICK to \in {work[s].from, Dropped} : \E p :
        work' = [work EXCEPT ![s].to = to, ![s].old = old, ![s].path = p]
  BY <1>2
<1>3. PICK p : work' = [work EXCEPT ![s].to = to, ![s].old = old, ![s].path = p]
  BY <1>a
<1> DEFINE w == [work[s] EXCEPT !.to = to, !.old = old, !.path = p]
<1>4. work' = [work EXCEPT ![s] = w] BY <1>3 DEF IInv, Shape
<1>5. IsWork(w) /\ w.op = work[s].op /\ w.idea = work[s].idea /\ w.from = work[s].from /\ w.to = to
  BY <1>1 DEF IsWork
<1>6. IsTrade(to) BY <1>1 DEF IsTrade, Dropped
<1> HIDE DEF w
<1> QED BY <1>1, <1>4, <1>5, <1>6, GoesOn DEF Jobs

-----------------------------------------------------------------------------
\* Whoever has not come to the commit is no decision.
LEMMA UnderWay ==
  ASSUME IInv, NEW s \in Sessions, stage[s] \in {"flush", "idea", "number", "write"}
  PROVE  work[s].op \in Jobs \cup {"move"} /\ IsWork(work[s])
BY DEF IInv, Shape, Copies, Decisions

\* The write of a trade to its row, before the commit.
LEMMA Flushes ==
  ASSUME IInv, NEW s \in Sessions, Flush(s)
  PROVE  IInv'
<1>1. CASE GiveUp(s) BY <1>1, GivesUp
<1>2. CASE To(s, AfterFlush(s)) /\ UNCHANGED <<Rows, work>>
  <2>1. work[s].op \in Jobs \cup {"move"} /\ IsWork(work[s]) BY UnderWay DEF Flush
  <2>2. stage' = [stage EXCEPT ![s] = AfterFlush(s)] /\ UNCHANGED <<trade, skipped>>
        /\ work' = [work EXCEPT ![s] = work[s]]
    BY <1>2 DEF To, Rows, IInv, Shape
  <2>3. /\ AfterFlush(s) \in {"idea", "number", "commit"}
        /\ AfterFlush(s) \in {"idea", "commit"} => work[s].path = <<>>
    BY DEF AfterFlush, Flush, IInv, Copies
  <2> QED BY <2>1, <2>2, <2>3, GoesOn
<1> QED BY <1>1, <1>2 DEF Flush

\* The look for the next number of the journal.
LEMMA Numbers ==
  ASSUME IInv, NEW s \in Sessions, Number(s)
  PROVE  IInv'
<1> DEFINE w == [work[s] EXCEPT !.seq = LastNumber(work[s].idea) + 1]
<1>1. work[s].op \in Jobs \cup {"move"} /\ IsWork(work[s]) BY UnderWay DEF Number
<1>2. stage' = [stage EXCEPT ![s] = "write"] /\ UNCHANGED <<trade, skipped>>
      /\ work' = [work EXCEPT ![s] = w]
  BY DEF Number, To, Rows
<1>3. IsWork(w) /\ w.op = work[s].op /\ w.idea = work[s].idea /\ w.from = work[s].from
      /\ w.to = work[s].to
  BY <1>1 DEF IsWork
<1> HIDE DEF w
<1> QED BY <1>1, <1>2, <1>3, GoesOn

\* The insert into the journal, refused when the number is taken.
LEMMA Writes ==
  ASSUME IInv, NEW s \in Sessions, Write(s)
  PROVE  IInv'
<1>1. CASE GiveUp(s) BY <1>1, GivesUp
<1>2. CASE To(s, "commit") /\ UNCHANGED <<Rows, work>>
  <2>1. work[s].op \in Jobs \cup {"move"} /\ IsWork(work[s]) BY UnderWay DEF Write
  <2>2. stage' = [stage EXCEPT ![s] = "commit"] /\ UNCHANGED <<trade, skipped>>
        /\ work' = [work EXCEPT ![s] = work[s]]
    BY <1>2 DEF To, Rows, IInv, Shape
  <2> QED BY <2>1, <2>2, GoesOn DEF Write
<1> QED BY <1>1, <1>2 DEF Write

-----------------------------------------------------------------------------
\* The owner's verdict: the session keeps the row it holds.
LEMMA Decided ==
  ASSUME IInv, NEW s \in Sessions, NEW w, stage[s] = "decide",
         stage' = [stage EXCEPT ![s] = "commit"], work' = [work EXCEPT ![s] = w],
         UNCHANGED <<trade, skipped>>,
         IsWork(w), w.op \in {"approve", "reject"}, w.idea = work[s].idea, w.path # <<>>,
         w.op = "approve" => w.from = NoTrade /\ w.to = Pending,
         w.op = "reject" => w.from = w.to
  PROVE  IInv'
<1>1. stage'[s] = "commit" /\ work'[s] = w BY DEF IInv, Shape
<1>2. Copies(s) /\ Knows(s) BY DEF IInv
<1>3. Copies(s)' BY <1>1, <1>2 DEF Copies, Jobs, Decisions
<1>4. Knows(s)' BY <1>1, <1>2 DEF Knows, Copies, Jobs, Decisions, Undecided
<1>5. \A q \in Sessions \ {s} : Holds(q) => work[q].idea # w.idea BY DEF IInv, Alone, Holds
<1> QED BY <1>3, <1>4, <1>5, OneMoves

Approval(i, seq) ==
  [NoWork EXCEPT !.op = "approve", !.idea = i, !.to = Pending, !.old = "TRIGGERED",
                 !.path = <<"ACTIVE">>, !.seq = seq]
Rejection(i, old, seq) ==
  [NoWork EXCEPT !.op = "reject", !.idea = i, !.old = old, !.path = <<"CANCELLED">>, !.seq = seq]

\* The copies of an approval.
LEMMA ApprovalShape ==
  ASSUME NEW i, NEW seq
  PROVE  LET w == Approval(i, seq) IN
         /\ IsWork(w) /\ w.op = "approve" /\ w.idea = i /\ w.from = NoTrade /\ w.to = Pending
         /\ w.path # <<>>
<1>1. <<"ACTIVE">> # <<>> OBVIOUS
<1>2. ASSUME NEW way, way # <<>>
      PROVE  LET w == [NoWork EXCEPT !.op = "approve", !.idea = i, !.to = Pending,
                                     !.old = "TRIGGERED", !.path = way, !.seq = seq] IN
             /\ IsWork(w) /\ w.op = "approve" /\ w.idea = i /\ w.from = NoTrade /\ w.to = Pending
             /\ w.path # <<>>
  BY <1>2 DEF NoWork, IsWork
<1> QED BY <1>1, <1>2 DEF Approval

\* The copies of a rejection.
LEMMA RejectionShape ==
  ASSUME NEW i, NEW old, NEW seq
  PROVE  LET w == Rejection(i, old, seq) IN
         IsWork(w) /\ w.op = "reject" /\ w.idea = i /\ w.from = w.to /\ w.path # <<>>
<1>1. <<"CANCELLED">> # <<>> OBVIOUS
<1>2. ASSUME NEW way, way # <<>>
      PROVE  LET w == [NoWork EXCEPT !.op = "reject", !.idea = i, !.old = old, !.path = way,
                                     !.seq = seq] IN
             IsWork(w) /\ w.op = "reject" /\ w.idea = i /\ w.from = w.to /\ w.path # <<>>
  BY <1>2 DEF NoWork, IsWork
<1> QED BY <1>1, <1>2 DEF Rejection

\* An approval goes on to the commit with the row it holds.
LEMMA Approves ==
  ASSUME IInv, NEW s \in Sessions, Approve(s)
  PROVE  IInv'
<1> DEFINE w == Approval(work[s].idea, LastNumber(work[s].idea) + 1)
<1>1. stage[s] = "decide" /\ stage' = [stage EXCEPT ![s] = "commit"] /\ UNCHANGED <<trade, skipped>>
      /\ work' = [work EXCEPT ![s] = w]
  BY DEF Approve, Approval, To, Rows
<1>2. /\ IsWork(w) /\ w.op = "approve" /\ w.idea = work[s].idea /\ w.from = NoTrade
      /\ w.to = Pending /\ w.path # <<>>
  BY ApprovalShape
<1> HIDE DEF w
<1> QED BY <1>1, <1>2, Decided

\* A rejection goes on to the commit with the row it holds.
LEMMA Rejects ==
  ASSUME IInv, NEW s \in Sessions, Reject(s)
  PROVE  IInv'
<1> DEFINE w == Rejection(work[s].idea, idea[work[s].idea], LastNumber(work[s].idea) + 1)
<1>1. stage[s] = "decide" /\ stage' = [stage EXCEPT ![s] = "commit"] /\ UNCHANGED <<trade, skipped>>
      /\ work' = [work EXCEPT ![s] = w]
  BY DEF Reject, Rejection, To, Rows
<1>2. IsWork(w) /\ w.op = "reject" /\ w.idea = work[s].idea /\ w.from = w.to /\ w.path # <<>>
  BY RejectionShape
<1> HIDE DEF w
<1> QED BY <1>1, <1>2, Decided

-----------------------------------------------------------------------------
\* The commit of a session whose copy is c, on the row of the idea it works on.
LEMMA CommitRows ==
  ASSUME IInv, NEW s \in Sessions, Commit(s)
  PROVE  /\ stage'[s] = "idle" /\ work'[s] = NoWork
         /\ \A q \in Sessions \ {s} : stage'[q] = stage[q] /\ work'[q] = work[q]
         /\ \A i \in Ideas \ {work[s].idea} : trade'[i] = trade[i]
         /\ work[s].idea \in Ideas =>
              trade'[work[s].idea] = IF Changes(s) THEN Written(s, trade[work[s].idea])
                                                   ELSE trade[work[s].idea]
         /\ skipped' = IF work[s].op = "reject" THEN skipped \cup {work[s].idea} ELSE skipped
         /\ Shape'
<1> USE DEF IInv, Shape
<1>1. stage' = [stage EXCEPT ![s] = "idle"] /\ work' = [work EXCEPT ![s] = NoWork]
  BY DEF Commit, Finish, To
<1>2. trade' = [trade EXCEPT ![work[s].idea] = IF Changes(s) THEN Written(s, trade[work[s].idea])
                                                             ELSE trade[work[s].idea]]
  BY DEF Commit
<1>3. trade' = [i \in Ideas |-> trade'[i]] BY <1>2
<1>4. skipped' = IF work[s].op = "reject" THEN skipped \cup {work[s].idea} ELSE skipped
  BY DEF Commit
<1>5. skipped' \subseteq Ideas BY <1>4 DEF Copies, Decisions
<1>6. Shape' BY <1>1, <1>3, <1>5, NoWorkShape
<1> QED BY <1>1, <1>2, <1>4, <1>6

\* What a commit does to the trade of the idea, by the operation.
LEMMA CommitTrade ==
  ASSUME IInv, NEW s \in Sessions, Commit(s)
  PROVE  LET i == work[s].idea IN
         /\ i \in Ideas
         /\ work[s].op \in Jobs => IsTrade(trade[i]) /\ IsTrade(trade'[i])
         /\ work[s].op \in {"move", "reject"} => trade'[i] = trade[i]
         /\ work[s].op \in {"approve", "reject"} => Undecided(i) /\ Holds(s)
         /\ work[s].op \in Jobs \cup {"move", "approve", "reject"}
<1> DEFINE i == work[s].idea
<1>1. Copies(s) /\ Knows(s) /\ stage[s] = "commit" BY DEF IInv, Commit
<1>2. i \in Ideas /\ work[s].op \in Jobs \cup {"move", "approve", "reject"}
  BY <1>1 DEF Copies, Decisions
<1>3. trade'[i] = IF Changes(s) THEN Written(s, trade[i]) ELSE trade[i] BY <1>2, CommitRows
<1>4. ASSUME work[s].op \in Jobs PROVE IsTrade(trade[i]) /\ IsTrade(trade'[i])
  <2>1. IsTrade(trade[i]) /\ IsTrade(work[s].to) BY <1>1, <1>4 DEF Knows, Copies
  <2>2. IsTrade(Written(s, trade[i])) BY <2>1 DEF Written, IsTrade
  <2> QED BY <1>3, <2>1, <2>2
<1>5. ASSUME work[s].op \in {"move", "reject"} PROVE trade'[i] = trade[i]
  <2>1. ~Changes(s) BY <1>1, <1>5 DEF Copies, Jobs, Changes
  <2> QED BY <1>3, <2>1
<1>6. ASSUME work[s].op \in {"approve", "reject"} PROVE Undecided(i) /\ Holds(s)
  BY <1>1, <1>6 DEF Knows, Copies, Decisions, Holds
<1> QED BY <1>2, <1>4, <1>5, <1>6

\* The commit: whoever writes a trade or a skip held the undecided row or found a trade there.
LEMMA Commits ==
  ASSUME IInv, NEW s \in Sessions, Commit(s)
  PROVE  IInv'
<1> DEFINE i == work[s].idea
<1>1. Shape' BY CommitRows
<1>2. Alone' BY CommitRows DEF IInv, Alone, Holds
<1>3. OneDecision'
  <2> SUFFICES ASSUME NEW j \in skipped' PROVE ~IsTrade(trade'[j])
    BY DEF OneDecision, IsTrade
  <2>1. CASE j \in skipped
    <3>1. ~IsTrade(trade[j]) /\ j \in Ideas BY <2>1 DEF IInv, OneDecision, Shape
    <3>2. CASE j # i BY <3>1, <3>2, CommitRows
    <3>3. CASE j = i BY <2>1, <3>1, <3>3, CommitTrade DEF Undecided, Jobs
    <3> QED BY <3>2, <3>3
  <2>2. CASE j \notin skipped
    <3>1. j = i /\ work[s].op = "reject" BY <2>2, CommitRows
    <3> QED BY <3>1, CommitTrade DEF Undecided
  <2> QED BY <2>1, <2>2
<1>4. ASSUME NEW q \in Sessions PROVE Copies(q)' /\ Knows(q)'
  <2>1. CASE q = s
    BY <2>1, CommitRows, NoWorkShape DEF Copies, Knows, Jobs, Decisions
  <2>2. CASE q # s
    <3>1. stage'[q] = stage[q] /\ work'[q] = work[q] BY <2>2, CommitRows
    <3>2. Copies(q) /\ Knows(q) BY DEF IInv
    <3>3. Copies(q)' BY <3>1, <3>2 DEF Copies
    <3>4. ASSUME work[q].op \in Jobs PROVE IsTrade(trade'[work[q].idea])
      <4>1. IsTrade(trade[work[q].idea]) /\ work[q].idea \in Ideas
        BY <3>2, <3>4 DEF Knows, Copies, Jobs
      <4>2. CASE work[q].idea # i BY <4>1, <4>2, CommitRows
      <4>3. CASE work[q].idea = i BY <4>1, <4>3, CommitTrade DEF Undecided
      <4> QED BY <4>2, <4>3
    <3>5. ASSUME work[q].op \in Decisions PROVE Undecided(work[q].idea)'
      <4>1. Undecided(work[q].idea) /\ work[q].idea \in Ideas /\ Holds(q)
        BY <3>2, <3>5 DEF Knows, Copies, Decisions, Holds
      <4>2. CASE work[q].idea # i
        BY <3>1, <4>1, <4>2, CommitRows DEF Undecided
      <4>3. CASE work[q].idea = i
        <5>1. work[s].op \notin {"approve", "reject"}
          BY <2>2, <4>1, <4>3, CommitTrade DEF IInv, Alone
        <5>2. work[s].op \notin Jobs BY <4>1, <4>3, CommitTrade DEF Undecided
        <5>3. trade'[i] = trade[i] /\ skipped' = skipped BY <5>1, <5>2, CommitTrade, CommitRows
        <5> QED BY <3>1, <4>1, <4>3, <5>3 DEF Undecided
      <4> QED BY <4>2, <4>3
    <3> QED BY <3>1, <3>3, <3>4, <3>5 DEF Knows
  <2> QED BY <2>1, <2>2
<1> QED BY <1>1, <1>2, <1>3, <1>4 DEF IInv

-----------------------------------------------------------------------------
\* Steps that touch nothing the invariant speaks of.
LEMMA Untouched ==
  ASSUME IInv, UNCHANGED <<trade, skipped, stage, work>>
  PROVE  IInv'
<1>1. Shape' BY DEF IInv, Shape
<1>2. Alone' BY DEF IInv, Alone, Holds
<1>3. OneDecision' BY DEF IInv, OneDecision
<1>4. ASSUME NEW s \in Sessions PROVE Copies(s)' /\ Knows(s)'
  BY DEF IInv, Copies, Knows, Undecided
<1> QED BY <1>1, <1>2, <1>3, <1>4 DEF IInv

\* Every step preserves the invariant of decisions.
LEMMA Step ==
  ASSUME IInv, [Next]_vars
  PROVE  IInv'
<1>1. CASE UNCHANGED vars BY <1>1, Untouched DEF vars
<1>2. CASE \E i \in Ideas : Publish(i) BY <1>2, Untouched DEF Publish
<1>3. ASSUME NEW s \in Sessions, NEW i \in Ideas,
             \/ Supervise(s, i) \/ Trigger(s, i) \/ ExpireDecision(s, i)
             \/ Track(s, i) \/ Repair(s, i) \/ CloseByOwner(s, i) \/ Decide(s, i)
      PROVE  IInv'
  BY <1>3, JobsStart, DecisionStarts
<1>4. ASSUME NEW s \in Sessions,
             \/ ReadIdea(s) \/ RepairIdea(s) \/ Flush(s) \/ Number(s) \/ Write(s)
      PROVE  IInv'
  BY <1>4, ReadsIdea, RepairsIdea, Flushes, Numbers, Writes
<1>5. ASSUME NEW s \in Sessions, Commit(s) \/ Approve(s) \/ Reject(s) \/ Abort(s)
      PROVE  IInv'
  BY <1>5, Commits, Approves, Rejects, GivesUp DEF Abort
<1> QED BY <1>1, <1>2, <1>3, <1>4, <1>5 DEF Next

\* An idea with a skip never has a trade, in every interleaving of any number of sessions: the
\* decisions of api/v1/ideas.py against the jobs and each other.
THEOREM DecidedOnceOnly == Spec => []OneDecision
<1>1. IInv => OneDecision BY DEF IInv
<1> QED BY <1>1, Initial, Step, PTL DEF Spec

-----------------------------------------------------------------------------
NumbersOf(i) == {e.seq : e \in journal[i]}

\* A way ends in a status an idea can have.
IsPath(p) == Len(p) \in Nat /\ (p # <<>> => Len(p) > 0 /\ p[Len(p)] \in Statuses \ {"none"})

\* A journal has no gap and no number twice, its newest event tells the idea's status.
JournalOf(i) ==
  /\ LastNumber(i) \in Nat /\ NumbersOf(i) = 1..LastNumber(i)
  /\ \A e, f \in journal[i] : e.seq = f.seq => e = f
  /\ \A e \in journal[i] : e.seq = LastNumber(i) => e.new = idea[i]
  /\ IsTrade(trade[i]) => idea[i] # "none"

AllStages == {"idle", "decide", "repair", "flush", "idea", "number", "write", "commit"}

\* What a session will write: a way, a trade, and numbers that follow the journal's.
WritesWell(s) ==
  /\ stage[s] \in AllStages
  /\ stage[s] = "idle" => work[s] = NoWork
  /\ IsPath(work[s].path) /\ work[s].to \in TradeRows
  /\ Changes(s) => work[s].from.status # work[s].to.status /\ stage[s] # "repair"
  /\ work[s].op # "none" => idea[work[s].idea] # "none"
  /\ stage[s] = "write" => work[s].seq \in 1..(LastNumber(work[s].idea) + 1)
  /\ stage[s] = "commit" /\ work[s].path # <<>> => work[s].seq = LastNumber(work[s].idea) + 1

\* A session that has written a live trade: nobody else has, and no other trade is live.
Puts(s) == TradeWritten(s) /\ IsLive(work[s].to)
OneLive == \A i, j \in Ideas : IsLive(trade[i]) /\ IsLive(trade[j]) => i = j
Sole(s) == /\ \A j \in Ideas \ {work[s].idea} : ~IsLive(trade[j])
           /\ \A q \in Sessions \ {s} : ~Puts(q)

JInv ==
  /\ idea \in [Ideas -> Statuses] /\ trade \in [Ideas -> TradeRows]
  /\ journal = [i \in Ideas |-> journal[i]]
  /\ \A i \in Ideas : JournalOf(i)
  /\ \A s \in Sessions : WritesWell(s)
  /\ OneLive /\ \A s \in Sessions : Puts(s) => Sole(s)

-----------------------------------------------------------------------------
\* The greatest of the numbers up to n.
LEMMA MaxUpTo == ASSUME NEW n \in Nat PROVE Max((1..n) \cup {0}) = n
<1> DEFINE S == (1..n) \cup {0}
<1>1. n \in S /\ \A y \in S : n >= y OBVIOUS
<1>2. ASSUME NEW x \in S, \A y \in S : x >= y PROVE x = n BY <1>1, <1>2
<1>3. Max(S) = CHOOSE x \in S : \A y \in S : x >= y BY DEF Max
<1> QED BY <1>1, <1>2, <1>3

\* The numbers of the events appended to a journal.
LEMMA EventNumbers ==
  ASSUME NEW old, NEW way, NEW n \in Nat, Len(way) \in Nat
  PROVE  LET new == Events(old, way, n + 1) IN
         /\ \A e \in new : e.seq \in (n + 1)..(n + Len(way))
         /\ \A k \in (n + 1)..(n + Len(way)) : \E e \in new : e.seq = k
         /\ \A e, f \in new : e.seq = f.seq => e = f
         /\ \A e \in new : e.seq = n + Len(way) => e.new = way[Len(way)]
<1> DEFINE new == Events(old, way, n + 1)
           At(k) == [seq |-> n + 1 + k - 1, old |-> IF k = 1 THEN old ELSE way[k - 1], new |-> way[k]]
<1>1. new = {At(k) : k \in 1..Len(way)} BY DEF Events
<1>2. \A k \in 1..Len(way) : At(k).seq = n + k /\ At(k).new = way[k] OBVIOUS
<1> HIDE DEF At
<1>3. \A e \in new : \E k \in 1..Len(way) : e = At(k) BY <1>1
<1>4. \A k \in 1..Len(way) : At(k) \in new BY <1>1
<1> HIDE DEF new
<1>5. \A e \in new : e.seq \in (n + 1)..(n + Len(way)) BY <1>2, <1>3
<1>6. ASSUME NEW k \in (n + 1)..(n + Len(way)) PROVE \E e \in new : e.seq = k
  <2>1. k - n \in 1..Len(way) OBVIOUS
  <2>2. At(k - n).seq = k BY <2>1, <1>2
  <2> QED BY <2>1, <2>2, <1>4
<1>7. ASSUME NEW e \in new, NEW f \in new, e.seq = f.seq PROVE e = f BY <1>2, <1>3, <1>7
<1>8. ASSUME NEW e \in new, e.seq = n + Len(way) PROVE e.new = way[Len(way)]
  BY <1>2, <1>3, <1>8
<1>9. new = Events(old, way, n + 1) BY DEF new
<1> QED BY <1>5, <1>6, <1>7, <1>8, <1>9

\* The last number of a journal without gaps.
LEMMA NumbersUpTo ==
  ASSUME NEW i, NEW n \in Nat, NumbersOf(i) = 1..n
  PROVE  LastNumber(i) = n
BY MaxUpTo DEF NumbersOf, LastNumber
\* The same of the state after a step.
LEMMA NumbersUpToNext ==
  ASSUME NEW i, NEW n \in Nat, NumbersOf(i)' = 1..n
  PROVE  LastNumber(i)' = n
BY MaxUpTo DEF NumbersOf, LastNumber

\* A journal that grew by the events of a way.
LEMMA JournalGrows ==
  ASSUME NEW i \in Ideas, JournalOf(i), NEW old, NEW way, IsPath(way),
         journal'[i] = journal[i] \cup Events(old, way, LastNumber(i) + 1),
         idea'[i] = IF way # <<>> THEN way[Len(way)] ELSE idea[i],
         IsTrade(trade'[i]) => idea'[i] # "none", way = <<>> => Len(way) = 0
  PROVE  JournalOf(i)' /\ LastNumber(i)' = LastNumber(i) + Len(way)
<1> DEFINE n == LastNumber(i)
           k == Len(way)
           new == Events(old, way, n + 1)
<1>1. n \in Nat /\ k \in Nat /\ NumbersOf(i) = 1..n BY DEF JournalOf, IsPath
<1>2. /\ \A e \in new : e.seq \in (n + 1)..(n + k)
      /\ \A m \in (n + 1)..(n + k) : \E e \in new : e.seq = m
      /\ \A e, f \in new : e.seq = f.seq => e = f
      /\ \A e \in new : e.seq = n + k => e.new = way[k]
  BY <1>1, EventNumbers
<1>3. journal'[i] = journal[i] \cup new OBVIOUS
<1>a. \A e \in journal[i] : e.seq \in 1..n BY <1>1 DEF NumbersOf
<1>b. \A m \in 1..n : \E e \in journal[i] : e.seq = m BY <1>1 DEF NumbersOf
<1> HIDE DEF n, k, new
<1>4. NumbersOf(i)' = 1..(n + k)
  <2>1. ASSUME NEW m \in 1..(n + k) PROVE \E e \in journal'[i] : e.seq = m
    BY <1>1, <1>2, <1>3, <1>b
  <2>2. ASSUME NEW e \in journal'[i] PROVE e.seq \in 1..(n + k) BY <1>1, <1>2, <1>3, <1>a
  <2> QED BY <2>1, <2>2 DEF NumbersOf
<1>5. LastNumber(i)' = n + k BY <1>1, <1>4, NumbersUpToNext
<1>6. ASSUME NEW e \in journal'[i], NEW f \in journal'[i], e.seq = f.seq PROVE e = f
  <2>1. CASE e \in journal[i] /\ f \in journal[i] BY <1>6, <2>1 DEF JournalOf
  <2>2. CASE e \in new /\ f \in new BY <1>2, <1>6, <2>2
  <2>3. CASE (e \in journal[i] /\ f \in new) \/ (e \in new /\ f \in journal[i])
    BY <1>1, <1>2, <1>a, <1>6, <2>3
  <2> QED BY <1>3, <2>1, <2>2, <2>3
<1>7. ASSUME NEW e \in journal'[i], e.seq = n + k PROVE e.new = idea'[i]
  <2>1. CASE way # <<>>
    <3>1. k > 0 /\ idea'[i] = way[k] BY <2>1 DEF IsPath, k
    <3>2. e \in new BY <1>1, <1>3, <1>a, <1>7, <3>1
    <3> QED BY <1>2, <1>7, <3>1, <3>2
  <2>2. CASE way = <<>>
    <3>1. k = 0 BY <2>2 DEF k
    <3>2. e \in journal[i] BY <1>1, <1>2, <1>3, <3>1
    <3> QED BY <1>1, <1>7, <2>2, <3>1, <3>2 DEF JournalOf, n
  <2> QED BY <2>1, <2>2
<1>8. n + k \in Nat BY <1>1
<1>9. JournalOf(i)'
  BY <1>4, <1>5, <1>6, <1>7, <1>8 DEF JournalOf, IsTrade
<1> QED BY <1>5, <1>9 DEF n, k
-----------------------------------------------------------------------------
\* No idea is published at first.
LEMMA InitialRows == Init => JInv
<1> SUFFICES ASSUME Init PROVE JInv OBVIOUS
<1>1. ASSUME NEW i \in Ideas PROVE JournalOf(i)
  <2>1. NumbersOf(i) = 1..0 BY DEF Init, NumbersOf
  <2>2. LastNumber(i) = 0 BY <2>1, NumbersUpTo
  <2> QED BY <2>1, <2>2 DEF Init, JournalOf, NoTrade, IsTrade
<1>2. ASSUME NEW s \in Sessions PROVE WritesWell(s) /\ ~Puts(s)
  <2>1. stage[s] = "idle" /\ work[s] = NoWork BY DEF Init
  <2>2. IsPath(NoWork.path) /\ NoWork.to \in TradeRows /\ NoWork.op = "none" /\ NoWork.from = NoWork.to
    BY DEF NoWork, IsPath, NoTrade, TradeRows
  <2> QED BY <2>1, <2>2 DEF WritesWell, Puts, TradeWritten, Changes, AllStages
<1>3. OneLive BY DEF Init, OneLive, IsLive, NoTrade
<1>4. idea \in [Ideas -> Statuses] /\ trade \in [Ideas -> TradeRows]
      /\ journal = [i \in Ideas |-> journal[i]]
  BY DEF Init, Statuses, TradeRows, NoTrade
<1> QED BY <1>1, <1>2, <1>3, <1>4 DEF JInv

\* A session moves and writes no row.
LEMMA SessionMoves ==
  ASSUME Shape, JInv, NEW s \in Sessions, NEW g, NEW w,
         stage' = [stage EXCEPT ![s] = g], work' = [work EXCEPT ![s] = w],
         UNCHANGED <<idea, trade, journal>>,
         WritesWell(s)', 
         Puts(s)' => Sole(s)'
  PROVE  JInv'
<1>1. /\ stage'[s] = g /\ work'[s] = w
      /\ \A q \in Sessions \ {s} : stage'[q] = stage[q] /\ work'[q] = work[q]
  BY DEF Shape
<1>2. \A i \in Ideas : JournalOf(i)' BY DEF JInv, JournalOf, NumbersOf, LastNumber, IsTrade
<1>3. ASSUME NEW q \in Sessions PROVE WritesWell(q)'
  <2>1. CASE q = s BY <2>1
  <2>2. CASE q # s
    <3>1. stage'[q] = stage[q] /\ work'[q] = work[q] BY <1>1, <2>2
    <3>2. WritesWell(q) BY DEF JInv
    <3> QED BY <3>1, <3>2 DEF WritesWell, Changes, LastNumber
  <2> QED BY <2>1, <2>2
<1>4. ASSUME NEW q \in Sessions, Puts(q)' PROVE Sole(q)'
  <2>1. CASE q = s BY <1>4, <2>1
  <2>2. CASE q # s
    <3>1. Puts(q) /\ Sole(q) BY <1>1, <1>4, <2>2 DEF Puts, TradeWritten, Changes, JInv
    <3>2. ~Puts(s)' BY <2>2, <1>4 DEF Sole
    <3>3. \A r \in Sessions \ {q, s} : Puts(r)' => Puts(r)
      BY <1>1 DEF Puts, TradeWritten, Changes
    <3> QED BY <1>1, <2>2, <3>1, <3>2, <3>3 DEF Sole, IsLive
  <2> QED BY <2>1, <2>2
<1>5. OneLive' BY DEF JInv, OneLive, IsLive
<1> QED BY <1>2, <1>3, <1>4, <1>5 DEF JInv

\* A session that gives up has written nothing.
LEMMA StopsWriting ==
  ASSUME Shape, JInv, NEW s \in Sessions, GiveUp(s)
  PROVE  JInv'
<1>1. stage' = [stage EXCEPT ![s] = "idle"] /\ work' = [work EXCEPT ![s] = NoWork]
      /\ UNCHANGED <<idea, trade, journal>>
  BY DEF GiveUp, Finish, To, Rows
<1>2. stage'[s] = "idle" /\ work'[s] = NoWork BY <1>1 DEF Shape
<1>3. IsPath(NoWork.path) /\ NoWork.to \in TradeRows /\ NoWork.op = "none" /\ NoWork.from = NoWork.to
  BY DEF NoWork, IsPath, NoTrade, TradeRows
<1>4. WritesWell(s)' /\ ~Puts(s)'
  BY <1>2, <1>3 DEF WritesWell, Puts, TradeWritten, Changes, AllStages
<1> QED BY <1>1, <1>4, SessionMoves

\* A session begins at a statement before the one that writes its trade.
LEMMA StartsWriting ==
  ASSUME Shape, JInv, NEW s \in Sessions, NEW g \in {"decide", "repair", "flush", "number"}, NEW w,
         Begin(s, g, w), IsPath(w.path), w.to \in TradeRows, w.op # "none", idea[w.idea] # "none",
         w.from # w.to => w.from.status # w.to.status /\ g = "flush"
  PROVE  JInv'
<1>1. stage' = [stage EXCEPT ![s] = g] /\ work' = [work EXCEPT ![s] = w]
      /\ UNCHANGED <<idea, trade, journal>>
  BY DEF Begin, To, Rows
<1>2. stage'[s] = g /\ work'[s] = w BY <1>1 DEF Shape
<1>3. WritesWell(s)' BY <1>1, <1>2 DEF WritesWell, AllStages, Changes
<1>4. ~Puts(s)' BY <1>2 DEF Puts, TradeWritten, Changes
<1> QED BY <1>1, <1>3, <1>4, SessionMoves

\* A path of one status.
LEMMA OneLong == ASSUME NEW x \in Statuses \ {"none"} PROVE IsPath(<<x>>)
BY DEF IsPath

\* The path of a session that moves an idea.
LEMMA MovePath ==
  ASSUME NEW i, NEW goal \in Statuses \ {"none"}
  PROVE  LET w == Move(i, goal) IN
         IsPath(w.path) /\ w.to \in TradeRows /\ w.op # "none" /\ w.idea = i /\ w.from = w.to
<1>1. IsPath(<<goal>>) BY OneLong
<1>2. Move(i, goal).path = <<goal>> BY DEF Move, NoWork
<1>3. Move(i, goal).to \in TradeRows BY DEF Move, NoWork, TradeRows, NoTrade
<1> QED BY <1>1, <1>2, <1>3, MoveShape

\* Supervision, a trigger and an expired decision begin with a path that ends in a status.
LEMMA MovesStart ==
  ASSUME Shape, JInv, NEW s \in Sessions, NEW i \in Ideas,
         Supervise(s, i) \/ Trigger(s, i) \/ ExpireDecision(s, i)
  PROVE  JInv'
<1>1. idea[i] # "none" BY DEF Supervise, Trigger, ExpireDecision
<1>2. PICK goal \in {"CANCELLED", "TIMED_OUT", "TRIGGERED"} : Begin(s, "number", Move(i, goal))
  BY DEF Supervise, Trigger, ExpireDecision
<1>3. goal \in Statuses \ {"none"} BY DEF Statuses
<1> QED BY <1>1, <1>2, <1>3, MovePath, StartsWriting

\* A trade that is advanced changes its status if it changes at all.
LEMMA AdvancedRows ==
  ASSUME NEW t \in TradeRows, IsLive(t), NEW to \in Advanced(t)
  PROVE  to \in TradeRows /\ (t # to => t.status # to.status)
<1>1. CASE to = t BY <1>1
<1>2. CASE to = Opened(t)
  <2>1. to \in TradeRows /\ to.status = "OPEN" BY <1>2 DEF Opened, TradeRows
  <2>2. t.status = "OPEN" => to = t BY <1>2 DEF Opened, TradeRows
  <2> QED BY <2>1, <2>2
<1>3. CASE to \in {Ended("stop"), Ended("target"), Dropped}
  <2>1. to \in TradeRows /\ to.status \in {"CLOSED", "CANCELLED"}
    BY <1>3 DEF Ended, Dropped, TradeRows
  <2> QED BY <2>1 DEF IsLive
<1> QED BY <1>1, <1>2, <1>3 DEF Advanced

\* The tracker, the repair and the owner begin with a trade that is live.
LEMMA TradeJobsStart ==
  ASSUME IInv, JInv, NEW s \in Sessions, NEW i \in Ideas,
         Track(s, i) \/ Repair(s, i) \/ CloseByOwner(s, i)
  PROVE  JInv'
<1>1. IsTrade(trade[i]) BY DEF Track, Repair, CloseByOwner, IsLive, IsTrade
<1>2. idea[i] # "none" /\ trade[i] \in TradeRows BY <1>1 DEF JInv, JournalOf
<1>3. PICK op \in Jobs, g \in {"repair", "flush"}, to \in TradeRows :
        /\ Begin(s, g, Work(op, i, to))
        /\ trade[i] # to => trade[i].status # to.status /\ g = "flush"
  <2>1. CASE Track(s, i)
    <3>1. PICK to \in Advanced(trade[i]) : Begin(s, "flush", Work("track", i, to))
      BY <2>1 DEF Track
    <3>2. to \in TradeRows /\ (trade[i] # to => trade[i].status # to.status)
      BY <1>2, <2>1, AdvancedRows DEF Track
    <3> QED BY <3>1, <3>2 DEF Jobs
  <2>2. CASE Repair(s, i) BY <1>2, <2>2 DEF Repair, Jobs
  <2>3. CASE CloseByOwner(s, i)
    <3>1. Ended("owner") \in TradeRows /\ Ended("owner").status = "CLOSED" BY DEF Ended, TradeRows
    <3>2. trade[i].status # "CLOSED" BY <2>3 DEF CloseByOwner, IsLive
    <3> QED BY <2>3, <3>1, <3>2 DEF CloseByOwner, Jobs
  <2> QED BY <2>1, <2>2, <2>3
<1>4. IsPath(<<>>) BY DEF IsPath
<1>5. op # "none" BY DEF Jobs
<1> QED BY <1>2, <1>3, <1>4, <1>5, WorkShape, StartsWriting DEF IInv

\* A decision begins with nothing written.
LEMMA DecideStarts ==
  ASSUME Shape, JInv, NEW s \in Sessions, NEW i \in Ideas, Decide(s, i)
  PROVE  JInv'
<1> DEFINE w == [NoWork EXCEPT !.op = "decide", !.idea = i]
<1>1. w.path = <<>> /\ w.to = NoTrade /\ w.from = NoTrade /\ w.op = "decide" /\ w.idea = i
  BY DEF NoWork
<1>2. IsPath(w.path) /\ w.to \in TradeRows BY <1>1 DEF IsPath, TradeRows, NoTrade
<1>3. Begin(s, "decide", w) /\ idea[i] # "none" BY DEF Decide
<1> HIDE DEF w
<1> QED BY <1>1, <1>2, <1>3, StartsWriting
-----------------------------------------------------------------------------
\* Every path to a status ends in it.
LEMMA PathsEnd ==
  ASSUME NEW old, NEW goal \in Statuses \ {"none"}, NEW p \in Paths(old, goal)
  PROVE  IsPath(p)
<1>1. p = <<goal>> \/ (\E x : p = <<x, goal>>) \/ (\E x, y : p = <<x, y, goal>>)
  <2> DEFINE one == {r \in {<<goal>>} : goal \in Allowed[old]}
             two == {<<x, goal>> : x \in {y \in Allowed[old] : goal \in Allowed[y]}}
             from(x) == {<<x, y, goal>> : y \in {z \in Allowed[x] : goal \in Allowed[z]}}
             three == UNION {from(x) : x \in Allowed[old]}
  <2>1. p \in one \/ p \in two \/ p \in three BY DEF Paths
  <2>2. p \in one => p = <<goal>> OBVIOUS
  <2>3. p \in two => \E x : p = <<x, goal>> OBVIOUS
  <2>4. p \in three => \E x, y : p = <<x, y, goal>>
    <3>1. ASSUME p \in three PROVE \E x \in Allowed[old] : p \in from(x) BY <3>1
    <3>2. \A x : p \in from(x) => \E y : p = <<x, y, goal>> OBVIOUS
    <3> QED BY <3>1, <3>2
  <2> HIDE DEF one, two, three
  <2> QED BY <2>1, <2>2, <2>3, <2>4
<1>2. CASE p = <<goal>> BY <1>2, OneLong
<1>3. ASSUME NEW x, p = <<x, goal>> PROVE IsPath(p) BY <1>3 DEF IsPath
<1>4. ASSUME NEW x, NEW y, p = <<x, y, goal>> PROVE IsPath(p) BY <1>4 DEF IsPath
<1> QED BY <1>1, <1>2, <1>3, <1>4

\* What an idea follows its trade to is a status.
LEMMA FollowStatus == ASSUME NEW t PROVE FollowTrade(t) \in Statuses
BY DEF FollowTrade, Statuses

\* What the repair moves an idea to is a status.
LEMMA RepairStatus == ASSUME NEW t, NEW old PROVE RepairGoal(t, old) \in Statuses
BY FollowStatus DEF RepairGoal, ApprovedEnd, Statuses

\* A session that goes on with its idea and its trade.
LEMMA WritesOn ==
  ASSUME IInv, JInv, NEW s \in Sessions, NEW g \in {"flush", "idea", "number", "commit"}, NEW w,
         stage[s] # "idle", stage' = [stage EXCEPT ![s] = g], work' = [work EXCEPT ![s] = w],
         UNCHANGED <<idea, trade, journal>>,
         w.op = work[s].op, w.idea = work[s].idea, w.from = work[s].from,
         w.to \in TradeRows, w.from # w.to => w.from.status # w.to.status,
         IsPath(w.path), g = "commit" => w.path = <<>>,
         g # "flush" => (Puts(s) /\ w.to = work[s].to) \/ (w.from = w.to \/ ~IsLive(w.to) \/ Sole(s))
  PROVE  JInv'
<1>1. stage'[s] = g /\ work'[s] = w BY DEF IInv, Shape
<1>2. WritesWell(s) /\ Copies(s) BY DEF JInv, IInv
<1>3. idea[w.idea] # "none" BY <1>2 DEF WritesWell, Copies
<1>4. WritesWell(s)' BY <1>1, <1>2, <1>3 DEF WritesWell, Changes, AllStages
<1>5. ASSUME Puts(s)' PROVE Sole(s)'
  <2>1. g # "flush" /\ w.from # w.to /\ IsLive(w.to)
    BY <1>1, <1>5 DEF Puts, TradeWritten, Changes
  <2>2. Sole(s) BY <2>1 DEF JInv
  <2>3. \A q \in Sessions \ {s} : Puts(q)' => Puts(q)
    BY DEF Puts, TradeWritten, Changes, IInv, Shape
  <2> QED BY <1>1, <2>2, <2>3 DEF Sole, IsLive
<1> QED BY <1>4, <1>5, SessionMoves DEF IInv

\* The tracker reads the idea of a trade it has written and goes where the trade went.
LEMMA FollowsTrade ==
  ASSUME IInv, JInv, NEW s \in Sessions, ReadIdea(s)
  PROVE  JInv'
<1> DEFINE old == idea[work[s].idea]
           goal == FollowTrade(work[s].to)
<1>1. IsWork(work[s]) /\ work[s].op = "track" /\ work[s].path = <<>>
      /\ UNCHANGED <<idea, trade, journal>>
  BY DEF ReadIdea, IInv, Shape, Copies, Rows
<1>2. WritesWell(s) /\ stage[s] = "idea" BY DEF JInv, ReadIdea
<1>3. Changes(s) /\ IsLive(work[s].to) => Puts(s) BY <1>2 DEF Puts, TradeWritten
<1>4. CASE /\ work' = [work EXCEPT ![s].old = old]
           /\ stage' = [stage EXCEPT ![s] = "commit"]
  <2> DEFINE w == [work[s] EXCEPT !.old = old]
  <2>1. work' = [work EXCEPT ![s] = w] BY <1>4
  <2>2. IsWork(w) /\ w.op = work[s].op /\ w.idea = work[s].idea /\ w.from = work[s].from
        /\ w.to = work[s].to /\ w.path = <<>>
    BY <1>1 DEF IsWork
  <2> HIDE DEF w
  <2>3. IsPath(w.path) BY <2>2 DEF IsPath
  <2> QED BY <1>2, <1>3, <1>1, <1>4, <2>1, <2>2, <2>3, WritesOn DEF WritesWell, Changes
<1>5. CASE \E p \in Paths(old, goal) : /\ goal # "none"
                                       /\ work' = [work EXCEPT ![s].old = old, ![s].path = p]
                                       /\ stage' = [stage EXCEPT ![s] = "number"]
  <2>1. PICK p \in Paths(old, goal) : /\ goal # "none"
                                      /\ work' = [work EXCEPT ![s].old = old, ![s].path = p]
                                      /\ stage' = [stage EXCEPT ![s] = "number"]
    BY <1>5
  <2> DEFINE w == [work[s] EXCEPT !.old = old, !.path = p]
  <2>2. work' = [work EXCEPT ![s] = w] BY <2>1 DEF IInv, Shape
  <2>3. IsWork(w) /\ w.op = work[s].op /\ w.idea = work[s].idea /\ w.from = work[s].from
        /\ w.to = work[s].to /\ w.path = p
    BY <1>1 DEF IsWork
  <2>4. IsPath(p)
    <3> HIDE DEF old
    <3>1. goal \in Statuses \ {"none"} BY <2>1, FollowStatus
    <3> HIDE DEF goal
    <3> QED BY <2>1, <3>1, PathsEnd
  <2> HIDE DEF w
  <2> QED BY <1>1, <1>2, <1>3, <2>1, <2>2, <2>3, <2>4, WritesOn DEF WritesWell, Changes
<1>6. \/ /\ work' = [work EXCEPT ![s].old = old]
         /\ stage' = [stage EXCEPT ![s] = "commit"]
      \/ \E p \in Paths(old, goal) : /\ goal # "none"
                                     /\ work' = [work EXCEPT ![s].old = old, ![s].path = p]
                                     /\ stage' = [stage EXCEPT ![s] = "number"]
  <2> DEFINE ways == IF goal = old \/ goal = "none" THEN {} ELSE Paths(old, goal)
  <2>1. IF ways = {}
        THEN /\ work' = [work EXCEPT ![s].old = old]
             /\ stage' = [stage EXCEPT ![s] = "commit"]
        ELSE \E p \in ways : /\ work' = [work EXCEPT ![s].old = old, ![s].path = p]
                             /\ stage' = [stage EXCEPT ![s] = "number"]
    BY DEF ReadIdea, Goes, To
  <2>2. ways # {} => goal # "none" /\ ways = Paths(old, goal) OBVIOUS
  <2> HIDE DEF ways, goal, old
  <2> QED BY <2>1, <2>2
<1> QED BY <1>4, <1>5, <1>6

\* The repair reads the idea of a trade and goes where the trade is.
LEMMA RepairFinds ==
  ASSUME IInv, JInv, NEW s \in Sessions, RepairIdea(s)
  PROVE  JInv'
<1> DEFINE old == idea[work[s].idea]
           w0 == work[s]
           found == {<<w0.from, RepairGoal(w0.from, old)>>} \cup
                    IF w0.from = Pending THEN {<<Dropped, goal>> : goal \in RepairPending(old)} ELSE {}
           ways(goal) == IF old \in Terminal \/ goal \in {old, "none"} THEN {} ELSE Paths(old, goal)
           tries(goal) == IF ways(goal) = {} THEN {<<>>} ELSE ways(goal)
<1>1. IsWork(work[s]) /\ work[s].op = "repair" /\ UNCHANGED <<idea, trade, journal>>
      /\ stage[s] = "repair" /\ stage' = [stage EXCEPT ![s] = "flush"]
  BY DEF RepairIdea, IInv, Shape, Copies, Rows, To
<1>2. WritesWell(s) BY DEF JInv
<1>3. PICK r \in found : \E p \in tries(r[2]) :
         work' = [work EXCEPT ![s].to = r[1], ![s].old = old, ![s].path = p]
  BY DEF RepairIdea
<1>4. PICK p \in tries(r[2]) :
         work' = [work EXCEPT ![s].to = r[1], ![s].old = old, ![s].path = p]
  BY <1>3
<1>5. /\ r[2] \in Statuses 
      /\ r[1] = w0.from \/ (r[1] = Dropped /\ w0.from = Pending)
  <2>1. CASE r = <<w0.from, RepairGoal(w0.from, old)>> BY <2>1, RepairStatus
  <2>2. CASE w0.from = Pending /\ \E goal \in RepairPending(old) : r = <<Dropped, goal>>
    <3>1. PICK goal \in RepairPending(old) : r = <<Dropped, goal>> BY <2>2
    <3>2. goal \in Statuses BY DEF RepairPending, ApprovedEnd, Statuses
    <3> QED BY <2>2, <3>1, <3>2
  <2> QED BY <2>1, <2>2
<1>6. IsPath(p)
  <2>1. CASE p = <<>> BY <2>1 DEF IsPath
  <2>2. CASE p \in ways(r[2])
    <3>1. r[2] # "none" /\ p \in Paths(old, r[2]) BY <2>2
    <3> HIDE DEF old, found
    <3> QED BY <1>5, <3>1, PathsEnd
  <2> QED BY <1>4, <2>1, <2>2
<1> DEFINE w == [work[s] EXCEPT !.to = r[1], !.old = old, !.path = p]
<1>7. work' = [work EXCEPT ![s] = w] BY <1>4 DEF IInv, Shape
<1>8. IsWork(w) /\ w.op = work[s].op /\ w.idea = work[s].idea /\ w.from = work[s].from /\ w.to = r[1]
      /\ w.path = p
  BY <1>1 DEF IsWork
<1>9. w.to \in TradeRows /\ (w.from # w.to => w.from.status # w.to.status)
  <2>1. Dropped \in TradeRows /\ Dropped.status # Pending.status BY DEF Dropped, Pending, TradeRows
  <2>2. CASE r[1] = w0.from
    <3>1. w0.from \in TradeRows BY <1>1, <1>2 DEF WritesWell, Changes
    <3> QED BY <3>1, <2>2, <1>8
  <2>3. CASE r[1] = Dropped /\ w0.from = Pending BY <2>1, <2>3, <1>8
  <2> QED BY <1>5, <2>2, <2>3
<1> HIDE DEF w
<1> QED BY <1>1, <1>6, <1>7, <1>8, <1>9, WritesOn
\* Whoever is under way works on an idea that is published.
LEMMA WorkOfIdea ==
  ASSUME IInv, JInv, NEW s \in Sessions, stage[s] # "idle"
  PROVE  work[s].idea \in Ideas /\ idea[work[s].idea] # "none" /\ LastNumber(work[s].idea) \in Nat
BY DEF IInv, Copies, JInv, WritesWell, JournalOf

\* A session that writes a live trade finds no other that is live and nobody else who has written
\* one.
LEMMA FlushesTrade ==
  ASSUME IInv, JInv, NEW s \in Sessions, Flush(s)
  PROVE  JInv'
<1>1. CASE GiveUp(s) BY <1>1, StopsWriting DEF IInv
<1>2. CASE /\ To(s, AfterFlush(s)) /\ UNCHANGED <<Rows, work>>
           /\ ~(Changes(s) /\ IsLive(work[s].to) /\ OtherLive(work[s].idea))
  <2>1. stage' = [stage EXCEPT ![s] = AfterFlush(s)] /\ UNCHANGED <<idea, trade, journal>>
        /\ work' = [work EXCEPT ![s] = work[s]]
    BY <1>2 DEF To, Rows, IInv, Shape
  <2>2. /\ AfterFlush(s) \in {"idea", "number", "commit"}
        /\ AfterFlush(s) = "commit" => work[s].path = <<>>
        /\ stage[s] = "flush"
    BY DEF AfterFlush, Flush
  <2>3. Changes(s) /\ IsLive(work[s].to) => Sole(s)
    BY <1>2 DEF Flush, Sole, Puts, OtherLive
  <2>4. WritesWell(s) BY DEF JInv
  <2> QED BY <2>1, <2>2, <2>3, <2>4, WritesOn DEF WritesWell, Changes
<1> QED BY <1>1, <1>2 DEF Flush

\* A session that goes on after the write of its trade.
LEMMA StaysSole ==
  ASSUME Shape, JInv, NEW s \in Sessions, NEW g, NEW w,
         stage' = [stage EXCEPT ![s] = g], work' = [work EXCEPT ![s] = w],
         UNCHANGED <<idea, trade, journal>>,
         stage[s] \in {"idea", "number", "write", "commit"},
         w.idea = work[s].idea, w.from = work[s].from, w.to = work[s].to, Puts(s)'
  PROVE  Sole(s)'
<1>1. /\ stage'[s] = g /\ work'[s] = w
      /\ \A q \in Sessions \ {s} : stage'[q] = stage[q] /\ work'[q] = work[q]
  BY DEF Shape
<1>2. Puts(s) BY <1>1 DEF Puts, TradeWritten, Changes
<1>3. Sole(s) BY <1>2 DEF JInv
<1>4. \A q \in Sessions \ {s} : Puts(q)' => Puts(q) BY <1>1 DEF Puts, TradeWritten, Changes
<1> QED BY <1>1, <1>3, <1>4 DEF Sole, IsLive

\* The next number is at most one more than the last of the journal.
LEMMA TakesNumber ==
  ASSUME IInv, JInv, NEW s \in Sessions, Number(s)
  PROVE  JInv'
<1> DEFINE n == LastNumber(work[s].idea)
           w == [work[s] EXCEPT !.seq = n + 1]
<1>1. stage' = [stage EXCEPT ![s] = "write"] /\ UNCHANGED <<idea, trade, journal>>
      /\ work' = [work EXCEPT ![s] = w] /\ stage[s] = "number"
  BY DEF Number, To, Rows
<1>2. IsWork(work[s]) BY DEF IInv, Shape
<1>3. /\ w.op = work[s].op /\ w.idea = work[s].idea /\ w.from = work[s].from
      /\ w.to = work[s].to /\ w.path = work[s].path /\ w.seq = n + 1
  BY <1>2 DEF IsWork
<1>4. idea[work[s].idea] # "none" /\ n \in Nat BY <1>1, WorkOfIdea
<1>5. WritesWell(s) BY DEF JInv
<1>6. stage'[s] = "write" /\ work'[s] = w BY <1>1 DEF IInv, Shape
<1> HIDE DEF w
<1>7. LastNumber(work[s].idea)' = n
  <2>1. \A i : LastNumber(i)' = LastNumber(i) BY <1>1 DEF LastNumber
  <2>2. work'[s].idea = work[s].idea BY <1>3, <1>6
  <2> QED BY <2>1, <2>2 DEF LastNumber
<1> HIDE DEF n
<1>8. w.seq \in 1..(n + 1) BY <1>3, <1>4
<1>9. WritesWell(s)'
  <2>1. IsPath(w.path) /\ w.to \in TradeRows /\ (w.from # w.to => w.from.status # w.to.status)
        /\ idea'[w.idea] # "none"
    BY <1>1, <1>3, <1>4, <1>5 DEF WritesWell, Changes
  <2> QED BY <1>6, <1>7, <1>8, <2>1 DEF WritesWell, Changes, AllStages
<1>10. Puts(s)' => Sole(s)' BY <1>1, <1>3, StaysSole DEF IInv
<1> QED BY <1>1, <1>9, <1>10, SessionMoves DEF IInv

\* The insert is refused unless the number follows the last one that is committed.
LEMMA WritesEvents ==
  ASSUME IInv, JInv, NEW s \in Sessions, Write(s)
  PROVE  JInv'
<1>1. CASE GiveUp(s) BY <1>1, StopsWriting DEF IInv
<1>2. CASE To(s, "commit") /\ UNCHANGED <<Rows, work>> /\ ~Taken(work[s].idea, work[s].seq)
  <2> DEFINE i == work[s].idea
  <2>1. stage' = [stage EXCEPT ![s] = "commit"] /\ UNCHANGED <<idea, trade, journal>>
        /\ work' = [work EXCEPT ![s] = work[s]] /\ stage[s] = "write"
    BY <1>2 DEF To, Rows, IInv, Shape, Write
  <2>2. WritesWell(s) /\ i \in Ideas /\ LastNumber(i) \in Nat BY <2>1, WorkOfIdea DEF JInv
  <2>3. work[s].seq = LastNumber(i) + 1
    <3>1. work[s].seq \in 1..(LastNumber(i) + 1) BY <2>1, <2>2 DEF WritesWell
    <3>2. work[s].seq \notin NumbersOf(i) BY <1>2 DEF Taken, NumbersOf
    <3>3. NumbersOf(i) = 1..LastNumber(i) BY <2>2 DEF JInv, JournalOf
    <3> QED BY <2>2, <3>1, <3>2, <3>3
  <2>4. stage'[s] = "commit" /\ work'[s] = work[s] /\ LastNumber(i)' = LastNumber(i)
    BY <2>1 DEF IInv, Shape, LastNumber
  <2>5. LastNumber(work[s].idea)' = LastNumber(work[s].idea)
    BY <2>1 DEF LastNumber, IInv, Shape
  <2>6. WritesWell(s)'
    BY <2>1, <2>2, <2>3, <2>4, <2>5 DEF WritesWell, Changes, AllStages
  <2>7. Puts(s)' => Sole(s)' BY <2>1, StaysSole DEF IInv
  <2> QED BY <2>1, <2>6, <2>7, SessionMoves DEF IInv
<1> QED BY <1>1, <1>2 DEF Write

-----------------------------------------------------------------------------
\* The owner's verdict is written as a whole.
LEMMA WritesVerdict ==
  ASSUME IInv, JInv, NEW s \in Sessions, NEW w, stage[s] = "decide",
         stage' = [stage EXCEPT ![s] = "commit"], work' = [work EXCEPT ![s] = w],
         UNCHANGED <<idea, trade, journal>>,
         w.idea = work[s].idea, w.op # "none", IsPath(w.path), w.to \in TradeRows,
         w.seq = LastNumber(work[s].idea) + 1,
         w.from # w.to => w.from.status # w.to.status /\ Sole(s)
  PROVE  JInv'
<1>1. stage'[s] = "commit" /\ work'[s] = w BY DEF IInv, Shape
<1>2. idea[work[s].idea] # "none" BY WorkOfIdea
<1>3. LastNumber(w.idea)' = LastNumber(work[s].idea) BY DEF LastNumber
<1>4. WritesWell(s)' 
  <2>1. LastNumber(work[s].idea)' = LastNumber(work[s].idea) BY DEF LastNumber, IInv, Shape
  <2> QED BY <1>1, <1>2, <1>3, <2>1 DEF WritesWell, Changes, AllStages
<1>5. ASSUME Puts(s)' PROVE Sole(s)'
  <2>1. Sole(s) BY <1>1, <1>5 DEF Puts, TradeWritten, Changes
  <2>2. \A q \in Sessions \ {s} : Puts(q)' => Puts(q)
    BY DEF Puts, TradeWritten, Changes, IInv, Shape
  <2> QED BY <1>1, <2>1, <2>2 DEF Sole, IsLive
<1> QED BY <1>4, <1>5, SessionMoves DEF IInv

\* An approval writes the next number of its idea.
LEMMA ApprovalWrites ==
  ASSUME IInv, JInv, NEW s \in Sessions, Approve(s)
  PROVE  JInv'
<1> DEFINE w == Approval(work[s].idea, LastNumber(work[s].idea) + 1)
<1>1. stage[s] = "decide" /\ stage' = [stage EXCEPT ![s] = "commit"]
      /\ UNCHANGED <<idea, trade, journal>> /\ work' = [work EXCEPT ![s] = w]
  BY DEF Approve, Approval, To, Rows
<1>2. w.op = "approve" /\ w.idea = work[s].idea /\ w.from = NoTrade /\ w.to = Pending BY ApprovalShape
<1>3. w.path = <<"ACTIVE">> /\ w.seq = LastNumber(work[s].idea) + 1 BY DEF Approval, NoWork
<1>4. IsPath(<<"ACTIVE">>) BY OneLong DEF Statuses
<1>5. Pending \in TradeRows /\ NoTrade.status # Pending.status BY DEF Pending, NoTrade, TradeRows
<1>6. Sole(s) BY <1>1, WorkOfIdea DEF Approve, Sole, Puts
<1> HIDE DEF w
<1> QED BY <1>1, <1>2, <1>3, <1>4, <1>5, <1>6, WritesVerdict

\* A rejection writes the next number of its idea.
LEMMA RejectionWrites ==
  ASSUME IInv, JInv, NEW s \in Sessions, Reject(s)
  PROVE  JInv'
<1> DEFINE w == Rejection(work[s].idea, idea[work[s].idea], LastNumber(work[s].idea) + 1)
<1>1. stage[s] = "decide" /\ stage' = [stage EXCEPT ![s] = "commit"]
      /\ UNCHANGED <<idea, trade, journal>> /\ work' = [work EXCEPT ![s] = w]
  BY DEF Reject, Rejection, To, Rows
<1>2. w.op = "reject" /\ w.idea = work[s].idea /\ w.from = w.to BY RejectionShape
<1>3. w.path = <<"CANCELLED">> /\ w.seq = LastNumber(work[s].idea) + 1 /\ w.to = NoTrade
  BY DEF Rejection, NoWork
<1>4. IsPath(<<"CANCELLED">>) BY OneLong DEF Statuses
<1>5. NoTrade \in TradeRows BY DEF NoTrade, TradeRows
<1> HIDE DEF w
<1> QED BY <1>1, <1>2, <1>3, <1>4, <1>5, WritesVerdict
-----------------------------------------------------------------------------
\* What a commit leaves in the rows of the idea the session works on.
LEMMA CommitWrites ==
  ASSUME IInv, JInv, NEW s \in Sessions, Commit(s), NEW i, i = work[s].idea
  PROVE  /\ i \in Ideas
         /\ idea' \in [Ideas -> Statuses] /\ trade' \in [Ideas -> TradeRows]
         /\ journal' = [j \in Ideas |-> journal'[j]]
         /\ \A j \in Ideas \ {i} : idea'[j] = idea[j] /\ trade'[j] = trade[j]
              /\ journal'[j] = journal[j]
         /\ idea'[i] # "none"
         /\ idea'[i] = IF work[s].path # <<>> THEN work[s].path[Len(work[s].path)] ELSE idea[i]
         /\ journal'[i] = journal[i] \cup Events(work[s].old, work[s].path, LastNumber(i) + 1)
         /\ trade'[i] = trade[i] \/ (Changes(s) /\ trade'[i].status = work[s].to.status)
<1> DEFINE p == work[s].path
<1>1. stage[s] = "commit" BY DEF Commit
<1>2. i \in Ideas /\ idea[i] # "none" BY <1>1, WorkOfIdea
<1>3. WritesWell(s) /\ IsPath(p) BY DEF JInv, WritesWell
<1>4. /\ idea \in [Ideas -> Statuses] /\ trade \in [Ideas -> TradeRows]
      /\ journal = [j \in Ideas |-> journal[j]]
  BY DEF JInv
<1>5. /\ trade' = [trade EXCEPT ![i] = IF Changes(s) THEN Written(s, trade[i]) ELSE trade[i]]
      /\ idea' = [idea EXCEPT ![i] = IF p # <<>> THEN p[Len(p)] ELSE idea[i]]
      /\ journal' = [journal EXCEPT ![i] = journal[i] \cup Events(work[s].old, p, work[s].seq)]
  BY DEF Commit
<1>6. Events(work[s].old, p, work[s].seq) = Events(work[s].old, p, LastNumber(i) + 1)
  <2>1. CASE p # <<>> BY <1>1, <1>3, <2>1 DEF WritesWell
  <2>2. CASE p = <<>> BY <2>2 DEF Events
  <2> QED BY <2>1, <2>2
<1>7. Changes(s) => /\ Written(s, trade[i]) \in TradeRows
                    /\ Written(s, trade[i]).status = work[s].to.status
  <2>1. trade[i] \in TradeRows /\ work[s].to \in TradeRows BY <1>2, <1>3, <1>4 DEF WritesWell
  <2>2. Changes(s) => work[s].from.status # work[s].to.status BY <1>3 DEF WritesWell
  <2> QED BY <2>1, <2>2 DEF Written, TradeRows
<1>8. p # <<>> => p[Len(p)] \in Statuses \ {"none"} BY <1>3 DEF IsPath
<1> HIDE DEF p
<1>9. idea'[i] = (IF p # <<>> THEN p[Len(p)] ELSE idea[i]) /\ idea' \in [Ideas -> Statuses]
      /\ \A j \in Ideas \ {i} : idea'[j] = idea[j]
  BY <1>2, <1>4, <1>5, <1>8
<1>10. trade' \in [Ideas -> TradeRows] /\ \A j \in Ideas \ {i} : trade'[j] = trade[j]
  BY <1>2, <1>4, <1>5, <1>7
<1>11. trade'[i] = trade[i] \/ (Changes(s) /\ trade'[i].status = work[s].to.status)
  BY <1>2, <1>4, <1>5, <1>7
<1>12. /\ journal' = [j \in Ideas |-> journal'[j]]
       /\ \A j \in Ideas \ {i} : journal'[j] = journal[j]
       /\ journal'[i] = journal[i] \cup Events(work[s].old, p, LastNumber(i) + 1)
  <2> DEFINE new == journal[i] \cup Events(work[s].old, p, LastNumber(i) + 1)
  <2>1. journal' = [journal EXCEPT ![i] = new] BY <1>5, <1>6
  <2> HIDE DEF new
  <2>2. /\ journal' = [j \in Ideas |-> journal'[j]] /\ journal'[i] = new
        /\ \A j \in Ideas \ {i} : journal'[j] = journal[j]
    BY <1>2, <1>4, <2>1
  <2> QED BY <2>2 DEF new
<1>13. idea'[i] # "none" BY <1>2, <1>8, <1>9
<1> QED BY <1>2, <1>9, <1>10, <1>11, <1>12, <1>13 DEF p

\* The commit adds its events without a gap and leaves the newest to tell the status of the idea;
\* a live trade it writes is the only one.
LEMMA CommitsRows ==
  ASSUME IInv, JInv, NEW s \in Sessions, Commit(s)
  PROVE  JInv'
<1> PICK i : i = work[s].idea OBVIOUS
<1>1. /\ i \in Ideas
      /\ idea' \in [Ideas -> Statuses] /\ trade' \in [Ideas -> TradeRows]
      /\ journal' = [j \in Ideas |-> journal'[j]]
      /\ \A j \in Ideas \ {i} : idea'[j] = idea[j] /\ trade'[j] = trade[j] /\ journal'[j] = journal[j]
      /\ idea'[i] # "none"
  BY CommitWrites
<1>2. /\ idea'[i] = IF work[s].path # <<>> THEN work[s].path[Len(work[s].path)] ELSE idea[i]
      /\ journal'[i] = journal[i] \cup Events(work[s].old, work[s].path, LastNumber(i) + 1)
  BY CommitWrites
<1>3. trade'[i] = trade[i] \/ (Changes(s) /\ trade'[i].status = work[s].to.status) BY CommitWrites
<1>4. /\ stage'[s] = "idle" /\ work'[s] = NoWork
      /\ \A q \in Sessions \ {s} : stage'[q] = stage[q] /\ work'[q] = work[q]
  BY CommitRows
<1>5. WritesWell(s) /\ stage[s] = "commit" /\ IsPath(work[s].path) BY DEF JInv, Commit, WritesWell
<1>6. JournalOf(i)' /\ LastNumber(i)' = LastNumber(i) + Len(work[s].path)
  <2>1. PICK p, old : p = work[s].path /\ old = work[s].old OBVIOUS
  <2>2. JournalOf(i) BY <1>1 DEF JInv
  <2>3. p = <<>> => Len(p) = 0 OBVIOUS
  <2>4. JournalOf(i)' /\ LastNumber(i)' = LastNumber(i) + Len(p)
    BY <1>1, <1>2, <1>5, <2>1, <2>2, <2>3, JournalGrows
  <2> QED BY <2>1, <2>4
<1>7. ASSUME NEW j \in Ideas \ {i} PROVE JournalOf(j)' /\ LastNumber(j)' = LastNumber(j)
  <2>1. JournalOf(j) BY DEF JInv
  <2>2. idea'[j] = idea[j] /\ trade'[j] = trade[j] /\ journal'[j] = journal[j] BY <1>1
  <2>3. LastNumber(j)' = LastNumber(j) /\ NumbersOf(j)' = NumbersOf(j) BY <2>2 DEF LastNumber, NumbersOf
  <2> QED BY <2>1, <2>2, <2>3 DEF JournalOf, IsTrade
<1>8. ASSUME NEW q \in Sessions PROVE WritesWell(q)'
  <2>1. CASE q = s
    <3>1. IsPath(NoWork.path) /\ NoWork.to \in TradeRows /\ NoWork.op = "none"
          /\ NoWork.from = NoWork.to
      BY DEF NoWork, IsPath, NoTrade, TradeRows
    <3> QED BY <1>4, <2>1, <3>1 DEF WritesWell, Changes, AllStages
  <2>2. CASE q # s
    <3>1. stage'[q] = stage[q] /\ work'[q] = work[q] BY <1>4, <2>2
    <3>2. WritesWell(q) /\ Copies(q) BY DEF JInv, IInv
    <3>3. PICK j : j = work[q].idea OBVIOUS
    <3>5. work[q].op # "none" => j \in Ideas /\ LastNumber(j) \in Nat /\ idea'[j] # "none"
      BY <1>1, <3>2, <3>3 DEF WritesWell, Copies, JInv, JournalOf
    <3>6. j \in Ideas => LastNumber(j)' \in Nat /\ LastNumber(j) <= LastNumber(j)'
      BY <1>1, <1>5, <1>6, <1>7 DEF JInv, JournalOf, IsPath
    <3>7. ASSUME stage[q] = "commit", work[q].path # <<>> PROVE LastNumber(j)' = LastNumber(j)
      <4>1. j \in Ideas BY <3>2, <3>3, <3>7 DEF Copies
      <4>2. CASE j # i BY <1>7, <4>1, <4>2
      <4>3. CASE j = i
        <5>1. ~Holds(s) BY <2>2, <3>3, <3>7, <4>3 DEF Holds, IInv, Alone
        <5>2. work[s].path = <<>> BY <1>5, <5>1 DEF Holds
        <5>3. Len(work[s].path) = 0 BY <5>2
        <5> QED BY <1>6, <4>3, <5>3, <4>1 DEF JInv, JournalOf
      <4> QED BY <4>2, <4>3
    <3>8. stage[q] = "write" => work[q].seq \in 1..(LastNumber(j)' + 1)
      BY <3>2, <3>3, <3>5, <3>6 DEF WritesWell, Copies
    <3>9. stage[q] = "commit" /\ work[q].path # <<>> => work[q].seq = LastNumber(j)' + 1
      BY <3>2, <3>3, <3>7 DEF WritesWell
    <3>10. LastNumber(work[q].idea)' = LastNumber(j)' BY <3>1, <3>3 DEF LastNumber
    <3> QED BY <3>1, <3>2, <3>3, <3>5, <3>8, <3>9, <3>10 DEF WritesWell, Changes
  <2> QED BY <2>1, <2>2
<1>9. \A q \in Sessions \ {s} : Puts(q)' = Puts(q) BY <1>4 DEF Puts, TradeWritten, Changes
<1>10. ~Puts(s)' BY <1>4 DEF Puts, TradeWritten
<1>11. IsLive(trade'[i]) => IsLive(trade[i]) \/ Puts(s)
  BY <1>3, <1>5 DEF IsLive, Puts, TradeWritten
<1>12. OneLive'
  <2> SUFFICES ASSUME NEW j \in Ideas, NEW k \in Ideas, IsLive(trade'[j]), IsLive(trade'[k]), j # k
               PROVE  FALSE
    BY DEF OneLive, IsLive
  <2>1. ASSUME NEW l \in Ideas \ {i}, IsLive(trade[l]), IsLive(trade'[i]) PROVE FALSE
    BY <1>1, <1>11, <2>1 DEF JInv, OneLive, Sole
  <2>2. CASE j = i BY <1>1, <2>1, <2>2
  <2>3. CASE k = i BY <1>1, <2>1, <2>3
  <2>4. CASE j # i /\ k # i BY <1>1, <2>4 DEF JInv, OneLive
  <2> QED BY <2>2, <2>3, <2>4
<1>13. ASSUME NEW q \in Sessions, Puts(q)' PROVE Sole(q)'
  <2>1. q # s /\ Puts(q) /\ Sole(q) /\ ~Puts(s) BY <1>9, <1>10, <1>13 DEF JInv, Sole
  <2>2. \A j \in Ideas : IsLive(trade'[j]) => IsLive(trade[j]) BY <1>1, <1>11, <2>1
  <2>3. \A r \in Sessions : Puts(r)' => Puts(r) BY <1>9, <1>10
  <2>4. work'[q] = work[q] BY <1>4, <2>1
  <2> QED BY <2>1, <2>2, <2>3, <2>4 DEF Sole, IsLive
<1> QED BY <1>1, <1>6, <1>7, <1>8, <1>12, <1>13 DEF JInv

\* An idea is published with the first event of its journal.
LEMMA PublishesIdea ==
  ASSUME IInv, JInv, NEW i \in Ideas, Publish(i)
  PROVE  JInv'
<1>1. PICK x \in {"WATCH", "TRIGGERED"} :
        /\ idea' = [idea EXCEPT ![i] = x]
        /\ journal' = [journal EXCEPT ![i] = Events("none", <<x>>, 1)]
  BY DEF Publish
<1>2. idea[i] = "none" /\ UNCHANGED <<trade, stage, work>> BY DEF Publish
<1>3. x \in Statuses \ {"none"} BY DEF Statuses
<1>4. /\ idea' \in [Ideas -> Statuses] /\ idea'[i] = x
      /\ \A j \in Ideas \ {i} : idea'[j] = idea[j]
  BY <1>1, <1>3 DEF JInv
<1>5. /\ journal' = [j \in Ideas |-> journal'[j]] /\ journal'[i] = Events("none", <<x>>, 1)
      /\ \A j \in Ideas \ {i} : journal'[j] = journal[j]
  <2>1. PICK new : new = Events("none", <<x>>, 1) OBVIOUS
  <2>2. journal' = [journal EXCEPT ![i] = new] /\ journal = [j \in Ideas |-> journal[j]]
    BY <1>1, <2>1 DEF JInv
  <2> QED BY <2>1, <2>2
<1>6. JournalOf(i)'
  <2>1. Len(<<x>>) = 1 /\ <<x>>[1] = x OBVIOUS
  <2>2. PICK p : p = <<x>> OBVIOUS
  <2>3. PICK n \in Nat : n = 0 OBVIOUS
  <2>4. /\ \A e \in Events("none", p, n + 1) : e.seq \in (n + 1)..(n + Len(p))
        /\ \A k \in (n + 1)..(n + Len(p)) : \E e \in Events("none", p, n + 1) : e.seq = k
        /\ \A e, f \in Events("none", p, n + 1) : e.seq = f.seq => e = f
        /\ \A e \in Events("none", p, n + 1) : e.seq = n + Len(p) => e.new = p[Len(p)]
    <3>1. Len(p) \in Nat BY <2>1, <2>2
    <3> QED BY <3>1, EventNumbers
  <2>a. Len(p) = 1 /\ p[1] = x /\ n + 1 = 1 BY <2>1, <2>2, <2>3
  <2>b. journal'[i] = Events("none", p, n + 1) BY <1>5, <2>2, <2>a
  <2>5. /\ \A e \in journal'[i] : e.seq \in 1..1 /\ e.new = x
        /\ \E e \in journal'[i] : e.seq = 1
        /\ \A e, f \in journal'[i] : e.seq = f.seq => e = f
    BY <2>3, <2>4, <2>a, <2>b
  <2>6. NumbersOf(i)' = 1..1 BY <2>5 DEF NumbersOf
  <2>7. LastNumber(i)' = 1 BY <2>6, NumbersUpToNext
  <2> QED BY <1>3, <1>4, <2>5, <2>6, <2>7 DEF JournalOf
<1>7. ASSUME NEW j \in Ideas \ {i} PROVE JournalOf(j)' /\ LastNumber(j)' = LastNumber(j)
  <2>1. JournalOf(j) BY DEF JInv
  <2>2. idea'[j] = idea[j] /\ trade'[j] = trade[j] /\ journal'[j] = journal[j] BY <1>2, <1>4, <1>5
  <2>3. LastNumber(j)' = LastNumber(j) /\ NumbersOf(j)' = NumbersOf(j) BY <2>2 DEF LastNumber, NumbersOf
  <2> QED BY <2>1, <2>2, <2>3 DEF JournalOf, IsTrade
<1>8. ASSUME NEW q \in Sessions PROVE WritesWell(q)'
  <2>1. WritesWell(q) /\ Copies(q) /\ stage'[q] = stage[q] /\ work'[q] = work[q]
    BY <1>2 DEF JInv, IInv
  <2>2. CASE work[q].op = "none" BY <2>1, <2>2 DEF WritesWell, Copies, Changes
  <2>3. CASE work[q].op # "none"
    <3>1. PICK j \in Ideas : j = work[q].idea BY <2>1, <2>3 DEF Copies
    <3>2. j # i BY <1>2, <2>1, <2>3, <3>1 DEF WritesWell
    <3>3. LastNumber(work[q].idea)' = LastNumber(j) BY <1>7, <2>1, <3>1, <3>2 DEF LastNumber
    <3> QED BY <1>4, <2>1, <3>1, <3>2, <3>3 DEF WritesWell, Changes
  <2> QED BY <2>2, <2>3
<1>9. OneLive' /\ \A q \in Sessions : Puts(q)' => Sole(q)'
  BY <1>2 DEF JInv, OneLive, Puts, Sole, TradeWritten, Changes, IsLive
<1> QED BY <1>2, <1>4, <1>5, <1>6, <1>7, <1>8, <1>9 DEF JInv

\* Nothing changes in a stuttering step.
LEMMA RowsUntouched ==
  ASSUME JInv, UNCHANGED vars
  PROVE  JInv'
BY DEF JInv, vars, JournalOf, NumbersOf, LastNumber, IsTrade, WritesWell, Changes, OneLive, Puts, Sole,
       TradeWritten, IsLive

\* Every step preserves the invariant of rows and journals.
LEMMA RowsStep ==
  ASSUME IInv, JInv, [Next]_vars
  PROVE  JInv'
<1> USE DEF IInv
<1>1. CASE UNCHANGED vars BY <1>1, RowsUntouched
<1>2. CASE \E i \in Ideas : Publish(i) BY <1>2, PublishesIdea
<1>3. ASSUME NEW s \in Sessions, NEW i \in Ideas,
             \/ Supervise(s, i) \/ Trigger(s, i) \/ ExpireDecision(s, i)
             \/ Track(s, i) \/ Repair(s, i) \/ CloseByOwner(s, i) \/ Decide(s, i)
      PROVE  JInv'
  BY <1>3, MovesStart, TradeJobsStart, DecideStarts
<1>4. ASSUME NEW s \in Sessions,
             \/ ReadIdea(s) \/ RepairIdea(s) \/ Flush(s) \/ Number(s) \/ Write(s)
      PROVE  JInv'
  BY <1>4, FollowsTrade, RepairFinds, FlushesTrade, TakesNumber, WritesEvents
<1>5. ASSUME NEW s \in Sessions, Commit(s) \/ Approve(s) \/ Reject(s) \/ Abort(s)
      PROVE  JInv'
  BY <1>5, CommitsRows, ApprovalWrites, RejectionWrites, StopsWriting DEF Abort
<1> QED BY <1>1, <1>2, <1>3, <1>4, <1>5 DEF Next

\* Whatever sessions race, the newest event of a journal tells the status of its idea, and its
\* numbers have no gap (lifecycle.transition, paper_tracker, the repair).
THEOREM JournalTells == Spec => []JournalTellsStatus
<1>1. IInv /\ JInv => JournalTellsStatus BY DEF JInv, JournalOf, JournalTellsStatus
<1>2. IInv /\ JInv /\ [Next]_vars => (IInv /\ JInv)' BY Step, RowsStep
<1> QED BY <1>1, <1>2, Initial, InitialRows, PTL DEF Spec

\* Rows, copies and stages are well formed.
LEMMA RowsTypes == ASSUME IInv, JInv PROVE TypeOK
<1>1. \A s \in Sessions : stage[s] \in AllStages /\ (stage[s] = "idle" <=> work[s] = NoWork)
  BY NoWorkShape DEF JInv, WritesWell, IInv, Copies
<1>2. stage \in [Sessions -> AllStages] BY <1>1 DEF IInv, Shape
<1>3. \A i \in Ideas : {e.seq : e \in journal[i]} = 1..LastNumber(i)
  BY DEF JInv, JournalOf, NumbersOf
<1> QED BY <1>1, <1>2, <1>3 DEF TypeOK, JInv, IInv, Shape, OneLive, AllStages

\* The type invariant of paper trading.
THEOREM PaperTyped == Spec => []TypeOK
<1>1. IInv /\ JInv => TypeOK BY RowsTypes
<1>2. IInv /\ JInv /\ [Next]_vars => (IInv /\ JInv)' BY Step, RowsStep
<1> QED BY <1>1, <1>2, Initial, InitialRows, PTL DEF Spec

-----------------------------------------------------------------------------
\* What the constants are assumed to be, of the outbox.
LEMMA OutboxConstants == MaxId \in Nat \ {0} /\ Outbox!NoKey \notin News /\ Scheduler \in Emitters
BY ServicesAssumption

EventRows == [at : {"none", "draft", "here", "gone"}, key : News \cup {Outbox!NoKey}, by : Emitters
     \cup {Outbox!NoKey}]
Phases == {"emit", "deliver", "sent"}

\* The table: ids handed out in order, a key for every row, one row of a key that is not rolled back.
TableInv ==
  /\ events \in [Outbox!Ids -> EventRows] /\ nextId \in 1..(MaxId + 1)
  /\ \A i \in Outbox!Ids : (events[i].at = "none") = (i >= nextId)
  /\ \A i \in Outbox!Ids : events[i].at \in {"draft", "here"} => events[i].key \in News
  /\ \A i, j \in Outbox!Ids : events[i].at \in {"draft", "here"} /\ events[j].at \in {"draft", "here"}
                        /\ events[i].key = events[j].key => i = j
  /\ phase \in [Emitters -> Phases]
  /\ \A t \in Emitters \ {Scheduler} : phase[t] = "emit"

IsTop(c) == c = 0 \/ c \in Outbox!Here
Own == Outbox!DraftsOf(Scheduler)
Batched == batch \cup sending

\* A delivery works on rows of the table in the order of their ids; what lies below its rows is
\* among them or needs no telling, and a cursor is a row that is here.
TelegramInv ==
  /\ channel \in [enabled : BOOLEAN, cursor : Outbox!Ids \cup {0}] /\ IsTop(channel.cursor)
  /\ toggle \in [asked : BOOLEAN, on : BOOLEAN, renews : BOOLEAN, tail : Outbox!Ids \cup {0}]
       /\ IsTop(toggle.tail)
  /\ Batched \subseteq Outbox!Here \cup Own /\ told \subseteq Outbox!Here
  /\ \A b \in Batched : \A i \in Outbox!Here : i <= b => i \in Batched \cup told \cup off \cup late
  /\ \A b \in Batched : \A i \in Own : i <= b => i \in Batched \/ \E j \in Outbox!Here : j >= i
  /\ phase[Scheduler] = "emit" => Batched = {}
  /\ \A i \in batch : \A j \in sending : j < i
  /\ Outbox!TelegramMissesOnlyLate

\* What the stream has passed is shown, on the wire or was overtaken.
PhoneInv ==
  /\ phone = [cursor |-> phone.cursor, shown |-> phone.shown]
  /\ stream \in [on : BOOLEAN, cursor : Outbox!Ids \cup {0}, wire : SUBSET Outbox!Ids]
  /\ IsTop(phone.cursor) /\ IsTop(stream.cursor)
  /\ phone.shown \cup stream.wire \subseteq Outbox!Here
  /\ \A i \in stream.wire : i <= stream.cursor
  /\ stream.on => \A i \in Outbox!Here : i <= stream.cursor => i \in phone.shown \cup late
       \cup stream.wire
  /\ ~stream.on => stream.wire = {}
  /\ Outbox!PhoneMissesOnlyLate

OutboxInv == TableInv /\ TelegramInv /\ PhoneInv

-----------------------------------------------------------------------------
\* Every set of numbers that is not empty has a least one.
LEMMA LeastOf ==
  ASSUME NEW T, T \subseteq Nat, T # {}
  PROVE  \E x \in T : \A y \in T : x <= y
<1>1. PICK x \in T : \A y \in T : <<y, x>> \notin OpToRel(<, Nat)
  BY NatLessThanWellFounded, WFMin
<1>2. \A y \in T : ~(y < x) BY <1>1 DEF OpToRel
<1> QED BY <1>2

\* Min finds it.
LEMMA MinOf ==
  ASSUME NEW S, S \subseteq Nat, S # {}
  PROVE  Outbox!Min(S) \in S /\ \A y \in S : Outbox!Min(S) <= y
BY LeastOf DEF Outbox!Min

\* The greatest of a set of ids, or 0.
LEMMA TopOf ==
  ASSUME NEW S, S \subseteq Outbox!Ids
  PROVE  Outbox!Top(S) \in S \cup {0} /\ \A y \in S : y <= Outbox!Top(S)
<1> DEFINE T == {n \in Nat : \E x \in S \cup {0} : n = MaxId - x}
<1>1. MaxId \in Nat BY OutboxConstants
<1>2. \A x \in S \cup {0} : x \in Nat /\ x <= MaxId BY <1>1 DEF Outbox!Ids
<1>3. T # {}
  <2>1. MaxId - 0 \in T BY <1>1
  <2> QED BY <2>1
<1>4. PICK n \in T : \A k \in T : n <= k BY <1>3, LeastOf
<1>5. PICK x \in S \cup {0} : n = MaxId - x BY <1>4
<1>6. ASSUME NEW y \in S \cup {0} PROVE x >= y
  <2>1. MaxId - y \in T BY <1>1, <1>2
  <2>2. n <= MaxId - y BY <2>1, <1>4
  <2> QED BY <1>1, <1>2, <1>5, <2>2
<1>7. Outbox!Max(S \cup {0}) \in S \cup {0} /\ \A y \in S \cup {0} : Outbox!Max(S \cup {0}) >= y
  BY <1>6 DEF Outbox!Max
<1> HIDE DEF T
<1>8. \A y \in S \cup {0} : y \in Int /\ Outbox!Max(S \cup {0}) \in Int BY <1>2, <1>7
<1> QED BY <1>7, <1>8 DEF Outbox!Top

\* Rows are numbered from 1.
LEMMA IdsAreNaturals == Outbox!Ids \subseteq Nat \ {0} /\ Outbox!Here \subseteq Outbox!Ids
  /\ \A t : Outbox!DraftsOf(t) \subseteq Outbox!Ids
BY OutboxConstants DEF Outbox!Ids, Outbox!Here, Outbox!DraftsOf

\* The greatest row that is here.
LEMMA TopIsTop ==
  ASSUME NEW S, S \subseteq Outbox!Here
  PROVE  IsTop(Outbox!Top(S)) /\ Outbox!Top(S) \in Outbox!Ids \cup {0}
BY TopOf, IdsAreNaturals DEF IsTop

-----------------------------------------------------------------------------
\* The empty table, nothing sent and nobody connected.
LEMMA OutboxInitial == Outbox!Init => OutboxInv
<1> SUFFICES ASSUME Outbox!Init PROVE OutboxInv OBVIOUS
<1>1. MaxId \in Nat \ {0} /\ Scheduler \in Emitters BY OutboxConstants
<1>2. Outbox!NoEvent \in EventRows BY DEF Outbox!NoEvent, EventRows
<1>3. Outbox!Here = {} /\ Own = {} BY DEF Outbox!Init, Outbox!Here, Outbox!DraftsOf, Outbox!NoEvent, Own
<1>4. TableInv
  BY <1>1, <1>2 DEF Outbox!Init, TableInv, Outbox!NoEvent, Outbox!Ids, Phases
<1>5. TelegramInv
  BY <1>1, <1>3 DEF Outbox!Init, TelegramInv, Batched, IsTop, Outbox!NoToggle,
     Outbox!TelegramMissesOnlyLate
<1>6. PhoneInv
  BY <1>1, <1>3 DEF Outbox!Init, PhoneInv, IsTop, Outbox!Offline, Outbox!PhoneMissesOnlyLate
<1> QED BY <1>4, <1>5, <1>6 DEF OutboxInv

\* What the end of a transaction does to the table.
LEMMA RowsSettle ==
  ASSUME TableInv, NEW t \in Emitters, NEW s \in {"here", "gone"}, Outbox!Settle(t, s)
  PROVE  /\ events' \in [Outbox!Ids -> EventRows]
         /\ \A i \in Outbox!Ids \ Outbox!DraftsOf(t) : events'[i] = events[i]
         /\ \A i \in Outbox!DraftsOf(t) : /\ events'[i].at = s
                                          /\ s = "here" => events'[i].key = events[i].key
         /\ Outbox!Here' = IF s = "here" THEN Outbox!Here \cup Outbox!DraftsOf(t) ELSE Outbox!Here
         /\ Outbox!DraftsOf(t)' = {} /\ \A q \in Emitters \ {t}
              : Outbox!DraftsOf(q)' = Outbox!DraftsOf(q)
<1> DEFINE e(i) == [at |-> s, key |-> IF s = "here" THEN events[i].key ELSE Outbox!NoKey,
                    by |-> Outbox!NoKey]
<1>1. \A i \in Outbox!Ids : events'[i] = IF i \notin Outbox!DraftsOf(t) THEN events[i] ELSE e(i)
  BY DEF Outbox!Settle
<1>2. \A i \in Outbox!Ids : events[i] \in EventRows BY DEF TableInv
<1>3. \A i \in Outbox!Ids : e(i) \in EventRows /\ e(i).at = s
        /\ e(i).key = IF s = "here" THEN events[i].key ELSE Outbox!NoKey
  BY <1>2 DEF EventRows
<1>4. events' \in [Outbox!Ids -> EventRows] BY <1>2, <1>3 DEF Outbox!Settle
<1>a. Outbox!DraftsOf(t) \subseteq Outbox!Ids BY DEF Outbox!DraftsOf
<1> HIDE DEF e
<1>5. Outbox!Here' = IF s = "here" THEN Outbox!Here \cup Outbox!DraftsOf(t) ELSE Outbox!Here
  BY <1>1, <1>3 DEF Outbox!Here, Outbox!DraftsOf
<1>6. Outbox!DraftsOf(t)' = {} BY <1>1, <1>3 DEF Outbox!DraftsOf
<1>7. \A q \in Emitters \ {t} : Outbox!DraftsOf(q)' = Outbox!DraftsOf(q)
  BY <1>1, <1>3 DEF Outbox!DraftsOf
<1>8. \A i \in Outbox!DraftsOf(t) : events'[i].at = s /\ (s = "here" => events'[i].key = events[i].key)
  BY <1>1, <1>3, <1>a
<1> QED BY <1>1, <1>4, <1>5, <1>6, <1>7, <1>8

\* The end of a transaction keeps the table well formed.
LEMMA TableSettles ==
  ASSUME TableInv, NEW t \in Emitters, NEW s \in {"here", "gone"}, Outbox!Settle(t, s),
         phase' = [phase EXCEPT ![t] = "emit"], nextId' = nextId
  PROVE  TableInv'
<1>1. /\ events' \in [Outbox!Ids -> EventRows]
      /\ \A i \in Outbox!Ids \ Outbox!DraftsOf(t) : events'[i] = events[i]
      /\ \A i \in Outbox!DraftsOf(t) : /\ events'[i].at = s
                                       /\ s = "here" => events'[i].key = events[i].key
  BY RowsSettle, Zenon
<1>2. ASSUME NEW i \in Outbox!Ids
      PROVE  /\ events'[i].at = events[i].at \/ (events[i].at = "draft" /\ events'[i].at = s)
             /\ events'[i].at \in {"draft", "here"} => events'[i].key = events[i].key
  <2>1. CASE i \in Outbox!DraftsOf(t)
    <3>1. events[i].at = "draft" BY <2>1 DEF Outbox!DraftsOf
    <3>2. events'[i].at = s /\ (s = "here" => events'[i].key = events[i].key) BY <1>1, <2>1
    <3> QED BY <3>1, <3>2
  <2>2. CASE i \notin Outbox!DraftsOf(t)
    <3>1. events'[i] = events[i] BY <1>1, <2>2
    <3> QED BY <3>1
  <2> QED BY <2>1, <2>2
<1>3. phase' \in [Emitters -> Phases] /\ \A q \in Emitters \ {Scheduler} : phase'[q] = "emit"
  BY DEF TableInv, Phases
<1>4. \A i \in Outbox!Ids : (events'[i].at = "none") = (i >= nextId) BY <1>2 DEF TableInv
<1>6. \A i \in Outbox!Ids : events'[i].at \in {"draft", "here"} => events[i].at \in {"draft", "here"}
  BY <1>2
<1>5. \A i \in Outbox!Ids : events'[i].at \in {"draft", "here"} => events'[i].key \in News
  BY <1>2, <1>6 DEF TableInv
<1>7. \A i, j \in Outbox!Ids : events'[i].at \in {"draft", "here"}
      /\ events'[j].at \in {"draft", "here"}
                        /\ events'[i].key = events'[j].key => i = j
  BY <1>2, <1>6 DEF TableInv
<1> QED BY <1>1, <1>3, <1>4, <1>5, <1>7 DEF TableInv

\* A new row takes the next id and a key that no row has.
LEMMA Emits ==
  ASSUME TableInv, NEW t \in Emitters, NEW k \in News, Outbox!Emit(t, k)
  PROVE  /\ TableInv' /\ Outbox!Here' = Outbox!Here
         /\ \A q \in Emitters \ {t} : Outbox!DraftsOf(q)' = Outbox!DraftsOf(q)
<1> DEFINE e == [at |-> "draft", key |-> k, by |-> t]
<1>1. /\ nextId \in Outbox!Ids /\ events[nextId].at = "none" /\ nextId' = nextId + 1
      /\ events' = [events EXCEPT ![nextId] = e]
      /\ \A i \in Outbox!Ids : events[i].key # k
      /\ phase' = phase
  BY OutboxConstants DEF Outbox!Emit, TableInv, Outbox!Ids
<1>2. e \in EventRows /\ e.at = "draft" /\ e.key = k /\ e.by = t BY DEF EventRows
<1> HIDE DEF e
<1>3. /\ events' \in [Outbox!Ids -> EventRows] /\ events'[nextId] = e
      /\ \A i \in Outbox!Ids \ {nextId} : events'[i] = events[i]
  BY <1>1, <1>2 DEF TableInv
<1>4. Outbox!Here' = Outbox!Here BY <1>1, <1>2, <1>3 DEF Outbox!Here
<1>5. \A q \in Emitters \ {t} : Outbox!DraftsOf(q)' = Outbox!DraftsOf(q)
  BY <1>1, <1>2, <1>3 DEF Outbox!DraftsOf
<1>6. nextId' \in 1..(MaxId + 1) /\ \A i \in Outbox!Ids : (events'[i].at = "none") = (i >= nextId')
  BY <1>1, <1>2, <1>3, OutboxConstants DEF TableInv, Outbox!Ids
<1>7. \A i \in Outbox!Ids : events'[i].at \in {"draft", "here"} => events'[i].key \in News
  BY <1>2, <1>3 DEF TableInv
<1>8. \A i, j \in Outbox!Ids : events'[i].at \in {"draft", "here"}
      /\ events'[j].at \in {"draft", "here"}
                        /\ events'[i].key = events'[j].key => i = j
  BY <1>1, <1>2, <1>3 DEF TableInv
<1> QED BY <1>1, <1>3, <1>4, <1>5, <1>6, <1>7, <1>8 DEF TableInv
-----------------------------------------------------------------------------
Overtaken(t) == {i \in Outbox!DraftsOf(t) : \E j \in i..(nextId - 1) \ Outbox!DraftsOf(t)
     : events[j].at # "gone"}

\* A row that appears below one that is here, or below a draft of another transaction, is late.
LEMMA AppearsLate ==
  ASSUME TableInv, NEW t \in Emitters, NEW q \in Emitters \ {t}, NEW i \in Outbox!DraftsOf(t),
         NEW c \in Outbox!Here \cup Outbox!DraftsOf(q), i <= c
  PROVE  i \in Overtaken(t)
<1>1. i \in Outbox!Ids /\ c \in Outbox!Ids /\ events[c].at \in {"draft", "here"}
      /\ c \notin Outbox!DraftsOf(t)
  BY DEF Outbox!Here, Outbox!DraftsOf
<1>2. c < nextId /\ nextId \in Int /\ c \in Int /\ i \in Int
  BY <1>1, OutboxConstants DEF TableInv, Outbox!Ids
<1>3. c \in i..(nextId - 1) BY <1>2
<1> QED BY <1>1, <1>3 DEF Overtaken

\* A draft below a row that is here was overtaken.
LEMMA AppearsLateAlone ==
  ASSUME TableInv, NEW t \in Emitters, NEW i \in Outbox!DraftsOf(t), NEW c \in Outbox!Here, i <= c
  PROVE  i \in Overtaken(t)
<1>1. i \in Outbox!Ids /\ c \in Outbox!Ids /\ events[c].at = "here" /\ c \notin Outbox!DraftsOf(t)
  BY DEF Outbox!Here, Outbox!DraftsOf
<1>2. c < nextId /\ nextId \in Int /\ c \in Int /\ i \in Int
  BY <1>1, OutboxConstants DEF TableInv, Outbox!Ids
<1>3. c \in i..(nextId - 1) BY <1>2
<1> QED BY <1>1, <1>3 DEF Overtaken

\* The phone and its stream, while the table grows.
LEMMA PhoneKept ==
  ASSUME PhoneInv, UNCHANGED <<phone, stream>>, Outbox!Here \subseteq Outbox!Here',
         late \subseteq late',
         \A i \in Outbox!Here' \ Outbox!Here : \A c \in Outbox!Here : i <= c
              => i \in late', Outbox!Here' \subseteq Outbox!Ids
  PROVE  PhoneInv'
<1>1. \A i \in Outbox!Here' : i \in Nat /\ i > 0 BY IdsAreNaturals
<1>2. IsTop(phone.cursor)' /\ IsTop(stream.cursor)' BY DEF PhoneInv, IsTop
<1>3. \A i \in Outbox!Here' \ Outbox!Here : i <= phone.cursor \/ i <= stream.cursor => i \in late'
  BY <1>1 DEF PhoneInv, IsTop
<1>a. phone.shown \subseteq Outbox!Here /\ \A i \in Outbox!Here : i <= phone.cursor => i \in phone.shown
      \cup late
  BY DEF PhoneInv, Outbox!PhoneMissesOnlyLate
<1>b. \A i \in Outbox!Here' : i <= phone.cursor => i \in phone.shown \cup late' BY <1>3, <1>a
<1>4. Outbox!PhoneMissesOnlyLate' BY <1>a, <1>b DEF Outbox!PhoneMissesOnlyLate
<1>c. stream.on => \A i \in Outbox!Here : i <= stream.cursor => i \in phone.shown \cup late
      \cup stream.wire
  BY DEF PhoneInv
<1>5. stream.on => \A i \in Outbox!Here' : i <= stream.cursor => i \in phone.shown \cup late'
      \cup stream.wire
  BY <1>3, <1>c
<1> QED BY <1>2, <1>4, <1>5 DEF PhoneInv

\* Telegram, while the table grows by another transaction.
LEMMA TelegramKept ==
  ASSUME TelegramInv, UNCHANGED <<channel, batch, sending, told, toggle, off>>,
         phase'[Scheduler] = phase[Scheduler],
         Outbox!Here \subseteq Outbox!Here', late \subseteq late', Own' = Own \/ Batched = {},
         Outbox!Here' \subseteq Outbox!Ids,
         \A i \in Outbox!Here' \ Outbox!Here : \A c \in Outbox!Here \cup Own : i <= c => i \in late'
  PROVE  TelegramInv'
<1>1. \A i \in Outbox!Here' : i \in Nat /\ i > 0
  <2>1. Outbox!Ids \subseteq Nat \ {0} BY IdsAreNaturals
  <2> QED BY <2>1
<1>2. IsTop(channel.cursor)' /\ IsTop(toggle.tail)' BY DEF TelegramInv, IsTop
<1>3. \A i \in Outbox!Here' \ Outbox!Here : i <= channel.cursor => i \in late'
  BY <1>1 DEF TelegramInv, IsTop
<1>4. Outbox!TelegramMissesOnlyLate' BY <1>3 DEF TelegramInv, Outbox!TelegramMissesOnlyLate
<1>5. Batched' = Batched BY DEF Batched
<1>6. Batched \subseteq Outbox!Here' \cup Own' BY DEF TelegramInv
<1>7. \A b \in Batched : \A i \in Outbox!Here' : i <= b => i \in Batched \cup told \cup off \cup late'
  BY DEF TelegramInv
<1>8. \A b \in Batched : \A i \in Own' : i <= b => i \in Batched \/ \E j \in Outbox!Here' : j >= i
  BY DEF TelegramInv
<1> QED BY <1>2, <1>4, <1>5, <1>6, <1>7, <1>8 DEF TelegramInv

\* A new draft disturbs no reader.
LEMMA Emitting ==
  ASSUME OutboxInv, NEW t \in Emitters, NEW k \in News, Outbox!Emit(t, k)
  PROVE  OutboxInv'
<1>1. TableInv' /\ Outbox!Here' = Outbox!Here
      /\ \A q \in Emitters \ {t} : Outbox!DraftsOf(q)' = Outbox!DraftsOf(q)
  BY Emits DEF OutboxInv
<1>2. UNCHANGED <<phase, channel, batch, sending, told, toggle, phone, stream, late, off>>
      /\ phase[t] = "emit"
  BY DEF Outbox!Emit, Outbox!telegram, Outbox!device
<1>3. Own' = Own \/ Batched = {}
  <2>1. CASE t = Scheduler BY <1>2, <2>1 DEF OutboxInv, TelegramInv
  <2>2. CASE t # Scheduler BY <1>1, <2>2, OutboxConstants DEF Own
  <2> QED BY <2>1, <2>2
<1>4. Outbox!Here' \subseteq Outbox!Ids BY <1>1, IdsAreNaturals
<1>5. PhoneInv' BY <1>1, <1>2, <1>4, PhoneKept DEF OutboxInv
<1>6. TelegramInv' BY <1>1, <1>2, <1>3, <1>4, TelegramKept DEF OutboxInv
<1> QED BY <1>1, <1>5, <1>6 DEF OutboxInv

\* The scheduler's transaction ends: its rows are here or gone, and so is what it has sent.
LEMMA DeliveryEnds ==
  ASSUME OutboxInv, NEW s \in {"here", "gone"}, Outbox!Settle(Scheduler, s),
         Outbox!EndDelivery(Scheduler, s = "here"),
         phase' = [phase EXCEPT ![Scheduler] = "emit"], UNCHANGED <<toggle, off>>,
         late' = IF s = "here" THEN late \cup Overtaken(Scheduler) ELSE late
  PROVE  TelegramInv'
<1> USE DEF OutboxInv
<1>1. Outbox!Here' = (IF s = "here" THEN Outbox!Here \cup Own ELSE Outbox!Here) /\ Own' = {}
  BY RowsSettle, OutboxConstants DEF Own
<1>2. batch' = {} /\ sending' = {} /\ Batched' = {} BY DEF Outbox!EndDelivery, Batched
<1>3. told' = IF s = "here" THEN told \cup sending ELSE told BY DEF Outbox!EndDelivery
<1>4. channel' = IF s = "here" /\ sending # {} THEN [channel EXCEPT !.cursor = Outbox!Top(sending)]
      ELSE channel
  BY DEF Outbox!EndDelivery
<1>5. told' \subseteq Outbox!Here' BY <1>1, <1>3 DEF TelegramInv, Batched
<1>6. sending \subseteq Outbox!Ids /\ Outbox!Here \subseteq Outbox!Ids /\ Own \subseteq Outbox!Ids
  BY IdsAreNaturals DEF TelegramInv, Batched, Own
<1>7. Outbox!Top(sending) \in sending \cup {0} /\ \A y \in sending : y <= Outbox!Top(sending)
  BY <1>6, TopOf
<1>8. channel' \in [enabled : BOOLEAN, cursor : Outbox!Ids \cup {0}]
      /\ channel'.cursor = IF s = "here" /\ sending # {} THEN Outbox!Top(sending) ELSE channel.cursor
  BY <1>4, <1>6, <1>7 DEF TelegramInv
<1>9. IsTop(channel.cursor)' /\ IsTop(toggle.tail)'
  BY <1>1, <1>7, <1>8 DEF TelegramInv, IsTop, Batched
<1>10. Outbox!TelegramMissesOnlyLate'
  <2> SUFFICES ASSUME NEW i \in Outbox!Here', i <= channel'.cursor PROVE i \in told' \cup late'
      \cup off'
    BY DEF Outbox!TelegramMissesOnlyLate
  <2>1. i \in Outbox!Ids /\ i \in Nat /\ i > 0 BY <1>1, <1>6, IdsAreNaturals
  <2>a. \A b \in sending : b \in Nat /\ \A j \in batch : b < j /\ j \in Nat
    BY <1>6, IdsAreNaturals DEF TelegramInv, Batched, Own, Outbox!DraftsOf
  <2>2. CASE s = "gone" BY <1>1, <1>3, <1>8, <2>2 DEF TelegramInv, Outbox!TelegramMissesOnlyLate
  <2>3. CASE s = "here" /\ i \in Outbox!Here
    <3>1. CASE sending = {} BY <1>3, <1>8, <2>3, <3>1 DEF TelegramInv, Outbox!TelegramMissesOnlyLate
    <3>2. CASE sending # {}
      <4>a. channel'.cursor = Outbox!Top(sending) BY <1>8, <2>3, <3>2
      <4>b. Outbox!Top(sending) # 0 BY <2>1, <4>a
      <4>1. PICK b \in sending : b = channel'.cursor BY <1>7, <4>a, <4>b
      <4>2. i \in Batched \cup told \cup off \cup late BY <2>3, <4>1 DEF TelegramInv, Batched
      <4>3. i \notin batch BY <4>1, <2>1, <2>a
      <4> QED BY <1>3, <2>3, <4>2, <4>3 DEF Batched
    <3> QED BY <3>1, <3>2
  <2>4. CASE s = "here" /\ i \notin Outbox!Here
    <3>1. i \in Own BY <1>1, <2>4
    <3>2. CASE sending = {}
      <4>1. channel.cursor \in Outbox!Here BY <1>8, <2>1, <3>2, IdsAreNaturals DEF TelegramInv, IsTop
      <4>2. i \in Overtaken(Scheduler)
        BY <1>8, <3>1, <3>2, <4>1, AppearsLateAlone, OutboxConstants DEF Own
      <4> QED BY <2>4, <4>2
    <3>3. CASE sending # {}
      <4>a. channel'.cursor = Outbox!Top(sending) BY <1>8, <2>4, <3>3
      <4>b. Outbox!Top(sending) # 0 BY <2>1, <4>a
      <4>1. PICK b \in sending : b = channel'.cursor BY <1>7, <4>a, <4>b
      <4>2. i \in Batched \/ \E j \in Outbox!Here : j >= i BY <3>1, <4>1 DEF TelegramInv, Batched
      <4>3. CASE i \in Batched
        <5>1. i \notin batch BY <4>1, <2>1, <2>a
        <5> QED BY <1>3, <2>4, <4>3, <5>1 DEF Batched
      <4>4. ASSUME NEW j \in Outbox!Here, j >= i PROVE i \in late'
        <5>1. i <= j BY <4>4, <1>6, <2>1, IdsAreNaturals
        <5>2. i \in Overtaken(Scheduler) BY <3>1, <5>1, AppearsLateAlone, OutboxConstants DEF Own
        <5> QED BY <2>4, <5>2
      <4> QED BY <4>2, <4>3, <4>4
    <3> QED BY <3>2, <3>3
  <2> QED BY <2>2, <2>3, <2>4
<1>11. toggle' \in [asked : BOOLEAN, on : BOOLEAN, renews : BOOLEAN, tail : Outbox!Ids \cup {0}]
  BY DEF TelegramInv
<1> QED BY <1>2, <1>5, <1>8, <1>9, <1>10, <1>11 DEF TelegramInv, IsTop

\* A commit or a rollback: rows that appear below a reader are counted among the late ones.
LEMMA TransactionEnds ==
  ASSUME OutboxInv, NEW t \in Emitters, Outbox!Commit(t) \/ Outbox!Rollback(t)
  PROVE  OutboxInv'
<1>1. PICK s \in {"here", "gone"} :
        /\ Outbox!Settle(t, s) /\ Outbox!EndDelivery(t, s = "here")
             /\ phase' = [phase EXCEPT ![t] = "emit"]
        /\ UNCHANGED <<nextId, toggle, phone, stream, off>>
        /\ late' = IF s = "here" THEN late \cup Overtaken(t) ELSE late
  <2>1. CASE Outbox!Commit(t) BY <2>1 DEF Outbox!Commit, Outbox!device, Overtaken
  <2>2. CASE Outbox!Rollback(t) BY <2>2 DEF Outbox!Rollback, Outbox!device
  <2> QED BY <2>1, <2>2
<1>2. TableInv' BY <1>1, TableSettles DEF OutboxInv
<1>3. /\ Outbox!Here' = IF s = "here" THEN Outbox!Here \cup Outbox!DraftsOf(t) ELSE Outbox!Here
      /\ Outbox!DraftsOf(t)' = {} /\ \A q \in Emitters \ {t} : Outbox!DraftsOf(q)' = Outbox!DraftsOf(q)
  BY <1>1, RowsSettle DEF OutboxInv
<1>4. Outbox!Here' \subseteq Outbox!Ids BY <1>3, IdsAreNaturals
<1>5. \A i \in Outbox!Here' \ Outbox!Here : \A c \in Outbox!Here : i <= c => i \in late'
  BY <1>1, <1>3, AppearsLateAlone DEF OutboxInv
<1>6. PhoneInv' BY <1>1, <1>3, <1>4, <1>5, PhoneKept DEF OutboxInv
<1>7. CASE t = Scheduler BY <1>1, <1>2, <1>6, <1>7, DeliveryEnds DEF OutboxInv
<1>8. CASE t # Scheduler
  <2>1. UNCHANGED <<channel, batch, sending, told>> BY <1>1, <1>8 DEF Outbox!EndDelivery
  <2>2. Own' = Own BY <1>3, <1>8, OutboxConstants DEF Own
  <2>3. \A i \in Outbox!Here' \ Outbox!Here : \A c \in Outbox!Here \cup Own : i <= c => i \in late'
    BY <1>1, <1>3, <1>8, AppearsLate, OutboxConstants DEF OutboxInv, Own
  <2>4. phase'[Scheduler] = phase[Scheduler] BY <1>1, <1>8, OutboxConstants DEF OutboxInv, TableInv
  <2>5. TelegramInv' BY <1>1, <1>3, <1>4, <2>1, <2>2, <2>3, <2>4, TelegramKept DEF OutboxInv
  <2> QED BY <1>2, <1>6, <2>5 DEF OutboxInv
<1> QED BY <1>7, <1>8
-----------------------------------------------------------------------------
\* A step that leaves the table and the phone alone.
LEMMA TelegramOnly ==
  ASSUME OutboxInv, UNCHANGED <<events, nextId, Outbox!device, late>>,
         phase' = phase \/ \E p \in Phases : phase' = [phase EXCEPT ![Scheduler] = p],
         TelegramInv'
  PROVE  OutboxInv'
<1>1. Outbox!Here' = Outbox!Here BY DEF Outbox!Here
<1>2. UNCHANGED <<phone, stream>> BY DEF Outbox!device
<1>3. PhoneInv' BY <1>1, <1>2, PhoneKept, IdsAreNaturals DEF OutboxInv
<1>4. phase' \in [Emitters -> Phases] /\ \A t \in Emitters \ {Scheduler} : phase'[t] = "emit"
  BY DEF OutboxInv, TableInv
<1>5. TableInv' BY <1>4 DEF OutboxInv, TableInv
<1> QED BY <1>3, <1>5 DEF OutboxInv

\* A delivery lists what lies above the cursor.
LEMMA DeliveryStarts ==
  ASSUME OutboxInv, Outbox!StartDelivery
  PROVE  OutboxInv'
<1> USE DEF OutboxInv
<1>1. /\ UNCHANGED <<events, nextId, channel, sending, told, toggle, Outbox!device, late, off>>
      /\ batch' = {i \in Outbox!Here \cup Own : i > channel.cursor}
      /\ phase' = [phase EXCEPT ![Scheduler] = "deliver"] /\ phase[Scheduler] = "emit"
  BY DEF Outbox!StartDelivery, Outbox!Listed, Own
<1>2. Outbox!Here' = Outbox!Here /\ Own' = Own BY <1>1 DEF Outbox!Here, Own, Outbox!DraftsOf
<1>3. sending = {} /\ Batched' = batch' BY <1>1 DEF TelegramInv, Batched
<1>4. \A i \in Outbox!Here \cup Own : i \in Nat /\ i > 0 BY IdsAreNaturals DEF Own
<1>a. channel.cursor \in Outbox!Ids \cup {0} BY DEF TelegramInv
<1>5. channel.cursor \in Nat BY <1>a, OutboxConstants DEF Outbox!Ids
<1>6. ASSUME NEW i \in Outbox!Here PROVE i \in batch' \cup told \cup off \cup late
  BY <1>1, <1>4, <1>5 DEF TelegramInv, Outbox!TelegramMissesOnlyLate
<1>7. ASSUME NEW i \in Own PROVE i \in batch' \/ \E j \in Outbox!Here : j >= i
  <2>1. CASE i > channel.cursor BY <1>1, <2>1
  <2>2. CASE ~(i > channel.cursor)
    <3>1. channel.cursor \in Outbox!Here /\ channel.cursor >= i
      BY <1>4, <1>5, <2>2 DEF TelegramInv, IsTop
    <3> QED BY <3>1
  <2> QED BY <2>1, <2>2
<1>8. phase'[Scheduler] = "deliver" BY <1>1, OutboxConstants DEF TableInv
<1>9. Outbox!TelegramMissesOnlyLate' BY <1>1, <1>2 DEF TelegramInv, Outbox!TelegramMissesOnlyLate
<1>10. TelegramInv'
  BY <1>1, <1>2, <1>3, <1>6, <1>7, <1>8, <1>9 DEF TelegramInv, IsTop
<1> QED BY <1>1, <1>10, TelegramOnly DEF Phases

\* A delivery sends the least of its batch.
LEMMA Sends ==
  ASSUME OutboxInv, Outbox!SendNext
  PROVE  OutboxInv'
<1> USE DEF OutboxInv
<1> DEFINE m == Outbox!Min(batch)
<1>1. /\ UNCHANGED <<events, nextId, channel, phase, told, toggle, Outbox!device, late, off>>
      /\ sending' = sending \cup {m} /\ batch' = batch \ {m} /\ batch # {}
  BY DEF Outbox!SendNext
<1>2. Outbox!Here' = Outbox!Here /\ Own' = Own BY <1>1 DEF Outbox!Here, Own, Outbox!DraftsOf
<1>3. batch \subseteq Nat /\ sending \subseteq Nat BY IdsAreNaturals DEF TelegramInv, Batched, Own
<1>4. m \in batch /\ \A i \in batch : m <= i BY <1>1, <1>3, MinOf
<1> HIDE DEF m
<1>5. Batched' = Batched BY <1>1, <1>4 DEF Batched
<1>6. \A i \in batch' : \A j \in sending' : j < i
  BY <1>1, <1>3, <1>4 DEF TelegramInv
<1>7. phase[Scheduler] # "emit" BY DEF Outbox!SendNext
<1>8. Outbox!TelegramMissesOnlyLate' BY <1>1, <1>2 DEF TelegramInv, Outbox!TelegramMissesOnlyLate
<1>9. TelegramInv'
  BY <1>1, <1>2, <1>5, <1>6, <1>7, <1>8 DEF TelegramInv, IsTop
<1> QED BY <1>1, <1>9, TelegramOnly

\* A delivery that ends, or whose message is not answered, keeps what it has sent, in the order of
\* the ids.
LEMMA DeliveryStops ==
  ASSUME OutboxInv, Outbox!StopDelivery \/ Outbox!SendUnanswered
  PROVE  OutboxInv'
<1> USE DEF OutboxInv
<1>1. /\ UNCHANGED <<events, nextId, channel, sending, told, toggle, Outbox!device, late, off>>
      /\ batch' = {} /\ phase' = [phase EXCEPT ![Scheduler] = "sent"]
  BY DEF Outbox!StopDelivery, Outbox!SendUnanswered
<1>2. Outbox!Here' = Outbox!Here /\ Own' = Own BY <1>1 DEF Outbox!Here, Own, Outbox!DraftsOf
<1>a. batch \subseteq Nat /\ sending \subseteq Nat BY IdsAreNaturals DEF TelegramInv, Batched, Own
<1>3. \A i \in batch : \A j \in sending : ~(i <= j) BY <1>a DEF TelegramInv
<1>4. Batched' = sending BY <1>1 DEF Batched
<1>5. ASSUME NEW b \in sending, NEW i \in Batched, i <= b PROVE i \in sending
  BY <1>3, <1>5 DEF Batched
<1>6. phase'[Scheduler] = "sent" BY <1>1, OutboxConstants DEF TableInv
<1>7. Outbox!TelegramMissesOnlyLate' BY <1>1, <1>2 DEF TelegramInv, Outbox!TelegramMissesOnlyLate
<1>8. sending \subseteq Batched BY DEF Batched
<1>9. TelegramInv'
  BY <1>1, <1>2, <1>4, <1>5, <1>6, <1>7, <1>8 DEF TelegramInv, IsTop
<1> QED BY <1>1, <1>9, TelegramOnly DEF Phases

\* The owner asks to switch Telegram; to enable it again, the newest row is read.
LEMMA AsksToggle ==
  ASSUME OutboxInv, NEW b \in BOOLEAN, Outbox!AskToggle(b)
  PROVE  OutboxInv'
<1> USE DEF OutboxInv
<1> DEFINE renews == b /\ ~channel.enabled
           tail == IF renews THEN Outbox!Top(Outbox!Here) ELSE 0
<1>1. /\ UNCHANGED <<events, nextId, channel, phase, batch, sending, told, Outbox!device, late, off>>
      /\ toggle' = [asked |-> TRUE, on |-> b, renews |-> renews, tail |-> tail]
  BY DEF Outbox!AskToggle
<1>2. Outbox!Here' = Outbox!Here /\ Own' = Own /\ Batched' = Batched
  BY <1>1 DEF Outbox!Here, Own, Outbox!DraftsOf, Batched
<1>3. IsTop(tail) /\ tail \in Outbox!Ids \cup {0} BY TopIsTop DEF IsTop
<1>a. renews \in BOOLEAN OBVIOUS
<1> HIDE DEF tail, renews
<1>4. toggle' \in [asked : BOOLEAN, on : BOOLEAN, renews : BOOLEAN, tail : Outbox!Ids \cup {0}]
      /\ toggle'.tail = tail
  BY <1>1, <1>3, <1>a
<1>5. Outbox!TelegramMissesOnlyLate' BY <1>1, <1>2 DEF TelegramInv, Outbox!TelegramMissesOnlyLate
<1>6. TelegramInv'
  BY <1>1, <1>2, <1>3, <1>4, <1>5 DEF TelegramInv, IsTop
<1> QED BY <1>1, <1>6, TelegramOnly

\* The switch: when Telegram is enabled again, the rows up to the newest are passed over.
LEMMA Toggles ==
  ASSUME OutboxInv, Outbox!Toggle
  PROVE  OutboxInv'
<1> USE DEF OutboxInv
<1>1. /\ UNCHANGED <<events, nextId, phase, batch, sending, told, Outbox!device, late>>
      /\ channel' = [enabled |-> toggle.on,
           cursor |-> IF toggle.renews THEN toggle.tail ELSE channel.cursor]
      /\ toggle' = Outbox!NoToggle
      /\ off' = IF toggle.renews THEN off \cup ({i \in Outbox!Here : i <= toggle.tail} \ told) ELSE off
  BY DEF Outbox!Toggle
<1>2. Outbox!Here' = Outbox!Here /\ Own' = Own /\ Batched' = Batched
  BY <1>1 DEF Outbox!Here, Own, Outbox!DraftsOf, Batched
<1>3. channel' \in [enabled : BOOLEAN, cursor : Outbox!Ids \cup {0}]
      /\ channel'.cursor = IF toggle.renews THEN toggle.tail ELSE channel.cursor
  BY <1>1 DEF TelegramInv
<1>4. toggle' \in [asked : BOOLEAN, on : BOOLEAN, renews : BOOLEAN, tail : Outbox!Ids \cup {0}]
      /\ toggle'.tail = 0
  BY <1>1 DEF Outbox!NoToggle
<1>5. Outbox!TelegramMissesOnlyLate' BY <1>1, <1>2, <1>3 DEF TelegramInv, Outbox!TelegramMissesOnlyLate
<1>6. off \subseteq off' BY <1>1
<1>7. TelegramInv'
  BY <1>1, <1>2, <1>3, <1>4, <1>5, <1>6 DEF TelegramInv, IsTop
<1> QED BY <1>1, <1>7, TelegramOnly

-----------------------------------------------------------------------------
\* A step of the phone or its stream.
LEMMA PhoneOnly ==
  ASSUME OutboxInv, UNCHANGED <<events, nextId, phase, Outbox!telegram, late, off>>, PhoneInv'
  PROVE  OutboxInv'
<1>1. Outbox!Here' = Outbox!Here /\ Own' = Own BY DEF Outbox!Here, Own, Outbox!DraftsOf
<1>2. UNCHANGED <<channel, batch, sending, told, toggle>> BY DEF Outbox!telegram
<1>3. TelegramInv' BY <1>1, <1>2, TelegramKept, IdsAreNaturals DEF OutboxInv
<1>4. TableInv' BY DEF OutboxInv, TableInv
<1> QED BY <1>3, <1>4 DEF OutboxInv

\* The phone connects from its stored cursor, or is cut off.
LEMMA Connects ==
  ASSUME OutboxInv, Outbox!Connect \/ Outbox!Disconnect
  PROVE  OutboxInv'
<1> USE DEF OutboxInv
<1>1. UNCHANGED <<events, nextId, phase, Outbox!telegram, phone, late, off>>
  BY DEF Outbox!Connect, Outbox!Disconnect
<1>2. Outbox!Here' = Outbox!Here BY <1>1 DEF Outbox!Here
<1>3. PICK on \in BOOLEAN, c \in Outbox!Ids \cup {0} :
        stream' = [on |-> on, cursor |-> c, wire |-> {}] /\ c \in {0, phone.cursor}
                  /\ (on => c = phone.cursor)
  BY IdsAreNaturals DEF Outbox!Connect, Outbox!Disconnect, Outbox!Offline, PhoneInv, IsTop
<1>4. stream' \in [on : BOOLEAN, cursor : Outbox!Ids \cup {0}, wire : SUBSET Outbox!Ids]
      /\ stream'.on = on /\ stream'.cursor = c /\ stream'.wire = {}
  BY <1>3
<1>5. Outbox!PhoneMissesOnlyLate' BY <1>1, <1>2 DEF PhoneInv, Outbox!PhoneMissesOnlyLate
<1>6. PhoneInv'
  BY <1>1, <1>2, <1>3, <1>4, <1>5 DEF PhoneInv, IsTop, Outbox!PhoneMissesOnlyLate
<1> QED BY <1>1, <1>6, PhoneOnly

\* The stream puts what lies above its cursor on the wire.
LEMMA Streams ==
  ASSUME OutboxInv, Outbox!StreamBatch
  PROVE  OutboxInv'
<1> USE DEF OutboxInv
<1> DEFINE new == {i \in Outbox!Here : i > stream.cursor}
<1>1. /\ UNCHANGED <<events, nextId, phase, Outbox!telegram, phone, late, off>> /\ stream.on /\ new # {}
      /\ stream' = [stream EXCEPT !.cursor = Outbox!Top(new), !.wire = @ \cup new]
  BY DEF Outbox!StreamBatch, Outbox!Listed
<1>2. Outbox!Here' = Outbox!Here BY <1>1 DEF Outbox!Here
<1>3. IsTop(Outbox!Top(new)) /\ Outbox!Top(new) \in Outbox!Ids \cup {0}
      /\ \A i \in new : i <= Outbox!Top(new)
  BY TopIsTop, TopOf, IdsAreNaturals
<1>a. Outbox!Top(new) \in Nat /\ stream.cursor \in Nat /\ \A i \in Outbox!Here : i \in Nat
  BY <1>3, IdsAreNaturals DEF PhoneInv
<1>4. stream.cursor <= Outbox!Top(new)
  <2>1. PICK i \in new : TRUE BY <1>1
  <2>2. i > stream.cursor /\ i <= Outbox!Top(new) /\ i \in Nat BY <1>3, <1>a
  <2> QED BY <2>2, <1>a
<1>5. new \subseteq Outbox!Ids BY IdsAreNaturals
<1>6. \A i \in Outbox!Here : i \in new \/ i <= stream.cursor BY <1>a
<1>7. new \subseteq Outbox!Here OBVIOUS
<1> HIDE DEF new
<1>8. /\ stream' \in [on : BOOLEAN, cursor : Outbox!Ids \cup {0}, wire : SUBSET Outbox!Ids]
      /\ stream'.on /\ stream'.cursor = Outbox!Top(new) /\ stream'.wire = stream.wire \cup new
  BY <1>1, <1>3, <1>5 DEF PhoneInv
<1>9. \A i \in stream'.wire : i <= stream'.cursor
  BY <1>3, <1>4, <1>8, <1>a, IdsAreNaturals DEF PhoneInv
<1>10. \A i \in Outbox!Here : i <= stream'.cursor => i \in phone.shown \cup late \cup stream'.wire
  BY <1>1, <1>6, <1>8 DEF PhoneInv
<1>11. Outbox!PhoneMissesOnlyLate' BY <1>1, <1>2 DEF PhoneInv, Outbox!PhoneMissesOnlyLate
<1>12. PhoneInv'
  BY <1>1, <1>2, <1>3, <1>7, <1>8, <1>9, <1>10, <1>11 DEF PhoneInv, IsTop
<1> QED BY <1>1, <1>12, PhoneOnly

\* The phone shows what is on the wire and stores the greatest id.
LEMMA Shows ==
  ASSUME OutboxInv, Outbox!Show
  PROVE  OutboxInv'
<1> USE DEF OutboxInv
<1> DEFINE m == Outbox!Min(stream.wire)
<1>1. /\ UNCHANGED <<events, nextId, phase, Outbox!telegram, late, off>> /\ stream.wire # {}
      /\ stream' = [stream EXCEPT !.wire = @ \ {m}]
      /\ phone' = IF m > phone.cursor THEN [cursor |-> m, shown |-> phone.shown \cup {m}] ELSE phone
  BY DEF Outbox!Show
<1>2. Outbox!Here' = Outbox!Here BY <1>1 DEF Outbox!Here
<1>3. stream.wire \subseteq Nat /\ Outbox!Here \subseteq Nat /\ phone.cursor \in Nat
      /\ stream.cursor \in Nat
  BY IdsAreNaturals DEF PhoneInv, IsTop
<1>4. m \in stream.wire /\ \A i \in stream.wire : m <= i BY <1>1, <1>3, MinOf
<1> HIDE DEF m
<1>5. /\ stream' \in [on : BOOLEAN, cursor : Outbox!Ids \cup {0}, wire : SUBSET Outbox!Ids]
      /\ stream'.on = stream.on /\ stream'.cursor = stream.cursor /\ stream'.wire = stream.wire \ {m}
  BY <1>1 DEF PhoneInv
<1>6. m \in Outbox!Here /\ m <= stream.cursor /\ stream.on BY <1>4 DEF PhoneInv
<1>7. CASE m > phone.cursor
  <2>1. phone' = [cursor |-> m, shown |-> phone.shown \cup {m}]
        /\ phone'.cursor = m /\ phone'.shown = phone.shown \cup {m}
    BY <1>1, <1>7
  <2>2. \A i \in Outbox!Here : i <= m => i \in phone'.shown \cup late
    <3> SUFFICES ASSUME NEW i \in Outbox!Here, i <= m PROVE i \in phone'.shown \cup late OBVIOUS
    <3>1. i <= stream.cursor BY <1>3, <1>6
    <3>2. i \in phone.shown \cup late \cup stream.wire BY <1>6, <3>1 DEF PhoneInv
    <3>3. i \in stream.wire => i = m BY <1>3, <1>4
    <3> QED BY <2>1, <3>2, <3>3
  <2>3. Outbox!PhoneMissesOnlyLate'
    BY <1>1, <1>2, <1>6, <2>1, <2>2 DEF PhoneInv, Outbox!PhoneMissesOnlyLate
  <2>4. PhoneInv' BY <1>1, <1>2, <1>5, <1>6, <2>1, <2>3 DEF PhoneInv, IsTop
  <2> QED BY <1>1, <2>4, PhoneOnly
<1>8. CASE ~(m > phone.cursor)
  <2>1. phone' = phone BY <1>1, <1>8
  <2>2. m \in phone.shown \cup late BY <1>3, <1>6, <1>8 DEF PhoneInv, Outbox!PhoneMissesOnlyLate
  <2>3. Outbox!PhoneMissesOnlyLate' BY <1>1, <1>2, <2>1 DEF PhoneInv, Outbox!PhoneMissesOnlyLate
  <2>4. PhoneInv' BY <1>1, <1>2, <1>5, <1>6, <2>1, <2>2, <2>3 DEF PhoneInv, IsTop
  <2> QED BY <1>1, <2>4, PhoneOnly
<1> QED BY <1>7, <1>8

\* Every step of the outbox preserves its invariant.
LEMMA OutboxStep ==
  ASSUME OutboxInv, [Outbox!Next]_outboxVars
  PROVE  OutboxInv'
<1>1. CASE UNCHANGED outboxVars
  <2>1. UNCHANGED <<events, nextId, phase, Outbox!telegram, Outbox!device, late, off>>
    BY <1>1 DEF outboxVars, Outbox!telegram, Outbox!device
  <2>2. Outbox!Here' = Outbox!Here BY <2>1 DEF Outbox!Here
  <2>3. PhoneInv' BY <2>1, <2>2, PhoneKept, IdsAreNaturals DEF OutboxInv, Outbox!device
  <2> QED BY <2>1, <2>3, PhoneOnly
<1>2. ASSUME NEW t \in Emitters, NEW k \in News, Outbox!Emit(t, k) PROVE OutboxInv' BY <1>2, Emitting
<1>3. ASSUME NEW t \in Emitters, Outbox!Commit(t) \/ Outbox!Rollback(t) PROVE OutboxInv'
  BY <1>3, TransactionEnds
<1>4. CASE Outbox!StartDelivery \/ Outbox!SendNext \/ Outbox!SendUnanswered \/ Outbox!StopDelivery
      \/ Outbox!Toggle
      \/ \E b \in BOOLEAN : Outbox!AskToggle(b)
  BY <1>4, DeliveryStarts, Sends, DeliveryStops, Toggles, AsksToggle
<1>5. CASE Outbox!Connect \/ Outbox!StreamBatch \/ Outbox!Show \/ Outbox!Disconnect
  BY <1>5, Connects, Streams, Shows
<1> QED BY <1>1, <1>2, <1>3, <1>4, <1>5 DEF Outbox!Next

-----------------------------------------------------------------------------
\* What was told lies below the cursor and below what is to be sent, or is in doubt.
DoubtInv ==
  /\ doubt \subseteq News /\ twice \subseteq doubt
  /\ \A i \in told : events[i].key \notin doubt => i <= channel.cursor /\ \A b \in Batched : i < b

\* Nothing was sent at first.
LEMMA DoubtInitial == Outbox!Init => DoubtInv
BY DEF Outbox!Init, DoubtInv

\* What a delivery works on are numbers of rows that have a key of their own.
LEMMA NumbersOfRows ==
  ASSUME OutboxInv
  PROVE  /\ batch \subseteq Nat /\ sending \subseteq Nat /\ told \subseteq Nat
         /\ channel.cursor \in Nat /\ toggle.tail \in Nat
         /\ \A i \in Batched \cup told : i \in Outbox!Ids /\ events[i].at \in {"draft", "here"}
                                   /\ events[i].key \in News
<1>1. batch \subseteq Nat /\ sending \subseteq Nat /\ told \subseteq Nat
  BY IdsAreNaturals DEF OutboxInv, TelegramInv, Batched, Own
<1>2. channel.cursor \in Outbox!Ids \cup {0} /\ toggle.tail \in Outbox!Ids \cup {0}
  BY DEF OutboxInv, TelegramInv
<1>3. \A i \in Batched \cup told : i \in Outbox!Ids /\ events[i].at \in {"draft", "here"}
  BY DEF OutboxInv, TelegramInv, Own, Outbox!Here, Outbox!DraftsOf
<1> QED BY <1>1, <1>2, <1>3, OutboxConstants DEF Outbox!Ids, OutboxInv, TableInv

\* A row that is here keeps its key.
LEMMA KeysKept ==
  ASSUME OutboxInv, [Outbox!Next]_outboxVars
  PROVE  \A i \in Outbox!Here : events'[i].key = events[i].key
<1>1. ASSUME NEW t \in Emitters, NEW k \in News, Outbox!Emit(t, k), NEW i \in Outbox!Here
      PROVE  events'[i] = events[i]
  <2>1. /\ nextId \in Outbox!Ids /\ events[nextId].at = "none"
        /\ events' = [events EXCEPT ![nextId] = [at |-> "draft", key |-> k, by |-> t]]
    BY <1>1, OutboxConstants DEF Outbox!Emit, OutboxInv, TableInv, Outbox!Ids
  <2> QED BY <1>1, <2>1 DEF OutboxInv, TableInv, Outbox!Here
<1>2. ASSUME NEW t \in Emitters, Outbox!Commit(t) \/ Outbox!Rollback(t), NEW i \in Outbox!Here
      PROVE  events'[i] = events[i]
  <2>1. PICK s \in {"here", "gone"} : Outbox!Settle(t, s) BY <1>2 DEF Outbox!Commit, Outbox!Rollback
  <2>2. i \in Outbox!Ids \ Outbox!DraftsOf(t) BY <1>2 DEF Outbox!Here, Outbox!DraftsOf
  <2> QED BY <2>1, <2>2, RowsSettle DEF OutboxInv
<1>3. (\E t \in Emitters : (\E k \in News : Outbox!Emit(t, k)) \/ Outbox!Commit(t) \/ Outbox!Rollback(t))
      \/ events' = events
  BY DEF Outbox!Next, outboxVars, Outbox!StartDelivery, Outbox!SendNext, Outbox!SendUnanswered,
     Outbox!StopDelivery, Outbox!AskToggle, Outbox!Toggle, Outbox!Connect, Outbox!StreamBatch,
     Outbox!Show, Outbox!Disconnect
<1> QED BY <1>1, <1>2, <1>3

\* What Telegram takes a second time is in doubt.
LEMMA TellsDoubtful ==
  ASSUME OutboxInv, DoubtInv, batch # {}, Outbox!Tell(Outbox!Min(batch))
  PROVE  /\ twice' \subseteq doubt /\ Outbox!Min(batch) \in batch
         /\ events[Outbox!Min(batch)].key \in News
<1> DEFINE m == Outbox!Min(batch)
<1>1. m \in batch BY NumbersOfRows, MinOf
<1>2. twice' = twice \cup ({events[m].key} \cap (Outbox!KeysOf(told \cup sending) \cup doubt))
  BY DEF Outbox!Tell
<1> HIDE DEF m
<1>3. ASSUME NEW j \in told \cup sending, events[j].key = events[m].key PROVE events[m].key \in doubt
  <2>1. j = m BY <1>1, <1>3, NumbersOfRows DEF OutboxInv, TableInv, Batched
  <2>2. m \notin sending BY <1>1, NumbersOfRows DEF OutboxInv, TelegramInv
  <2>3. m \in told /\ m \in Batched /\ m \in Nat BY <1>1, <2>1, <2>2, NumbersOfRows DEF Batched
  <2> QED BY <2>3 DEF DoubtInv
<1>4. twice' \subseteq doubt BY <1>2, <1>3 DEF Outbox!KeysOf, DoubtInv
<1> QED BY <1>1, <1>4, NumbersOfRows DEF m, Batched

\* No step takes the cursor back before what was told without putting it in doubt.
LEMMA DoubtStep ==
  ASSUME OutboxInv, DoubtInv, [Outbox!Next]_outboxVars
  PROVE  DoubtInv'
<1>0. /\ batch \subseteq Nat /\ sending \subseteq Nat /\ told \subseteq Nat
      /\ channel.cursor \in Nat /\ toggle.tail \in Nat /\ told \subseteq Outbox!Here
      /\ \A i \in Batched \cup told : events[i].key \in News
  BY NumbersOfRows DEF OutboxInv, TelegramInv
<1>k. \A i \in told : events'[i].key = events[i].key BY <1>0, KeysKept
<1>1. CASE UNCHANGED <<channel, batch, sending, told, doubt, twice>>
  BY <1>k, <1>1 DEF DoubtInv, Batched
<1>2. ASSUME NEW t \in Emitters, Outbox!Commit(t) \/ Outbox!Rollback(t) PROVE DoubtInv'
  <2>1. PICK keeps \in BOOLEAN : Outbox!EndDelivery(t, keeps) /\ twice' = twice
    BY <1>2 DEF Outbox!Commit, Outbox!Rollback
  <2>2. CASE t # Scheduler BY <1>1, <2>1, <2>2 DEF Outbox!EndDelivery
  <2>3. CASE t = Scheduler
    <3>1. /\ Batched' = {} /\ told' = IF keeps THEN told \cup sending ELSE told
          /\ doubt' = IF keeps THEN doubt ELSE doubt \cup Outbox!KeysOf(sending)
          /\ channel' = IF keeps /\ sending # {} THEN [channel EXCEPT !.cursor = Outbox!Top(sending)]
               ELSE channel
      BY <2>1, <2>3 DEF Outbox!EndDelivery, Batched
    <3>2. doubt' \subseteq News /\ twice' \subseteq doubt' /\ doubt \subseteq doubt'
      BY <1>0, <2>1, <3>1 DEF DoubtInv, Batched, Outbox!KeysOf
    <3>3. CASE keeps /\ sending # {}
      <4>1. told' = told \cup sending /\ doubt' = doubt /\ channel'.cursor = Outbox!Top(sending)
        BY <3>1, <3>3 DEF OutboxInv, TelegramInv
      <4>2. sending \subseteq Outbox!Ids BY IdsAreNaturals DEF OutboxInv, TelegramInv, Batched, Own
      <4>3. Outbox!Top(sending) \in sending \cup {0} /\ \A y \in sending : y <= Outbox!Top(sending)
        BY <4>2, TopOf
      <4>4. PICK y \in sending : TRUE BY <3>3
      <4>5. Outbox!Top(sending) \in Nat /\ y \in Nat /\ y <= Outbox!Top(sending) BY <1>0, <4>3, 0 \in Nat
      <4>6. \A i \in told : events[i].key \notin doubt => i < y BY DEF DoubtInv, Batched
      <4>7. \A i \in told : events[i].key \notin doubt => i <= Outbox!Top(sending)
        BY <1>0, <4>5, <4>6
      <4>8. \A i \in sending : i <= channel'.cursor BY <4>1, <4>3
      <4> QED BY <1>k, <3>1, <3>2, <4>1, <4>7, <4>8 DEF DoubtInv
    <3>4. CASE ~(keeps /\ sending # {})
      <4>1. channel' = channel /\ told' = told BY <3>1, <3>4
      <4> QED BY <1>k, <3>1, <3>2, <4>1 DEF DoubtInv
    <3> QED BY <3>3, <3>4
  <2> QED BY <2>2, <2>3
<1>3. CASE Outbox!StartDelivery
  <2>1. /\ UNCHANGED <<channel, sending, told, doubt, twice>>
        /\ batch' = {i \in Outbox!Here \cup Own : i > channel.cursor}
    BY <1>3 DEF Outbox!StartDelivery, Outbox!Listed, Own
  <2>2. sending = {} BY <1>3 DEF Outbox!StartDelivery, OutboxInv, TelegramInv, Batched
  <2>3. \A i \in Outbox!Here \cup Own : i \in Nat BY IdsAreNaturals DEF Own
  <2>4. \A b \in Batched' : b \in Nat /\ channel.cursor < b BY <1>0, <2>1, <2>2, <2>3 DEF Batched
  <2>5. \A i \in told : i <= channel.cursor => \A b \in Batched' : i < b BY <1>0, <2>4
  <2> QED BY <1>k, <2>1, <2>5 DEF DoubtInv
<1>4. CASE Outbox!SendNext
  <2>1. /\ UNCHANGED <<channel, told, doubt>> /\ batch # {} /\ Outbox!Tell(Outbox!Min(batch))
        /\ sending' = sending \cup {Outbox!Min(batch)} /\ batch' = batch \ {Outbox!Min(batch)}
    BY <1>4 DEF Outbox!SendNext
  <2>2. Outbox!Min(batch) \in batch /\ twice' \subseteq doubt BY <2>1, TellsDoubtful
  <2>3. Batched' = Batched BY <2>1, <2>2 DEF Batched
  <2> QED BY <1>k, <2>1, <2>2, <2>3 DEF DoubtInv
<1>5. CASE Outbox!SendUnanswered
  <2>1. /\ UNCHANGED <<channel, told, sending>> /\ batch # {} /\ Outbox!Tell(Outbox!Min(batch))
        /\ doubt' = doubt \cup {events[Outbox!Min(batch)].key} /\ batch' = {}
    BY <1>5 DEF Outbox!SendUnanswered
  <2>2. twice' \subseteq doubt /\ events[Outbox!Min(batch)].key \in News BY <2>1, TellsDoubtful
  <2>3. Batched' \subseteq Batched BY <2>1 DEF Batched
  <2> QED BY <1>k, <2>1, <2>2, <2>3 DEF DoubtInv
<1>6. CASE Outbox!StopDelivery
  <2>1. UNCHANGED <<channel, sending, told, doubt, twice>> /\ batch' = {}
    BY <1>6 DEF Outbox!StopDelivery
  <2>2. Batched' \subseteq Batched BY <2>1 DEF Batched
  <2> QED BY <1>k, <2>1, <2>2 DEF DoubtInv
<1>7. CASE Outbox!Toggle
  <2>1. /\ UNCHANGED <<batch, sending, told, twice>>
        /\ channel' = [enabled |-> toggle.on,
             cursor |-> IF toggle.renews THEN toggle.tail ELSE channel.cursor]
        /\ doubt' = IF toggle.renews THEN doubt \cup Outbox!KeysOf({i \in told : i > toggle.tail})
             ELSE doubt
    BY <1>7 DEF Outbox!Toggle
  <2>2. channel'.cursor = IF toggle.renews THEN toggle.tail ELSE channel.cursor BY <2>1
  <2>3. doubt \subseteq doubt' /\ doubt' \subseteq News /\ Batched' = Batched
    BY <1>0, <2>1 DEF DoubtInv, Batched, Outbox!KeysOf
  <2>4. \A i \in told : events[i].key \notin doubt' => i <= channel'.cursor
    BY <1>0, <2>1, <2>2 DEF DoubtInv, Outbox!KeysOf
  <2> QED BY <1>k, <2>1, <2>3, <2>4 DEF DoubtInv
<1>8. CASE UNCHANGED outboxVars \/ \E t \in Emitters, k \in News : Outbox!Emit(t, k)
  BY <1>1, <1>8 DEF outboxVars, Outbox!Emit, Outbox!telegram
<1>9. CASE Outbox!Connect \/ Outbox!StreamBatch \/ Outbox!Show \/ Outbox!Disconnect
           \/ \E b \in BOOLEAN : Outbox!AskToggle(b)
  BY <1>1, <1>9 DEF Outbox!Connect, Outbox!StreamBatch, Outbox!Show, Outbox!Disconnect, Outbox!telegram,
     Outbox!AskToggle
<1> QED BY <1>2, <1>3, <1>4, <1>5, <1>6, <1>7, <1>8, <1>9 DEF Outbox!Next

\* The invariant of the outbox implies its type invariant.
LEMMA OutboxTypes ==
  ASSUME OutboxInv, DoubtInv
  PROVE  Outbox!TypeOK
<1> USE DEF OutboxInv
<1>1. 0..MaxId = Outbox!Ids \cup {0} /\ MaxId \in Nat BY OutboxConstants DEF Outbox!Ids
<1>2. \A i \in Outbox!Ids : events[i].at # "none" => i \in 1..(nextId - 1)
  BY <1>1 DEF TableInv, Outbox!Ids
<1>3. Outbox!Here \cup Own \subseteq 1..(nextId - 1) BY <1>2 DEF Outbox!Here, Own, Outbox!DraftsOf
<1>4. batch \cup sending \cup told \cup phone.shown \cup stream.wire \subseteq 1..(nextId - 1)
  BY <1>3 DEF TelegramInv, PhoneInv, Batched
<1>5. phone.cursor \in 0..MaxId BY <1>1, IdsAreNaturals DEF PhoneInv, IsTop
<1>6. \A i \in Outbox!Ids : events[i] \in EventRows BY DEF TableInv
<1>7. \A i, j \in {h \in Outbox!Ids : events[h].at \in {"draft", "here"}} :
        events[i].key = events[j].key => i = j
  BY DEF TableInv
<1>8. stream.cursor \in 0..MaxId /\ stream.on \in BOOLEAN BY <1>1 DEF PhoneInv
<1>9. channel \in [enabled : BOOLEAN, cursor : 0..MaxId]
      /\ toggle \in [asked : BOOLEAN, on : BOOLEAN, renews : BOOLEAN, tail : 0..MaxId]
  BY <1>1 DEF TelegramInv
<1>10. phase \in [Emitters -> {"emit", "deliver", "sent"}] BY DEF TableInv, Phases
<1> QED BY <1>4, <1>5, <1>6, <1>7, <1>8, <1>9, <1>10 DEF Outbox!TypeOK, TableInv, EventRows, DoubtInv

-----------------------------------------------------------------------------
\* The exits of a paper trade: an inductive invariant over the bars of one call and over the calls.

Names == {"legacy", "defensive", "conviction"}

\* The constants of the exits.
LEMMA ExitConstants ==
  /\ Levels \subseteq Int /\ Start \in Int
  /\ HourLen \in Nat \ {0} /\ HourLen <= MaxMinute /\ Limit \in Nat \ {0}
  /\ MaxMinute \in Nat /\ Horizon \in Nat /\ MaxHold \in Nat /\ HandoffAge \in Nat
  /\ Policies \subseteq Names /\ Venues \subseteq {"forts", "crypto"}
BY ExitAssumption DEF Names

\* The numbers of the three policies.
LEMMA LegacyNumbers ==
  LET P == Exit!Policy("legacy") IN
  P.shares = <<40, 40, 20>> /\ P.locks = <<0, 4>> /\ P.v2 = FALSE
BY DEF Exit!Policy, Exit!Entry, Exit!Targets
\* The numbers of the defensive policy.
LEMMA DefensiveNumbers ==
  LET P == Exit!Policy("defensive") IN
  /\ P.shares = <<50, 35, 15>> /\ P.locks = <<0, 4>> /\ P.v2 = TRUE
  /\ P.minTrail \in Int /\ P.atr10 \in Int /\ P.giveback \in Int /\ P.timeStop \in Int
BY DEF Exit!Policy
\* The numbers of the conviction policy.
LEMMA ConvictionNumbers ==
  LET P == Exit!Policy("conviction") IN
  /\ P.shares = <<20, 25, 55>> /\ P.locks = <<-1, 1>> /\ P.v2 = TRUE
  /\ P.minTrail \in Int /\ P.atr10 \in Int /\ P.giveback \in Int /\ P.timeStop \in Int
BY DEF Exit!Policy

\* The prices of a stretch of the path have a least and a greatest one.
LEMMA Extremes ==
  ASSUME NEW f, NEW a \in Nat, NEW n \in Nat, \A k \in a..(a + n) : f[k] \in Int
  PROVE  LET S == {f[k] : k \in a..(a + n)} IN
         /\ \E x \in S : \A y \in S : x >= y
         /\ \E x \in S : \A y \in S : x <= y
<1> DEFINE S(m) == {f[k] : k \in a..(a + m)}
           Good(m) == /\ \E x \in S(m) : \A y \in S(m) : x >= y
                      /\ (\E x \in S(m) : \A y \in S(m) : x <= y)
           Bad == {m \in 0..n : ~Good(m)}
<1>1. Good(0)
  <2>1. S(0) = {f[a]}
    <3>1. a..(a + 0) = {a} OBVIOUS
    <3> QED BY <3>1
  <2>2. f[a] \in Int OBVIOUS
  <2> QED BY <2>1, <2>2
<1>2. ASSUME NEW m \in 0..n, m + 1 \in 0..n, Good(m) PROVE Good(m + 1)
  <2>1. S(m + 1) = S(m) \cup {f[a + m + 1]}
    <3>1. a..(a + (m + 1)) = (a..(a + m)) \cup {a + m + 1} OBVIOUS
    <3> QED BY <3>1
  <2>2. f[a + m + 1] \in Int /\ \A y \in S(m) : y \in Int BY <1>2
  <2> HIDE DEF S
  <2>3. \E x \in S(m + 1) : \A y \in S(m + 1) : x >= y
    <3>1. PICK x \in S(m) : \A y \in S(m) : x >= y BY <1>2
    <3>2. CASE x >= f[a + m + 1] BY <2>1, <2>2, <3>1, <3>2
    <3>3. CASE ~(x >= f[a + m + 1])
      <4>1. \A y \in S(m) : f[a + m + 1] >= y BY <2>2, <3>1, <3>3
      <4> QED BY <2>1, <2>2, <4>1
    <3> QED BY <3>2, <3>3
  <2>4. \E x \in S(m + 1) : \A y \in S(m + 1) : x <= y
    <3>1. PICK x \in S(m) : \A y \in S(m) : x <= y BY <1>2
    <3>2. CASE x <= f[a + m + 1] BY <2>1, <2>2, <3>1, <3>2
    <3>3. CASE ~(x <= f[a + m + 1])
      <4>1. \A y \in S(m) : f[a + m + 1] <= y BY <2>2, <3>1, <3>3
      <4> QED BY <2>1, <2>2, <4>1
    <3> QED BY <3>2, <3>3
  <2> QED BY <2>3, <2>4
<1>3. Bad = {}
  <2> SUFFICES ASSUME Bad # {} PROVE FALSE OBVIOUS
  <2>1. Bad \subseteq Nat OBVIOUS
  <2> HIDE DEF Good
  <2>2. PICK m \in Bad : \A k \in Bad : m <= k BY <2>1, LeastOf
  <2>3. m # 0 BY <1>1
  <2>4. m - 1 \in 0..n /\ m - 1 \notin Bad /\ (m - 1) + 1 = m BY <2>1, <2>2, <2>3
  <2> QED BY <1>2, <2>2, <2>4
<1>4. n \in 0..n OBVIOUS
<1>5. Good(n) BY <1>3, <1>4
<1> QED BY <1>5

IsBar(b) ==
  /\ b.open \in Nat /\ b.end \in Nat /\ b.open < b.end /\ b.end <= MaxMinute
  /\ b.low \in Int /\ b.high \in Int /\ b.close \in Int

\* A bar of a stretch of the path begins before it ends, and its prices are prices of the path.
LEMMA BarsAreBars ==
  ASSUME path \in Seq(Int), NEW from \in Nat, NEW to \in Nat, from < to, to <= Exit!Now,
         Exit!Now <= MaxMinute,
         MaxMinute \in Nat
  PROVE  LET b == Exit!BarOf(from, to) IN IsBar(b) /\ b.open = from /\ b.end = to
<1> DEFINE n == to - from
           S == {path[k] : k \in (from + 1)..((from + 1) + n)}
           b == Exit!BarOf(from, to)
<1>1. n \in Nat /\ from + 1 \in Nat /\ (from + 1) + n = to + 1 OBVIOUS
<1>2. \A k \in (from + 1)..((from + 1) + n) : path[k] \in Int
  <2>1. Len(path) \in Nat /\ \A k \in 1..Len(path) : path[k] \in Int OBVIOUS
  <2>2. to + 1 <= Len(path) BY <2>1 DEF Exit!Now
  <2> QED BY <1>1, <2>1, <2>2
<1>3. /\ \E x \in S : \A y \in S : x >= y
      /\ \E x \in S : \A y \in S : x <= y
  BY <1>1, <1>2, Extremes
<1>4. b = [open |-> from, end |-> to, low |-> Exit!Min(S), high |-> Exit!Max(S), close |-> path[to + 1]]
  BY <1>1 DEF Exit!BarOf
<1>5. S \subseteq Int BY <1>2
<1>6. path[to + 1] \in Int
  <2>1. to + 1 \in (from + 1)..((from + 1) + n) BY <1>1
  <2> QED BY <2>1, <1>2
<1> HIDE DEF S
<1>7. Exit!Max(S) \in Int /\ Exit!Min(S) \in Int BY <1>3, <1>5 DEF Exit!Max, Exit!Min
<1>8. Exit!Now \in Int BY DEF Exit!Now
<1>9. b.open = from /\ b.end = to /\ b.close \in Int /\ b.low \in Int /\ b.high \in Int
  BY <1>4, <1>6, <1>7
<1> QED BY <1>8, <1>9 DEF IsBar

Times == -1..MaxMinute
Shares == {<<40, 40, 20>>, <<50, 35, 15>>, <<20, 25, 55>>}
PaperRows == [shares : Shares,
         status : {"PENDING", "OPEN", "CLOSED", "CANCELLED"}, stop : Int, taken : 0..3,
         realized : Int, sold : 0..100, approved : Times, opened : Times, cursor : Times,
         breakeven : Times, outcome : {"none", "SL", "BE", "TP", "TIME", "cancelled", "horizon"},
         closedAt : Times, filledAt : Times, filledEnd : Times, stopEnd : Times,
         readFrom : Int, readTo : Int]

\* What a live trade has booked for the targets it has taken.
Booked(t) == LET s == t.shares IN
  /\ t.sold = CASE t.taken = 0 -> 0 [] t.taken = 1 -> s[1] [] OTHER -> s[1] + s[2]
  /\ t.realized = CASE t.taken = 0 -> 0 [] t.taken = 1 -> 4 * s[1] [] OTHER -> 4 * s[1] + 8 * s[2]
Well(t) ==
  /\ t \in PaperRows /\ t.stop >= -4
  /\ (t.status = "PENDING") = (t.filledAt = -1 /\ t.outcome = "none")
  /\ t.status \in {"PENDING", "OPEN"} => t.outcome = "none" /\ Booked(t)
  /\ t.status = "PENDING" => t.taken = 0

\* Nothing the trade knows is younger than the end m of the bars it was led through.
OnTime(t, m) ==
  /\ t.approved <= m /\ t.stopEnd <= m /\ t.filledEnd <= m
  /\ t.filledAt # -1 => t.filledAt > t.approved
  /\ t.outcome \in {"SL", "BE"} =>
       t.closedAt >= t.stopEnd /\ (t.closedAt = t.filledAt \/ t.closedAt >= t.filledEnd)

Locked(P, t) ==
  /\ t.taken >= 1 => t.stop >= P.locks[1]
  /\ t.taken >= 2 => t.stop >= P.locks[2]

\* The trade was led by its own policy: the stop is where the targets have put it, what has ended
\* is booked.
Signed(P, t) ==
  /\ t.shares = P.shares
  /\ Locked(P, t)
  /\ t.status \in {"PENDING", "OPEN"} /\ t.taken = 3 => P.v2
  /\ t.outcome \in {"SL", "BE", "TP", "TIME"} =>
       t.sold = 100 /\ (t.taken > 0 => t.realized >= 0)

\* Everything that one bar keeps.
Led(P, t, m) == Well(t) /\ OnTime(t, m)

\* The fill of an order by a bar leaves a trade that is led up to the end of the bar.
LEMMA Fills ==
  ASSUME NEW P, NEW t, NEW b, NEW m \in Int, Led(P, t, m), IsBar(b), b.open >= m, b.open > t.approved
  PROVE  LET u == Exit!Fill(P, t, b) IN
         /\ Led(P, u, IF u = t THEN m ELSE b.end) /\ u.shares = t.shares /\ u.approved = t.approved
         /\ Signed(P, t) => Signed(P, u)
         /\ u.filledAt # t.filledAt => u.filledAt = b.open
         /\ u.stop = t.stop /\ u.stopEnd = t.stopEnd
<1> DEFINE u == Exit!Fill(P, t, b)
<1>1. CASE u = t BY <1>1
<1>2. CASE u # t
  <2>1. /\ t.status = "PENDING"
        /\ u = [t EXCEPT !.status = "OPEN", !.filledAt = b.open, !.filledEnd = b.end,
                 !.opened = IF P.v2 THEN b.open ELSE @]
    BY <1>2 DEF Exit!Fill
  <2>2. t \in PaperRows BY DEF Led, Well
  <2>3. b.open \in Times /\ b.end \in Times BY ExitConstants DEF IsBar, Times
  <2> DEFINE o == IF P.v2 THEN b.open ELSE t.opened
  <2>a. o \in Times BY <2>2, <2>3 DEF PaperRows
  <2>b. u = [t EXCEPT !.status = "OPEN", !.filledAt = b.open, !.filledEnd = b.end, !.opened = o] BY <2>1
  <2> HIDE DEF o, u
  <2>4. u \in PaperRows BY <2>b, <2>a, <2>2, <2>3 DEF PaperRows
  <2>5. /\ u.status = "OPEN" /\ u.filledAt = b.open /\ u.filledEnd = b.end
        /\ u.shares = t.shares /\ u.stop = t.stop /\ u.stopEnd = t.stopEnd /\ u.taken = t.taken
        /\ u.sold = t.sold /\ u.realized = t.realized /\ u.outcome = t.outcome
        /\ u.approved = t.approved
    BY <2>b, <2>2 DEF PaperRows
  <2>6. t.outcome = "none" /\ Booked(t) BY <2>1 DEF Led, Well
  <2>7. Booked(u) BY <2>5, <2>6 DEF Booked
  <2>8. Well(u)
    <3>1. b.open # -1 BY DEF IsBar
    <3> QED BY <3>1, <2>4, <2>5, <2>6, <2>7 DEF Led, Well
  <2>9. OnTime(u, b.end) /\ b.end \in Int
    <3>1. t.approved \in Int /\ t.stopEnd \in Int BY <2>2, ExitConstants DEF PaperRows, Times
    <3> QED BY <2>5, <2>6, <3>1 DEF Led, OnTime, IsBar
  <2>10. Signed(P, t) => Signed(P, u) BY <2>5, <2>6, <2>1 DEF Signed, Locked
  <2> QED BY <2>5, <2>8, <2>9, <2>10, <1>2 DEF Led, u
<1> QED BY <1>1, <1>2

\* What is left of the position together with what was sold is never more than the whole, and the
\* whole unless a plain policy has taken its last target.
LEMMA RemainingShare ==
  ASSUME NEW P, P.v2 \in BOOLEAN, NEW t, Well(t), t.status = "OPEN"
  PROVE  LET r == Exit!Remaining(P, t) IN
         /\ r \in 0..100 /\ t.sold + r \in 0..100
         /\ P.v2 \/ t.taken < 3 => t.sold + r = 100
<1>1. t \in PaperRows /\ Booked(t) BY DEF Well
<1>2. t.taken \in 0..3 BY <1>1 DEF PaperRows
<1> DEFINE s == t.shares
<1>3. s \in Shares BY <1>1 DEF PaperRows
<1>4. /\ s[1] \in Nat /\ s[2] \in Nat /\ s[3] \in Nat /\ s[1] + s[2] + s[3] = 100
  BY <1>3 DEF Shares
<1>5. Exit!Exited(t) = IF t.taken = 0 THEN 0 ELSE IF t.taken = 1 THEN s[1] ELSE
      IF t.taken = 2 THEN s[1] + s[2]
                       ELSE s[1] + s[2] + s[3]
  <2>1. CASE t.taken = 0 BY <2>1 DEF Exit!Exited
  <2>2. CASE t.taken = 1 BY <2>2 DEF Exit!Exited
  <2>3. CASE t.taken = 2 BY <2>3 DEF Exit!Exited
  <2>4. CASE t.taken = 3 BY <2>4 DEF Exit!Exited
  <2> QED BY <1>2, <2>1, <2>2, <2>3, <2>4
<1>6. t.sold = IF t.taken = 0 THEN 0 ELSE IF t.taken = 1 THEN s[1] ELSE s[1] + s[2]
  BY <1>1 DEF Booked
<1>7. Exit!Remaining(P, t) = IF P.v2 /\ t.taken = 3 THEN s[3] ELSE 100 - Exit!Exited(t)
  BY DEF Exit!Remaining
<1> HIDE DEF s
<1>8. CASE P.v2 /\ t.taken = 3 BY <1>4, <1>6, <1>7, <1>8
<1>9. CASE ~P.v2 \/ t.taken # 3
  <2>1. Exit!Remaining(P, t) = 100 - Exit!Exited(t) BY <1>7, <1>9
  <2>2. P.v2 \/ t.taken < 3 => t.taken < 3 BY <1>2, <1>9
  <2>3. Exit!Remaining(P, t) \in 0..100 /\ t.sold + Exit!Remaining(P, t) \in 0..100
    <3>1. CASE t.taken = 0 BY <1>4, <1>5, <1>6, <2>1, <3>1
    <3>2. CASE t.taken = 1 BY <1>4, <1>5, <1>6, <2>1, <3>2
    <3>3. CASE t.taken = 2 BY <1>4, <1>5, <1>6, <2>1, <3>3
    <3>4. CASE t.taken = 3
      <4>1. Exit!Exited(t) = 100 BY <1>4, <1>5, <3>4
      <4>2. t.sold = s[1] + s[2] BY <1>6, <3>4
      <4> QED BY <1>4, <2>1, <4>1, <4>2
    <3> QED BY <1>2, <3>1, <3>2, <3>3, <3>4
  <2>4. t.taken < 3 => t.sold + Exit!Remaining(P, t) = 100 BY <1>2, <1>4, <1>5, <1>6, <2>1
  <2> QED BY <2>2, <2>3, <2>4
<1> QED BY <1>8, <1>9

\* An open trade before a bar.
Facing(t, b) ==
  /\ Well(t) /\ t.status = "OPEN"
  /\ t.approved <= b.open /\ t.stopEnd <= b.open /\ t.filledEnd <= b.end
  /\ t.filledAt = b.open \/ t.filledEnd <= b.open
  /\ t.filledAt # -1 /\ t.filledAt > t.approved

\* The close of an open trade books what was left of the position.
LEMMA Closes ==
  ASSUME NEW P, P.v2 \in BOOLEAN, NEW t, NEW b, Facing(t, b), IsBar(b), NEW price \in Int,
         NEW o \in {"SL", "BE", "TIME"}
  PROVE  LET u == Exit!CloseAt(P, t, b, price, o)
             r == Exit!Remaining(P, t)
         IN /\ Led(P, u, b.end) /\ u.shares = t.shares /\ u.approved = t.approved /\ u.status = "CLOSED"
            /\ u.taken = t.taken /\ u.sold = t.sold + r /\ u.realized = t.realized + price * r
<1> DEFINE u == Exit!CloseAt(P, t, b, price, o)
           r == Exit!Remaining(P, t)
<1>1. t \in PaperRows BY DEF Facing, Well
<1>2. r \in Int /\ t.sold + r \in 0..100 BY RemainingShare DEF Facing
<1> HIDE DEF r
<1>3. b.open \in Times BY ExitConstants DEF IsBar, Times
<1>4. t.realized + price * r \in Int
  <2>1. t.realized \in Int BY <1>1 DEF PaperRows
  <2>2. price * r \in Int BY <1>2
  <2> QED BY <2>1, <2>2
<1> DEFINE x == t.realized + price * r
           y == t.sold + r
<1>5. u = [t EXCEPT !.status = "CLOSED", !.outcome = o, !.closedAt = b.open, !.realized = x, !.sold = y]
  BY <1>1 DEF Exit!CloseAt, r, PaperRows
<1> HIDE DEF x, y, u
<1>6. x \in Int /\ y \in 0..100 BY <1>2, <1>4 DEF x, y
<1>7. u \in PaperRows BY <1>1, <1>3, <1>5, <1>6 DEF PaperRows
<1>8. /\ u.status = "CLOSED" /\ u.outcome = o /\ u.closedAt = b.open /\ u.realized = x /\ u.sold = y
      /\ u.shares = t.shares /\ u.stop = t.stop /\ u.stopEnd = t.stopEnd /\ u.taken = t.taken
      /\ u.filledAt = t.filledAt /\ u.filledEnd = t.filledEnd /\ u.approved = t.approved
  BY <1>1, <1>5 DEF PaperRows
<1>9. Well(u) BY <1>7, <1>8 DEF Facing, Well
<1>10. OnTime(u, b.end)
  <2>1. /\ t.approved \in Int /\ t.stopEnd \in Int /\ t.filledEnd \in Int /\ b.open \in Int
        /\ b.end \in Int
        /\ b.open < b.end
    BY <1>1, ExitConstants DEF PaperRows, Times, IsBar
  <2> QED BY <1>8, <2>1 DEF Facing, OnTime
<1> QED BY <1>8, <1>9, <1>10 DEF Led, u, x, y, r

IsPolicy(P) ==
  /\ \E name \in Names : P = Exit!Policy(name)
  /\ P.v2 \in BOOLEAN /\ P.locks[1] \in Int /\ P.locks[2] \in Int
  /\ P.v2 => P.minTrail \in Int /\ P.atr10 \in Int /\ P.giveback \in Int /\ P.timeStop \in Int

\* Each of the three names is that of a policy.
LEMMA PoliciesArePolicies == ASSUME NEW name \in Names PROVE IsPolicy(Exit!Policy(name))
<1>1. IsPolicy(Exit!Policy("legacy"))
  <2> DEFINE P == Exit!Policy("legacy")
  <2>1. P.v2 = FALSE /\ P.locks[1] = 0 /\ P.locks[2] = 4 BY LegacyNumbers
  <2> HIDE DEF P
  <2>2. P.v2 \in BOOLEAN /\ ~P.v2 BY <2>1
  <2>3. P.locks[1] \in Int /\ P.locks[2] \in Int BY <2>1
  <2> QED BY <2>2, <2>3 DEF IsPolicy, P, Names
<1>2. IsPolicy(Exit!Policy("defensive"))
  <2> DEFINE P == Exit!Policy("defensive")
  <2>1. P.v2 = TRUE /\ P.locks[1] = 0 /\ P.locks[2] = 4 BY DefensiveNumbers
  <2>2. P.minTrail \in Int /\ P.atr10 \in Int /\ P.giveback \in Int /\ P.timeStop \in Int
    BY DefensiveNumbers
  <2> HIDE DEF P
  <2>3. P.v2 \in BOOLEAN BY <2>1
  <2>4. P.locks[1] \in Int /\ P.locks[2] \in Int BY <2>1
  <2> QED BY <2>2, <2>3, <2>4 DEF IsPolicy, P, Names
<1>3. IsPolicy(Exit!Policy("conviction"))
  <2> DEFINE P == Exit!Policy("conviction")
  <2>1. P.v2 = TRUE /\ P.locks[1] = -1 /\ P.locks[2] = 1 BY ConvictionNumbers
  <2>2. P.minTrail \in Int /\ P.atr10 \in Int /\ P.giveback \in Int /\ P.timeStop \in Int
    BY ConvictionNumbers
  <2> HIDE DEF P
  <2>3. P.v2 \in BOOLEAN BY <2>1
  <2>4. P.locks[1] \in Int /\ P.locks[2] \in Int BY <2>1
  <2> QED BY <2>2, <2>3, <2>4 DEF IsPolicy, P, Names
<1> QED BY <1>1, <1>2, <1>3 DEF Names

\* An open trade in a bar whose stop has held.
Sound(t, b) ==
  /\ t \in PaperRows /\ t.status = "OPEN" /\ t.outcome = "none" /\ t.stop >= -4 /\ t.filledAt # -1
  /\ OnTime(t, b.end)

\* An open trade that has booked what it took is led.
LEMMA SoundIsLed ==
  ASSUME NEW t, NEW b, Sound(t, b), Booked(t)
  PROVE  \A P : Led(P, t, b.end)
BY DEF Sound, Led, Well

\* A trade that a bar finds open is sound in that bar.
LEMMA FacingIsSound ==
  ASSUME NEW t, NEW b, Facing(t, b), IsBar(b)
  PROVE  Sound(t, b) /\ Booked(t)
<1>1. t \in PaperRows BY DEF Facing, Well
<1>2. t.stopEnd \in Int /\ t.approved \in Int BY <1>1, ExitConstants DEF PaperRows, Times
<1> QED BY <1>1, <1>2 DEF Facing, Sound, Well, OnTime, IsBar

\* The stop is only moved up.
LEMMA MovesStop ==
  ASSUME NEW t, NEW b, Sound(t, b), IsBar(b), NEW price \in Int
  PROVE  LET u == Exit!MoveStop(t, b, price) IN
         /\ Sound(u, b) /\ u.shares = t.shares /\ u.taken = t.taken /\ u.sold = t.sold
         /\ u.realized = t.realized /\ u.approved = t.approved
         /\ u.stop >= price /\ u.stop >= t.stop
<1> DEFINE u == Exit!MoveStop(t, b, price)
<1>1. t \in PaperRows /\ t.stop \in Int BY DEF Sound, PaperRows
<1>2. CASE price <= t.stop
  <2>1. u = t BY <1>2 DEF Exit!MoveStop
  <2> QED BY <1>1, <1>2, <2>1
<1>3. CASE ~(price <= t.stop)
  <2> DEFINE e == IF price >= Exit!Entry /\ t.breakeven = Exit!None THEN b.open ELSE t.breakeven
  <2>1. u = [t EXCEPT !.stop = price, !.stopEnd = b.end, !.breakeven = e]
    BY <1>1, <1>3 DEF Exit!MoveStop, PaperRows
  <2>2. b.open \in Times /\ b.end \in Times BY ExitConstants DEF IsBar, Times
  <2>3. e \in Times BY <1>1, <2>2 DEF PaperRows
  <2> HIDE DEF e, u
  <2>4. u \in PaperRows BY <1>1, <2>1, <2>2, <2>3 DEF PaperRows
  <2>5. /\ u.status = t.status /\ u.outcome = t.outcome /\ u.shares = t.shares /\ u.taken = t.taken
        /\ u.sold = t.sold /\ u.realized = t.realized /\ u.approved = t.approved /\ u.stop = price
        /\ u.stopEnd = b.end /\ u.filledAt = t.filledAt /\ u.filledEnd = t.filledEnd
    BY <1>1, <2>1 DEF PaperRows
  <2>6. Sound(u, b) BY <1>1, <1>3, <2>4, <2>5 DEF Sound, OnTime, IsBar
  <2> QED BY <1>1, <1>3, <2>5, <2>6 DEF u
<1> QED BY <1>2, <1>3

\* The record of a target that is taken.
IsPaid(u, t, i, x, y) == u = [t EXCEPT !.taken = i, !.sold = x, !.realized = y]
\* What the targets pay.
LEMMA Pays ==
  ASSUME NEW t, NEW b, Sound(t, b), NEW i \in 0..3, NEW x \in 0..100, NEW y \in Int,
         NEW u, IsPaid(u, t, i, x, y)
  PROVE  /\ Sound(u, b) /\ u.shares = t.shares /\ u.taken = i /\ u.sold = x
         /\ u.realized = y /\ u.approved = t.approved /\ u.stop = t.stop
<1>1. t \in PaperRows BY DEF Sound
<1>2. u \in PaperRows BY <1>1 DEF PaperRows, IsPaid
<1>3. /\ u.status = t.status /\ u.outcome = t.outcome /\ u.shares = t.shares /\ u.taken = i
      /\ u.sold = x /\ u.realized = y /\ u.approved = t.approved /\ u.stop = t.stop
      /\ u.closedAt = t.closedAt
      /\ u.stopEnd = t.stopEnd /\ u.filledAt = t.filledAt /\ u.filledEnd = t.filledEnd
  BY <1>1 DEF PaperRows, IsPaid
<1>4. Sound(u, b) BY <1>2, <1>3 DEF Sound, OnTime
<1> QED BY <1>3, <1>4

\* The shares of the three policies are the whole position together.
LEMMA ShareNumbers ==
  ASSUME NEW t, t \in PaperRows
  PROVE  /\ t.shares[1] \in Nat /\ t.shares[2] \in Nat /\ t.shares[3] \in Nat
         /\ t.shares[1] + t.shares[2] + t.shares[3] = 100
<1>1. t.shares \in Shares BY DEF PaperRows
<1> QED BY <1>1 DEF Shares

\* The first and the second target.
LEMMA TakesFirst ==
  ASSUME NEW P, IsPolicy(P), NEW t, NEW b, Sound(t, b), Booked(t), IsBar(b), t.taken = 0
  PROVE  LET u == Exit!TakeTarget(P, t, b, 1) IN
         /\ Sound(u, b) /\ Booked(u) /\ (Locked(P, t) => Locked(P, u)) /\ u.taken = 1
         /\ u.shares = t.shares /\ u.approved = t.approved
<1> DEFINE s == t.shares
           x == t.sold + s[1]
           y == t.realized + 4 * s[1]
           paid == [t EXCEPT !.taken = 1, !.sold = x, !.realized = y]
           lock == P.locks[1]
           u == Exit!MoveStop(paid, b, lock)
<1>1. t \in PaperRows BY DEF Sound
<1>2. s[1] \in Nat /\ s[1] <= 100 BY <1>1, ShareNumbers
<1>3. t.sold = 0 /\ t.realized = 0 BY DEF Booked
<1>4. Exit!TakeTarget(P, t, b, 1) = u
  BY <1>1 DEF Exit!TakeTarget, Exit!Targets, PaperRows
<1> HIDE DEF s
<1>a. x \in 0..100 /\ y \in Int
  <2>1. x \in 0..100 BY <1>2, <1>3
  <2>2. y \in Int BY <1>2, <1>3
  <2> QED BY <2>1, <2>2
<1> HIDE DEF x, y
<1>b. IsPaid(paid, t, 1, x, y) BY DEF IsPaid
<1> HIDE DEF paid
<1>5. /\ Sound(paid, b) /\ paid.shares = t.shares /\ paid.taken = 1 /\ paid.sold = x
      /\ paid.realized = y /\ paid.approved = t.approved /\ paid.stop = t.stop
  BY <1>a, <1>b, Pays
<1>6. P.locks[1] \in Int BY DEF IsPolicy
<1>c. lock \in Int BY <1>6
<1> HIDE DEF lock
<1>7. /\ Sound(u, b) /\ u.shares = paid.shares /\ u.taken = paid.taken /\ u.sold = paid.sold
      /\ u.realized = paid.realized /\ u.approved = paid.approved /\ u.stop >= lock
      /\ u.stop >= paid.stop
  BY <1>5, <1>c, MovesStop
<1> HIDE DEF u
<1>8. Booked(u) BY <1>2, <1>3, <1>5, <1>7 DEF Booked, s, x, y
<1>9. Locked(P, t) => Locked(P, u) BY <1>5, <1>7 DEF Locked, lock
<1> QED BY <1>4, <1>5, <1>7, <1>8, <1>9

\* The second target books its share and moves the stop.
LEMMA TakesSecond ==
  ASSUME NEW P, IsPolicy(P), NEW t, NEW b, Sound(t, b), Booked(t), IsBar(b), t.taken = 1
  PROVE  LET u == Exit!TakeTarget(P, t, b, 2) IN
         /\ Sound(u, b) /\ Booked(u) /\ (Locked(P, t) => Locked(P, u)) /\ u.taken = 2
         /\ u.shares = t.shares /\ u.approved = t.approved
<1> DEFINE s == t.shares
           x == t.sold + s[2]
           y == t.realized + 8 * s[2]
           paid == [t EXCEPT !.taken = 2, !.sold = x, !.realized = y]
           lock == P.locks[2]
           u == Exit!MoveStop(paid, b, lock)
<1>1. t \in PaperRows BY DEF Sound
<1>2. s[1] \in Nat /\ s[2] \in Nat /\ s[1] + s[2] <= 100 BY <1>1, ShareNumbers
<1>3. t.sold = s[1] /\ t.realized = 4 * s[1] BY DEF Booked
<1>4. Exit!TakeTarget(P, t, b, 2) = u
  BY <1>1 DEF Exit!TakeTarget, Exit!Targets, PaperRows
<1> HIDE DEF s
<1>a. x \in 0..100 /\ y \in Int
  <2>1. x \in 0..100 BY <1>2, <1>3
  <2>2. y \in Int BY <1>2, <1>3
  <2> QED BY <2>1, <2>2
<1> HIDE DEF x, y
<1>b. IsPaid(paid, t, 2, x, y) BY DEF IsPaid
<1> HIDE DEF paid
<1>5. /\ Sound(paid, b) /\ paid.shares = t.shares /\ paid.taken = 2 /\ paid.sold = x
      /\ paid.realized = y /\ paid.approved = t.approved /\ paid.stop = t.stop
  BY <1>a, <1>b, Pays
<1>6. P.locks[1] \in Int /\ P.locks[2] \in Int BY DEF IsPolicy
<1>c. lock \in Int BY <1>6
<1> HIDE DEF lock
<1>7. /\ Sound(u, b) /\ u.shares = paid.shares /\ u.taken = paid.taken /\ u.sold = paid.sold
      /\ u.realized = paid.realized /\ u.approved = paid.approved /\ u.stop >= lock
      /\ u.stop >= paid.stop
  BY <1>5, <1>c, MovesStop
<1> HIDE DEF u
<1>8. Booked(u) BY <1>2, <1>3, <1>5, <1>7 DEF Booked, s, x, y
<1>9. Locked(P, t) => Locked(P, u)
  <2>1. t.stop \in Int /\ u.stop \in Int BY <1>1, <1>7 DEF Sound, PaperRows
  <2> QED BY <1>5, <1>6, <1>7, <2>1 DEF Locked, lock
<1> QED BY <1>4, <1>5, <1>7, <1>8, <1>9

\* The last target sells the last share, or makes the rest a runner.
LEMMA TakesLast ==
  ASSUME NEW P, IsPolicy(P), NEW t, NEW b, Sound(t, b), Booked(t), IsBar(b), t.taken = 2
  PROVE  LET u == Exit!TakeTarget(P, t, b, 3) IN
         /\ Sound(u, b) /\ (Locked(P, t) => Locked(P, u)) /\ u.taken = 3
         /\ u.shares = t.shares /\ u.approved = t.approved
         /\ P.v2 => Booked(u)
         /\ ~P.v2 => u.sold = 100 /\ u.realized >= 0
<1> DEFINE s == t.shares
           share == IF P.v2 THEN 0 ELSE s[3]
           x == t.sold + share
           y == t.realized + 12 * share
           u == [t EXCEPT !.taken = 3, !.sold = x, !.realized = y]
<1>1. t \in PaperRows BY DEF Sound
<1>2. s[1] \in Nat /\ s[2] \in Nat /\ s[3] \in Nat /\ s[1] + s[2] + s[3] = 100 BY <1>1, ShareNumbers
<1>3. t.sold = s[1] + s[2] /\ t.realized = 4 * s[1] + 8 * s[2] BY DEF Booked
<1>4. Exit!TakeTarget(P, t, b, 3) = u
  BY <1>1 DEF Exit!TakeTarget, Exit!Targets, PaperRows
<1> HIDE DEF s
<1>5. share \in Nat /\ t.sold + share <= 100
  <2>1. CASE P.v2 BY <2>1, <1>2, <1>3
  <2>2. CASE ~P.v2 BY <2>2, <1>2, <1>3
  <2> QED BY <2>1, <2>2
<1> HIDE DEF share
<1>a. x \in 0..100 /\ y \in Int
  <2>1. t.sold \in Nat /\ t.realized \in Int BY <1>2, <1>3
  <2>2. 12 * share \in Int BY <1>5
  <2>3. x \in 0..100 BY <1>5, <2>1
  <2>4. y \in Int BY <2>1, <2>2
  <2> QED BY <2>3, <2>4
<1>b. IsPaid(u, t, 3, x, y) BY DEF IsPaid
<1> HIDE DEF u, x, y
<1>6. /\ Sound(u, b) /\ u.shares = t.shares /\ u.taken = 3 /\ u.sold = x
      /\ u.realized = y /\ u.approved = t.approved /\ u.stop = t.stop
  BY <1>a, <1>b, Pays
<1>7. P.v2 => Booked(u)
  <2> SUFFICES ASSUME P.v2 PROVE Booked(u) OBVIOUS
  <2>1. share = 0 BY DEF share
  <2>2. u.sold = s[1] + s[2] /\ u.realized = 4 * s[1] + 8 * s[2] BY <2>1, <1>2, <1>3, <1>6 DEF x, y
  <2> QED BY <2>2, <1>6 DEF Booked, s
<1>8. ~P.v2 => u.sold = 100 /\ u.realized >= 0
  <2> SUFFICES ASSUME ~P.v2 PROVE u.sold = 100 /\ u.realized >= 0 OBVIOUS
  <2>1. share = s[3] BY DEF share
  <2> QED BY <2>1, <1>2, <1>3, <1>6 DEF x, y
<1>9. Locked(P, t) => Locked(P, u) BY <1>6 DEF Locked
<1> QED BY <1>4, <1>6, <1>7, <1>8, <1>9

\* All targets that a bar reaches.
LEMMA TakesTargets ==
  ASSUME NEW P, IsPolicy(P), NEW t, NEW b, Sound(t, b), Booked(t), IsBar(b)
  PROVE  LET u == Exit!TakeTargets(P, t, b) IN
         /\ Sound(u, b) /\ (Locked(P, t) => Locked(P, u)) /\ u.shares = t.shares
         /\ u.approved = t.approved
         /\ P.v2 \/ u.taken # 3 => Booked(u)
         /\ ~P.v2 /\ u.taken = 3 /\ t.taken < 3 => u.sold = 100 /\ u.realized >= 0
         /\ u.taken = 0 => u = t
<1> DEFINE v == Exit!TakeNext(P, t, b, 1)
           w == Exit!TakeNext(P, v, b, 2)
           u == Exit!TakeNext(P, w, b, 3)
<1>1. t.taken \in 0..3 BY DEF Sound, PaperRows
<1>2. /\ Sound(v, b) /\ Booked(v) /\ (Locked(P, t) => Locked(P, v)) /\ v.shares = t.shares
      /\ v.approved = t.approved
      /\ v = t \/ (v.taken = 1 /\ t.taken = 0)
  <2>1. CASE t.taken = 1 - 1 /\ b.high >= Exit!Targets[1]
    <3>1. v = Exit!TakeTarget(P, t, b, 1) BY <2>1 DEF Exit!TakeNext
    <3>2. t.taken = 0 BY <2>1
    <3> QED BY <3>1, <3>2, TakesFirst
  <2>2. CASE ~(t.taken = 1 - 1 /\ b.high >= Exit!Targets[1])
    <3>1. v = t BY <2>2 DEF Exit!TakeNext
    <3> HIDE DEF v
    <3> QED BY <3>1
  <2> QED BY <2>1, <2>2
<1>3. v.taken \in 0..3 BY <1>2 DEF Sound, PaperRows
<1> HIDE DEF v
<1>4. /\ Sound(w, b) /\ Booked(w) /\ (Locked(P, t) => Locked(P, w)) /\ w.shares = t.shares
      /\ w.approved = t.approved
      /\ w = v \/ (w.taken = 2 /\ v.taken = 1)
  <2>1. CASE v.taken = 2 - 1 /\ b.high >= Exit!Targets[2]
    <3>1. w = Exit!TakeTarget(P, v, b, 2) BY <2>1 DEF Exit!TakeNext
    <3>2. v.taken = 1 BY <2>1
    <3> QED BY <1>2, <3>1, <3>2, TakesSecond
  <2>2. CASE ~(v.taken = 2 - 1 /\ b.high >= Exit!Targets[2])
    <3>1. w = v BY <2>2 DEF Exit!TakeNext
    <3> HIDE DEF w
    <3> QED BY <3>1, <1>2
  <2> QED BY <2>1, <2>2
<1>5. w.taken \in 0..3 BY <1>4 DEF Sound, PaperRows
<1> HIDE DEF w
<1>6. /\ Sound(u, b) /\ (Locked(P, t) => Locked(P, u)) /\ u.shares = t.shares /\ u.approved = t.approved
      /\ P.v2 \/ u.taken # 3 \/ u = w => Booked(u)
      /\ u = w \/ (w.taken = 2 /\ u.taken = 3 /\ (~P.v2 => u.sold = 100 /\ u.realized >= 0))
  <2>1. CASE w.taken = 3 - 1 /\ b.high >= Exit!Targets[3]
    <3>1. u = Exit!TakeTarget(P, w, b, 3) BY <2>1 DEF Exit!TakeNext
    <3>2. w.taken = 2 BY <2>1
    <3> QED BY <1>4, <3>1, <3>2, TakesLast
  <2>2. CASE ~(w.taken = 3 - 1 /\ b.high >= Exit!Targets[3])
    <3>1. u = w BY <2>2 DEF Exit!TakeNext
    <3> QED BY <3>1, <1>4
  <2> QED BY <2>1, <2>2
<1>7. Exit!TakeTargets(P, t, b) = u BY DEF Exit!TakeTargets, v, w
<1>8. u.taken = 0 => u = t BY <1>2, <1>4, <1>6
<1>9. u.taken = 3 /\ t.taken < 3 => u # w
  BY <1>1, <1>2, <1>4
<1> HIDE DEF u
<1> QED BY <1>6, <1>7, <1>8, <1>9

\* The greatest of two and of three numbers.
LEMMA MaxOfTwo ==
  ASSUME NEW x \in Int, NEW y \in Int
  PROVE  Exit!Max({x, y}) \in Int /\ Exit!Max({x, y}) >= x
<1>1. \E m \in {x, y} : \A k \in {x, y} : m >= k
  <2>1. CASE x >= y BY <2>1
  <2>2. CASE y >= x BY <2>2
  <2> QED BY <2>1, <2>2
<1> QED BY <1>1 DEF Exit!Max
\* The greatest of three numbers.
LEMMA MaxOfThree ==
  ASSUME NEW x \in Int, NEW y \in Int, NEW z \in Int
  PROVE  Exit!Max({x, y, z}) \in Int /\ Exit!Max({x, y, z}) >= x
<1>1. \E m \in {x, y, z} : \A k \in {x, y, z} : m >= k
  <2>1. CASE x >= y /\ x >= z BY <2>1
  <2>2. CASE y >= x /\ y >= z BY <2>2
  <2>3. CASE z >= y /\ z >= x BY <2>3
  <2> QED BY <2>1, <2>2, <2>3
<1> QED BY <1>1 DEF Exit!Max

\* The runner's stop follows the price and stays above the last lock.
LEMMA Trails ==
  ASSUME NEW P, IsPolicy(P), P.v2, NEW t, NEW b, Sound(t, b), IsBar(b),
         NEW ranges, ranges.sum \in Int, ranges.count \in Nat \ {0}, NEW mfe \in Int
  PROVE  LET u == Exit!Trail(P, t, b, ranges, mfe) IN
         /\ Sound(u, b) /\ u.shares = t.shares /\ u.taken = t.taken /\ u.sold = t.sold
         /\ u.realized = t.realized /\ u.approved = t.approved /\ u.stop >= t.stop
<1> DEFINE atr == ranges.sum \div ranges.count
           width == Exit!Max({P.minTrail, (P.atr10 * atr) \div 10})
           kept == (mfe * (100 - P.giveback)) \div 100
           price == Exit!Max({P.locks[2], mfe - width, kept})
<1>1. P.minTrail \in Int /\ P.atr10 \in Int /\ P.giveback \in Int /\ P.locks[2] \in Int BY DEF IsPolicy
<1>2. atr \in Int OBVIOUS
<1>3. P.atr10 * atr \in Int BY <1>1, <1>2
<1> HIDE DEF atr
<1>4. (P.atr10 * atr) \div 10 \in Int BY <1>3
<1>5. width \in Int BY <1>1, <1>4, MaxOfTwo
<1>6. mfe * (100 - P.giveback) \in Int BY <1>1
<1>7. kept \in Int BY <1>6
<1> HIDE DEF width, kept
<1>8. mfe - width \in Int BY <1>5
<1>9. price \in Int BY <1>1, <1>7, <1>8, MaxOfThree
<1>10. Exit!Trail(P, t, b, ranges, mfe) = Exit!MoveStop(t, b, price) BY DEF Exit!Trail, atr, width, kept
<1> HIDE DEF price
<1> QED BY <1>9, <1>10, MovesStop

\* What a bar leaves of the trade: it is led up to the end of the bar, and by its own policy if it
\* was before.
Leads(P, t, b, u) ==
  /\ Led(P, u, b.end) /\ u.approved = t.approved /\ u.shares = t.shares
  /\ Signed(P, t) => Signed(P, u)

\* Whatever the exits do with a bar whose stop has held, the trade stays led.
LEMMA ExitsKeep ==
  ASSUME NEW P, IsPolicy(P), NEW t, NEW b, Facing(t, b), IsBar(b),
         NEW ranges, ranges.sum \in Int, ranges.count \in Nat \ {0}, NEW mfe \in Int
  PROVE  Leads(P, t, b, Exit!Exits(P, t, b, ranges, mfe))
<1> DEFINE u == Exit!TakeTargets(P, t, b)
           e == Exit!Exits(P, t, b, ranges, mfe)
<1>1. Sound(t, b) /\ Booked(t) BY FacingIsSound
<1>2. /\ Sound(u, b) /\ (Locked(P, t) => Locked(P, u)) /\ u.shares = t.shares /\ u.approved = t.approved
      /\ P.v2 \/ u.taken # 3 => Booked(u)
      /\ ~P.v2 /\ u.taken = 3 /\ t.taken < 3 => u.sold = 100 /\ u.realized >= 0
      /\ u.taken = 0 => u = t
  BY <1>1, TakesTargets
<1>3. u \in PaperRows /\ u.status = "OPEN" /\ u.outcome = "none" BY <1>2 DEF Sound
<1>4. P.v2 \in BOOLEAN BY DEF IsPolicy
<1>a. t.taken \in 0..3 /\ t.status = "OPEN" /\ u.taken \in 0..3
  BY <1>1, <1>3 DEF Sound, PaperRows
<1>5. CASE ~P.v2 /\ u.taken = 3
  <2>1. e = [u EXCEPT !.status = "CLOSED", !.outcome = "TP", !.closedAt = b.open] BY <1>5 DEF Exit!Exits
  <2>2. b.open \in Times BY ExitConstants DEF IsBar, Times
  <2> HIDE DEF e, u
  <2>3. e \in PaperRows BY <1>3, <2>1, <2>2 DEF PaperRows
  <2>4. /\ e.status = "CLOSED" /\ e.outcome = "TP" /\ e.closedAt = b.open /\ e.shares = u.shares
        /\ e.stop = u.stop /\ e.stopEnd = u.stopEnd /\ e.taken = u.taken /\ e.sold = u.sold
        /\ e.realized = u.realized /\ e.filledAt = u.filledAt /\ e.filledEnd = u.filledEnd
        /\ e.approved = u.approved
    BY <1>3, <2>1 DEF PaperRows
  <2>5. Well(e) BY <1>2, <2>3, <2>4 DEF Sound, Well
  <2>6. OnTime(e, b.end) BY <1>2, <2>4 DEF Sound, OnTime
  <2>7. Locked(P, t) => Locked(P, e) BY <1>2, <2>4 DEF Locked
  <2>8. Signed(P, t) => Signed(P, e)
    <3> SUFFICES ASSUME Signed(P, t) PROVE Signed(P, e) OBVIOUS
    <3>1. t.taken < 3 BY <1>a, <1>5 DEF Signed
    <3> QED BY <1>2, <1>5, <2>4, <2>7, <3>1 DEF Signed
  <2> QED BY <1>2, <2>4, <2>5, <2>6, <2>7, <2>8 DEF Leads, Led, e
<1>6. CASE P.v2 /\ u.taken = 3
  <2>1. e = Exit!Trail(P, u, b, ranges, mfe) BY <1>6 DEF Exit!Exits
  <2> HIDE DEF u
  <2>2. /\ Sound(e, b) /\ e.shares = u.shares /\ e.taken = u.taken /\ e.sold = u.sold
        /\ e.realized = u.realized /\ e.approved = u.approved /\ e.stop >= u.stop
    BY <1>2, <1>6, <2>1, Trails
  <2> HIDE DEF e
  <2>3. Booked(e) BY <1>2, <1>6, <2>2 DEF Booked
  <2>4. Led(P, e, b.end) BY <2>2, <2>3, SoundIsLed
  <2>5. Locked(P, t) => Locked(P, e)
    <3>1. e.stop \in Int /\ u.stop \in Int BY <1>3, <2>2 DEF Sound, PaperRows
    <3>2. P.locks[1] \in Int /\ P.locks[2] \in Int BY DEF IsPolicy
    <3> QED BY <1>2, <2>2, <3>1, <3>2 DEF Locked
  <2>6. Signed(P, t) => Signed(P, e)
    <3>1. e.outcome = "none" BY <2>2 DEF Sound
    <3> QED BY <1>2, <1>6, <2>2, <2>5, <3>1 DEF Signed, Locked
  <2> QED BY <1>2, <2>2, <2>4, <2>5, <2>6 DEF Leads, e
<1>7. CASE P.v2 /\ u.taken = 0 /\ b.open - u.opened >= P.timeStop
  <2>1. e = Exit!CloseAt(P, u, b, b.close, "TIME") BY <1>7 DEF Exit!Exits
  <2>2. u = t BY <1>2, <1>7
  <2>3. b.close \in Int BY DEF IsBar
  <2> HIDE DEF u
  <2>4. e = Exit!CloseAt(P, t, b, b.close, "TIME") BY <2>1, <2>2
  <2> HIDE DEF e
  <2>5. /\ Led(P, e, b.end) /\ e.shares = t.shares /\ e.approved = t.approved /\ e.status = "CLOSED"
        /\ e.taken = t.taken /\ e.sold = t.sold + Exit!Remaining(P, t)
    BY <1>4, <2>3, <2>4, Closes
  <2>6. t.sold + Exit!Remaining(P, t) = 100
    <3>1. t.taken < 3 BY <1>7, <2>2
    <3>2. Well(t) /\ t.status = "OPEN" BY DEF Facing
    <3> QED BY <1>4, <3>1, <3>2, RemainingShare
  <2>7. e.taken = 0 BY <1>7, <2>2, <2>5
  <2>8. Locked(P, e) BY <2>7 DEF Locked
  <2>9. Signed(P, t) => Signed(P, e) BY <2>5, <2>6, <2>7, <2>8 DEF Signed
  <2> QED BY <2>5, <2>8, <2>9 DEF Leads, e
<1>8. CASE /\ ~(~P.v2 /\ u.taken = 3) /\ ~(P.v2 /\ u.taken = 3)
           /\ ~(P.v2 /\ u.taken = 0 /\ b.open - u.opened >= P.timeStop)
  <2>1. e = u BY <1>8 DEF Exit!Exits
  <2> HIDE DEF u, e
  <2>2. u.taken # 3 BY <1>4, <1>8
  <2>3. Booked(u) BY <1>2, <2>2
  <2>4. Led(P, u, b.end) BY <1>2, <2>3, SoundIsLed
  <2>5. Signed(P, t) => Signed(P, u) BY <1>2, <1>3, <2>2 DEF Signed, Locked
  <2>6. Leads(P, t, b, u) BY <1>2, <2>4, <2>5 DEF Leads
  <2> QED BY <2>1, <2>6 DEF e
<1> QED BY <1>5, <1>6, <1>7, <1>8

\* A trade that has taken its first target gains at its stop.
LEMMA StopsPay ==
  ASSUME NEW P, IsPolicy(P), NEW t, Well(t), t.status = "OPEN", Signed(P, t), t.taken > 0
  PROVE  t.realized + t.stop * Exit!Remaining(P, t) >= 0
<1>1. PICK name \in Names : P = Exit!Policy(name) BY DEF IsPolicy
<1>2. t.taken \in 1..3 /\ t.stop \in Int BY DEF Well, PaperRows
<1>3. t.shares = P.shares /\ Locked(P, t) /\ (t.taken = 3 => P.v2) BY DEF Signed
<1>4. t.realized = IF t.taken = 1 THEN 4 * t.shares[1] ELSE 4 * t.shares[1] + 8 * t.shares[2]
  BY <1>2 DEF Well, Booked
<1>5. CASE t.taken = 1
  <2>1. Exit!Remaining(P, t) = 100 - t.shares[1] BY <1>5 DEF Exit!Remaining, Exit!Exited
  <2>2. t.realized = 4 * t.shares[1] BY <1>4, <1>5
  <2>3. t.stop >= P.locks[1] BY <1>3, <1>5 DEF Locked
  <2>4. CASE name = "legacy"
    <3>1. t.shares[1] = 40 /\ P.locks[1] = 0 BY <1>1, <1>3, <2>4, LegacyNumbers
    <3> QED BY <1>2, <2>1, <2>2, <2>3, <3>1
  <2>5. CASE name = "defensive"
    <3>1. t.shares[1] = 50 /\ P.locks[1] = 0 BY <1>1, <1>3, <2>5, DefensiveNumbers
    <3> QED BY <1>2, <2>1, <2>2, <2>3, <3>1
  <2>6. CASE name = "conviction"
    <3>1. t.shares[1] = 20 /\ P.locks[1] = -1 BY <1>1, <1>3, <2>6, ConvictionNumbers
    <3> QED BY <1>2, <2>1, <2>2, <2>3, <3>1
  <2> QED BY <2>4, <2>5, <2>6 DEF Names
<1>6. CASE t.taken \in {2, 3}
  <2>1. t.realized = 4 * t.shares[1] + 8 * t.shares[2] BY <1>4, <1>6
  <2>2. t.stop >= P.locks[2] BY <1>3, <1>6 DEF Locked
  <2>3. t.stop >= 1 /\ t.realized >= 0
    <3>1. CASE name = "legacy"
      <4>1. t.shares[1] = 40 /\ t.shares[2] = 40 /\ P.locks[2] = 4 BY <1>1, <1>3, <3>1, LegacyNumbers
      <4> QED BY <1>2, <2>1, <2>2, <4>1
    <3>2. CASE name = "defensive"
      <4>1. t.shares[1] = 50 /\ t.shares[2] = 35 /\ P.locks[2] = 4 BY <1>1, <1>3, <3>2, DefensiveNumbers
      <4> QED BY <1>2, <2>1, <2>2, <4>1
    <3>3. CASE name = "conviction"
      <4>1. t.shares[1] = 20 /\ t.shares[2] = 25 /\ P.locks[2] = 1
        BY <1>1, <1>3, <3>3, ConvictionNumbers
      <4> QED BY <1>2, <2>1, <2>2, <4>1
    <3> QED BY <3>1, <3>2, <3>3 DEF Names
  <2>4. Exit!Remaining(P, t) \in Nat BY RemainingShare DEF IsPolicy
  <2>5. t.stop * Exit!Remaining(P, t) >= 0
    <3>1. \A x \in Nat, y \in Nat : x * y >= 0 OBVIOUS
    <3> QED BY <1>2, <2>3, <2>4, <3>1
  <2>6. t.realized \in Int /\ t.stop * Exit!Remaining(P, t) \in Int
    BY <1>2, <2>4 DEF Well, PaperRows
  <2> QED BY <2>3, <2>5, <2>6
<1> QED BY <1>2, <1>5, <1>6

\* What a call carries from bar to bar.
Carries(P, w, m) ==
  /\ w.ranges.sum \in Int /\ w.ranges.count \in Nat /\ w.close \in Int /\ w.mfe \in Int
  /\ Led(P, w.trade, m)

\* The least of two numbers.
LEMMA MinOfTwo == ASSUME NEW x \in Int, NEW y \in Int PROVE Exit!Min({x, y}) \in Int
<1>1. \E m \in {x, y} : \A k \in {x, y} : m <= k
  <2>1. CASE x <= y BY <2>1
  <2>2. CASE y <= x BY <2>2
  <2> QED BY <2>1, <2>2
<1> QED BY <1>1 DEF Exit!Min

\* The true range of a bar is a number.
LEMMA RangesAreNumbers ==
  ASSUME NEW P, NEW w, NEW m, Carries(P, w, m), NEW b, IsBar(b)
  PROVE  Exit!TrueRange(w, b) \in Int
<1>1. w.close \in Int /\ b.high \in Int /\ b.low \in Int BY DEF Carries, IsBar
<1>2. Exit!Max({b.high, w.close}) \in Int /\ Exit!Min({b.low, w.close}) \in Int
  BY <1>1, MaxOfTwo, MinOfTwo
<1> QED BY <1>1, <1>2 DEF Exit!TrueRange

\* Time that passes takes nothing from a trade.
LEMMA LedOn ==
  ASSUME NEW P, NEW t, NEW m \in Int, NEW n \in Int, m <= n, Led(P, t, m)
  PROVE  Led(P, t, n)
<1>1. t.approved \in Int /\ t.stopEnd \in Int /\ t.filledEnd \in Int
  BY ExitConstants DEF Led, Well, PaperRows, Times
<1> QED BY <1>1 DEF Led, OnTime

\* One bar after all that went before.
LEMMA AdvancesBar ==
  ASSUME NEW P, IsPolicy(P), NEW w, NEW m \in Int, Carries(P, w, m), NEW b, IsBar(b),
         b.open >= m, b.open > w.trade.approved
  PROVE  LET v == Exit!AdvanceBar(P, w, b) IN
         Carries(P, v, b.end) /\ Leads(P, w.trade, b, v.trade)
<1> DEFINE old == w.trade
           t == Exit!Fill(P, old, b)
           ranges == [sum |-> w.ranges.sum + Exit!TrueRange(w, b), count |-> w.ranges.count + 1]
           stopped == t.status = "OPEN" /\ b.low <= t.stop
           mfe == IF t.status = "OPEN" THEN Exit!Max({w.mfe, b.high}) ELSE w.mfe
           o == IF t.breakeven = Exit!None THEN "SL" ELSE "BE"
           u == CASE stopped -> Exit!CloseAt(P, t, b, t.stop, o)
                  [] t.status = "OPEN" /\ ~stopped -> Exit!Exits(P, t, b, ranges, mfe)
                  [] OTHER -> t
           v == [ranges |-> ranges, close |-> b.close, mfe |-> mfe, trade |-> u]
<1>1. Exit!AdvanceBar(P, w, b) = v BY DEF Exit!AdvanceBar
<1>2. ranges.sum \in Int /\ ranges.count \in Nat \ {0}
  <2>1. Exit!TrueRange(w, b) \in Int BY RangesAreNumbers
  <2> QED BY <2>1 DEF Carries
<1> HIDE DEF ranges
<1>3. mfe \in Int
  <2>1. w.mfe \in Int /\ b.high \in Int BY DEF Carries, IsBar
  <2> QED BY <2>1, MaxOfTwo
<1> HIDE DEF mfe
<1>4. /\ Led(P, t, IF t = old THEN m ELSE b.end) /\ t.shares = old.shares /\ t.approved = old.approved
      /\ Signed(P, old) => Signed(P, t)
      /\ t.filledAt # old.filledAt => t.filledAt = b.open
      /\ t.stop = old.stop /\ t.stopEnd = old.stopEnd
  BY Fills DEF Carries
<1>5. /\ old \in PaperRows /\ t \in PaperRows BY <1>4 DEF Led, Well, Carries
<1>6. old.stopEnd <= m /\ old.filledEnd <= m BY DEF Carries, Led, OnTime
<1>7. t = old \/ t.filledAt = b.open
  BY DEF Exit!Fill, PaperRows, Carries, Led, Well
<1>8. b.open \in Int /\ b.end \in Int /\ b.open < b.end /\ b.close \in Int BY DEF IsBar
<1> HIDE DEF t, old
<1>9. t.status = "OPEN" => Facing(t, b)
  <2> SUFFICES ASSUME t.status = "OPEN" PROVE Facing(t, b) OBVIOUS
  <2>1. Well(t) /\ t.filledAt # -1
    <3>1. t.outcome = "none" BY <1>4 DEF Led, Well
    <3> QED BY <1>4, <3>1 DEF Led, Well
  <2>2. t.filledAt > t.approved BY <1>4, <2>1 DEF Led, OnTime
  <2>3. /\ t.approved \in Int /\ t.stopEnd \in Int /\ t.filledEnd \in Int
    BY <1>5, ExitConstants DEF PaperRows, Times
  <2>4. t.approved <= b.open BY <1>4, <1>8, <2>3 DEF old
  <2>5. t.stopEnd <= b.open BY <1>4, <1>6, <1>8, <2>3 DEF old
  <2>6. t.filledEnd <= b.end /\ (t.filledAt = b.open \/ t.filledEnd <= b.open)
    <3>1. CASE t = old BY <1>6, <1>8, <2>3, <3>1
    <3>2. CASE t # old
      <4>1. t.filledEnd <= b.end BY <1>4, <3>2 DEF Led, OnTime
      <4> QED BY <4>1, <3>2, <1>7
    <3> QED BY <3>1, <3>2
  <2> QED BY <2>1, <2>2, <2>4, <2>5, <2>6 DEF Facing
<1>10. Leads(P, old, b, u)
  <2>1. CASE stopped
    <3> DEFINE price == t.stop
    <3>1. u = Exit!CloseAt(P, t, b, price, o) BY <2>1
    <3>2. price \in Int /\ o \in {"SL", "BE", "TIME"} BY <1>5 DEF PaperRows
    <3>3. Facing(t, b) BY <1>9, <2>1
    <3>4. P.v2 \in BOOLEAN BY DEF IsPolicy
    <3> HIDE DEF o, u
    <3>5. /\ Led(P, u, b.end) /\ u.shares = t.shares /\ u.approved = t.approved /\ u.status = "CLOSED"
          /\ u.taken = t.taken /\ u.sold = t.sold + Exit!Remaining(P, t)
          /\ u.realized = t.realized + price * Exit!Remaining(P, t)
      BY <3>1, <3>2, <3>3, <3>4, Closes
    <3>6. u.stop = t.stop BY <1>5, <3>1 DEF Exit!CloseAt, PaperRows
    <3>7. Signed(P, t) => Signed(P, u)
      <4> SUFFICES ASSUME Signed(P, t) PROVE Signed(P, u) OBVIOUS
      <4>1. Well(t) /\ t.status = "OPEN" /\ t.taken \in 0..3 BY <1>5, <3>3 DEF Facing, PaperRows
      <4>2. P.v2 \/ t.taken < 3 BY <4>1 DEF Signed
      <4>3. u.sold = 100 BY <3>4, <3>5, <4>1, <4>2, RemainingShare
      <4>4. u.taken > 0 => u.realized >= 0 BY <3>5, <4>1, StopsPay
      <4>5. Locked(P, u) BY <3>5, <3>6 DEF Signed, Locked
      <4> QED BY <3>5, <4>3, <4>4, <4>5 DEF Signed
    <3> QED BY <1>4, <3>5, <3>7 DEF Leads
  <2>2. CASE t.status = "OPEN" /\ ~stopped
    <3>1. u = Exit!Exits(P, t, b, ranges, mfe) BY <2>2
    <3>2. Leads(P, t, b, u) BY <1>2, <1>3, <1>9, <2>2, <3>1, ExitsKeep
    <3> QED BY <1>4, <3>2 DEF Leads
  <2>3. CASE t.status # "OPEN"
    <3>1. u = t BY <2>3
    <3>2. t = old BY <2>3 DEF t, Exit!Fill, PaperRows
    <3>3. Led(P, old, b.end) BY <1>8, LedOn DEF Carries, old
    <3> QED BY <3>1, <3>2, <3>3 DEF Leads
  <2> QED BY <2>1, <2>2, <2>3
<1> HIDE DEF u
<1>11. Carries(P, v, b.end)
  BY <1>2, <1>3, <1>8, <1>10 DEF Carries, Leads
<1> QED BY <1>1, <1>10, <1>11 DEF old

\* The recursive function of a call exists.
LEMMA FoldExists ==
  ASSUME NEW P, NEW t, NEW bars, NEW N \in Nat, Len(bars) = N
  PROVE  LET after == Exit!After(P, t, bars)
             w == [trade |-> t, ranges |-> [sum |-> 0, count |-> 0], close |-> Exit!Entry, mfe |-> 0]
         IN after = [n \in 0..N |-> IF n = 0 THEN w ELSE Exit!AdvanceBar(P, after[n - 1], bars[n])]
<1> DEFINE w == [trade |-> t, ranges |-> [sum |-> 0, count |-> 0], close |-> Exit!Entry, mfe |-> 0]
           Upto(g, m) == g = [n \in 0..m |-> IF n = 0 THEN w ELSE Exit!AdvanceBar(P, g[n - 1], bars[n])]
           Bad == {m \in Nat : ~\E g : Upto(g, m)}
<1>0. Exit!After(P, t, bars) = CHOOSE g : Upto(g, N) BY DEF Exit!After
<1> HIDE DEF w
<1>1. \E g : Upto(g, 0)
  <2> DEFINE g == [n \in 0..0 |-> w]
  <2>1. Upto(g, 0) OBVIOUS
  <2> QED BY <2>1
<1>2. ASSUME NEW m \in Nat, \E g : Upto(g, m) PROVE \E g : Upto(g, m + 1)
  <2>1. PICK h : Upto(h, m) BY <1>2
  <2> DEFINE g == [n \in 0..(m + 1) |->
                     IF n = m + 1 THEN Exit!AdvanceBar(P, h[m], bars[m + 1]) ELSE h[n]]
  <2>2. \A n \in 0..m : g[n] = h[n] OBVIOUS
  <2>3. ASSUME NEW n \in 0..(m + 1)
        PROVE  g[n] = IF n = 0 THEN w ELSE Exit!AdvanceBar(P, g[n - 1], bars[n])
    <3>1. CASE n = 0 BY <2>1, <2>2, <3>1
    <3>2. CASE n \in 1..m
      <4>1. g[n] = h[n] /\ g[n - 1] = h[n - 1] BY <2>2, <3>2
      <4>2. h[n] = Exit!AdvanceBar(P, h[n - 1], bars[n]) BY <2>1, <3>2
      <4> QED BY <3>2, <4>1, <4>2
    <3>3. CASE n = m + 1
      <4>1. g[n - 1] = h[m] BY <2>2, <3>3
      <4>2. g[n] = Exit!AdvanceBar(P, h[m], bars[m + 1]) BY <3>3
      <4> QED BY <3>3, <4>1, <4>2
    <3> QED BY <3>1, <3>2, <3>3
  <2>4. g = [n \in 0..(m + 1) |-> IF n = 0 THEN w ELSE Exit!AdvanceBar(P, g[n - 1], bars[n])]
    BY <2>3, Zenon
  <2> QED BY <2>4
<1> HIDE DEF Upto
<1>3. Bad = {}
  <2> SUFFICES ASSUME Bad # {} PROVE FALSE OBVIOUS
  <2>1. Bad \subseteq Nat OBVIOUS
  <2>2. PICK m \in Bad : \A k \in Bad : m <= k BY <2>1, LeastOf
  <2>3. m # 0 BY <1>1
  <2>4. m - 1 \in Nat /\ m - 1 \notin Bad /\ (m - 1) + 1 = m BY <2>1, <2>2, <2>3
  <2> QED BY <1>2, <2>2, <2>4
<1>4. \E g : Upto(g, N) BY <1>3
<1>5. Upto(Exit!After(P, t, bars), N) BY <1>0, <1>4
<1> QED BY <1>5 DEF Upto, w

\* The bars of one call: none is older than what the trade was led through, and they follow on
\* each other.
InOrder(t, bars, N, m) ==
  /\ Len(bars) = N
  /\ \A k \in 1..N : IsBar(bars[k]) /\ bars[k].open >= m /\ bars[k].open > t.approved
  /\ \A k \in 1..N : k + 1 \in 1..N => bars[k].end <= bars[k + 1].open

\* The bars of one call, one after the other: by induction over their number.
LEMMA AdvancesThrough ==
  ASSUME NEW P, IsPolicy(P), NEW t, NEW m \in Int, Led(P, t, m),
         NEW bars, NEW N \in Nat \ {0}, InOrder(t, bars, N, m)
  PROVE  LET u == Exit!Advance(P, t, bars) IN
         /\ Led(P, u, bars[N].end) /\ u.approved = t.approved
         /\ Signed(P, t) => Signed(P, u)
<1> DEFINE after == Exit!After(P, t, bars)
           w == [trade |-> t, ranges |-> [sum |-> 0, count |-> 0], close |-> Exit!Entry, mfe |-> 0]
           End(k) == IF k = 0 THEN m ELSE bars[k].end
           Kept(k) == /\ Carries(P, after[k], End(k)) /\ after[k].trade.approved = t.approved
                      /\ Signed(P, t) => Signed(P, after[k].trade)
           Bad == {k \in 0..N : ~Kept(k)}
<1>1. Len(bars) = N BY DEF InOrder
<1>2. after = [n \in 0..N |-> IF n = 0 THEN w ELSE Exit!AdvanceBar(P, after[n - 1], bars[n])]
  BY <1>1, FoldExists
<1> HIDE DEF after
<1>3. Kept(0)
  <2>1. after[0] = w BY <1>2
  <2>2. Carries(P, w, m) BY DEF Carries, Exit!Entry
  <2> QED BY <2>1, <2>2
<1> HIDE DEF w
<1>4. ASSUME NEW k \in 0..N, k + 1 \in 0..N, Kept(k) PROVE Kept(k + 1)
  <2> DEFINE b == bars[k + 1]
             v == after[k]
             x == after[k + 1]
  <2>1. x = Exit!AdvanceBar(P, v, b)
    <3>1. k + 1 # 0 /\ (k + 1) - 1 = k OBVIOUS
    <3> QED BY <1>2, <1>4, <3>1
  <2>2. IsBar(b) /\ b.open >= m /\ b.open > t.approved BY <1>4 DEF InOrder
  <2>3. End(k) \in Int /\ b.open >= End(k)
    <3>1. CASE k = 0 BY <2>2, <3>1
    <3>2. CASE k # 0
      <4>1. k \in 1..N /\ k + 1 \in 1..N BY <1>4, <3>2
      <4>2. IsBar(bars[k]) /\ bars[k].end <= b.open BY <4>1 DEF InOrder
      <4>3. bars[k].end \in Int /\ b.open \in Int BY <2>2, <4>2 DEF IsBar
      <4> QED BY <3>2, <4>2, <4>3
    <3> QED BY <3>1, <3>2
  <2>4. End(k + 1) = b.end BY <1>4
  <2>5. Carries(P, v, End(k)) /\ v.trade.approved = t.approved /\ (Signed(P, t) => Signed(P, v.trade))
    BY <1>4
  <2> HIDE DEF b, v, x, End
  <2>6. Carries(P, x, b.end) /\ Leads(P, v.trade, b, x.trade)
    BY <2>1, <2>2, <2>3, <2>5, AdvancesBar
  <2>7. Carries(P, x, End(k + 1)) /\ x.trade.approved = t.approved
        /\ (Signed(P, t) => Signed(P, x.trade))
    BY <2>4, <2>5, <2>6 DEF Leads
  <2> QED BY <2>7 DEF x
<1>5. Bad = {}
  <2> SUFFICES ASSUME Bad # {} PROVE FALSE OBVIOUS
  <2>1. Bad \subseteq Nat OBVIOUS
  <2> HIDE DEF Kept
  <2>2. PICK k \in Bad : \A n \in Bad : k <= n BY <2>1, LeastOf
  <2>3. k # 0 BY <1>3
  <2>4. k - 1 \in 0..N /\ k - 1 \notin Bad /\ (k - 1) + 1 = k BY <2>1, <2>2, <2>3
  <2> QED BY <1>4, <2>2, <2>4
<1>6. /\ Carries(P, after[N], bars[N].end) /\ after[N].trade.approved = t.approved
      /\ Signed(P, t) => Signed(P, after[N].trade)
  BY <1>5
<1>7. Exit!Advance(P, t, bars) = after[N].trade BY <1>1 DEF Exit!Advance, after
<1> DEFINE u == Exit!Advance(P, t, bars)
<1>8. Led(P, u, bars[N].end) /\ u.approved = t.approved /\ (Signed(P, t) => Signed(P, u))
  <2> HIDE DEF u
  <2>1. u = after[N].trade BY <1>7 DEF u
  <2> QED BY <1>6, <2>1 DEF Carries
<1> QED BY <1>8

\* Multiples of a length.
LEMMA Multiples ==
  ASSUME NEW a \in Int, NEW b \in Int, NEW L \in Nat \ {0}
  PROVE  /\ a <= b => a * L <= b * L
         /\ a < b => a * L < b * L
         /\ a * L < b * L => a < b
         /\ a * L \in Int /\ (a + 1) * L = a * L + L /\ (a - 1) * L = a * L - L
         /\ a \in Nat => a * L \in Nat
<1>1. a <= b => a * L <= b * L BY Z3
<1>2. a < b => a * L < b * L BY Z3
<1>3. a * L < b * L => a < b BY <1>2, <1>1
<1>4. a * L \in Int /\ (a + 1) * L = a * L + L /\ (a - 1) * L = a * L - L BY Z3
<1>5. a \in Nat => a * L \in Nat BY Z3
<1> QED BY <1>1, <1>2, <1>3, <1>4, <1>5

\* The number of the bar of a length in which a minute lies.
LEMMA Quotients ==
  ASSUME NEW c \in Nat, NEW L \in Nat \ {0}
  PROVE  LET q == c \div L IN q \in Nat /\ q * L <= c /\ c < (q + 1) * L
<1> DEFINE q == c \div L
<1>1. q \in Int /\ q * L <= c /\ c < (q + 1) * L BY Z3
<1>2. q \in Nat
  <2> HIDE DEF q
  <2> SUFFICES ASSUME q + 1 <= 0 PROVE FALSE BY <1>1
  <2>1. (q + 1) * L <= 0 * L BY <1>1, Multiples
  <2> QED BY <1>1, <2>1
<1> QED BY <1>1, <1>2
\* A minute is its own bar of one minute.
LEMMA QuotientOne == ASSUME NEW c \in Nat PROVE c \div 1 = c
OBVIOUS

StepOfVenue == IF venue = "crypto" THEN 1 ELSE HourLen
\* The end of the bars that the trade t was led through.
LedTo(t) == IF t.cursor = -1 THEN t.approved ELSE t.cursor + StepOfVenue

PathInv ==
  /\ path \in Seq(Int) /\ Len(path) >= 1 /\ Exit!Now <= MaxMinute
  /\ policy \in Policies /\ venue \in Venues /\ live \in Int /\ -1 <= live /\ live <= Exit!Now
RowsInv ==
  /\ Well(paper) /\ OnTime(paper, LedTo(paper)) /\ paper.approved \in 0..Exit!Now
  /\ paper.cursor = -1 => paper.opened = paper.approved
  /\ paper.cursor # -1 =>
       /\ paper.cursor > paper.approved /\ paper.cursor + StepOfVenue <= Exit!Now
       /\ venue = "forts" => \E k \in Nat : paper.cursor = k * HourLen
MinutesInv ==
  venue = "crypto" /\ live = Exit!Now /\ Exit!Live(paper) => Exit!Cursor >= Exit!Now - HourLen
ExitInv == PathInv /\ RowsInv /\ MinutesInv
SignedInv == Signed(Exit!Policy(policy), paper)

\* The time is one of the minutes, the bars of a venue have a length.
LEMMA NowIsNatural ==
  ASSUME PathInv
  PROVE  Exit!Now \in 0..MaxMinute /\ Exit!Now \in Nat /\ StepOfVenue \in Nat \ {0} /\ MaxMinute \in Nat
<1>1. Exit!Now \in Nat BY DEF PathInv, Exit!Now
<1>2. MaxMinute \in Nat /\ HourLen \in Nat \ {0} BY ExitConstants
<1> QED BY <1>1, <1>2 DEF PathInv, StepOfVenue

\* The approval.
LEMMA ExitStarts ==
  ASSUME Exit!Init
  PROVE  ExitInv /\ SignedInv
<1>1. PICK m \in 0..(HourLen - 1) :
        /\ path = [k \in 1..(m + 1) |-> Start]
        /\ \E name \in Policies : policy = name /\ paper = Exit!Approved(m, name)
  BY DEF Exit!Init
<1>2. paper = Exit!Approved(m, policy) /\ policy \in Policies BY <1>1
<1>3. venue \in Venues /\ live = -1 BY DEF Exit!Init, Exit!None
<1>4. HourLen \in Nat \ {0} /\ HourLen <= MaxMinute /\ MaxMinute \in Nat /\ Start \in Int
      /\ policy \in Names
  BY <1>2, ExitConstants
<1>5. path \in Seq(Int) /\ Len(path) = m + 1
  <2>1. m + 1 \in Nat BY <1>4
  <2>2. path \in [1..(m + 1) -> Int] BY <1>1, <1>4
  <2> QED BY <1>1, <2>1, <2>2
<1>6. Exit!Now = m /\ m \in Times /\ m + 1 \in Int /\ m \in Nat /\ m + 1 \in Times
  BY <1>4, <1>5 DEF Exit!Now, Times
<1>7. PathInv BY <1>2, <1>3, <1>4, <1>5, <1>6 DEF PathInv
<1>8. -1 \in Times /\ Exit!None = -1 /\ Exit!FirstStop = -4 /\ m # -1
  BY <1>4, <1>6 DEF Times, Exit!None, Exit!FirstStop
<1>9. Exit!Policy(policy).shares \in Shares
  BY <1>4, LegacyNumbers, DefensiveNumbers, ConvictionNumbers DEF Names, Shares
<1>10. paper \in PaperRows
  BY <1>2, <1>6, <1>8, <1>9 DEF Exit!Approved, PaperRows
<1>11. /\ paper.shares = Exit!Policy(policy).shares /\ paper.status = "PENDING" /\ paper.stop = -4
       /\ paper.taken = 0
       /\ paper.realized = 0 /\ paper.sold = 0 /\ paper.approved = m /\ paper.opened = m
       /\ paper.cursor = -1
       /\ paper.outcome = "none" /\ paper.filledAt = -1 /\ paper.filledEnd = -1 /\ paper.stopEnd = m
  BY <1>2, <1>8 DEF Exit!Approved
<1>12. Well(paper) BY <1>10, <1>11 DEF Well, Booked
<1>13. RowsInv
  BY <1>6, <1>11, <1>12 DEF RowsInv, OnTime, LedTo
<1>14. MinutesInv BY <1>3, <1>6 DEF MinutesInv
<1>15. SignedInv BY <1>11 DEF SignedInv, Signed, Locked
<1> QED BY <1>7, <1>13, <1>14, <1>15 DEF ExitInv

\* What the time does to a trade that waits or is held too long.
LEMMA Expires ==
  ASSUME NEW P, NEW t, NEW m, Well(t), OnTime(t, m), PathInv
  PROVE  LET u == Exit!Expire(t) IN
         /\ Well(u) /\ OnTime(u, m) /\ u.cursor = t.cursor /\ u.approved = t.approved
         /\ u.opened = t.opened
         /\ Signed(P, t) => Signed(P, u)
         /\ Exit!Live(u) => u = t
<1> DEFINE u == Exit!Expire(t)
           now == Exit!Now
<1>1. t \in PaperRows BY DEF Well
<1>2. now \in Times BY NowIsNatural DEF Times
<1> HIDE DEF now
<1>3. CASE u = t BY <1>3
<1>4. CASE u # t
  <2>1. PICK s \in {"CLOSED", "CANCELLED"}, o \in {"cancelled", "horizon"} :
          /\ u = [t EXCEPT !.status = s, !.outcome = o, !.closedAt = now]
          /\ Exit!Live(t)
    <3>1. CASE t.status = "PENDING" /\ Exit!Now >= t.approved + Horizon
      BY <3>1 DEF Exit!Expire, Exit!Live, now
    <3>2. CASE t.status = "OPEN" /\ Exit!Now - t.opened >= MaxHold
      BY <3>2 DEF Exit!Expire, Exit!Live, now
    <3>3. CASE ~(t.status = "PENDING" /\ Exit!Now >= t.approved + Horizon)
          /\ ~(t.status = "OPEN" /\ Exit!Now - t.opened >= MaxHold)
      BY <1>4, <3>3 DEF Exit!Expire
    <3> QED BY <3>1, <3>2, <3>3
  <2> HIDE DEF u
  <2>2. u \in PaperRows BY <1>1, <1>2, <2>1 DEF PaperRows
  <2>3. /\ u.status = s /\ u.outcome = o /\ u.closedAt = now /\ u.shares = t.shares /\ u.stop = t.stop
        /\ u.stopEnd = t.stopEnd /\ u.taken = t.taken /\ u.filledAt = t.filledAt
        /\ u.filledEnd = t.filledEnd
        /\ u.approved = t.approved /\ u.cursor = t.cursor /\ u.opened = t.opened
    BY <1>1, <2>1 DEF PaperRows
  <2>4. Well(u) BY <2>2, <2>3 DEF Well
  <2>5. OnTime(u, m) BY <2>3 DEF OnTime
  <2>6. Signed(P, t) => Signed(P, u) BY <2>3 DEF Signed, Locked
  <2>7. ~Exit!Live(u) BY <2>3 DEF Exit!Live
  <2> QED BY <2>3, <2>4, <2>5, <2>6, <2>7 DEF u
<1> QED BY <1>3, <1>4

\* A query that begins after its end finds no bar.
LEMMA ReadsNothing ==
  ASSUME NEW f \in Int, NEW n \in Int, NEW L, n <= f
  PROVE  Exit!BarsFrom(f, n, L) = <<>>
<1>1. 1..(n - f) = {} OBVIOUS
<1> QED BY <1>1 DEF Exit!BarsFrom

\* The bars of a call, as the queries find them.
LEMMA Reads ==
  ASSUME PathInv, NEW t, t.approved \in Int, NEW m \in Int,
         NEW L \in Nat \ {0}, NEW f \in Nat, NEW n \in Nat, f < n, n * L <= Exit!Now,
         f * L >= m, f * L > t.approved
  PROVE  LET bars == Exit!BarsFrom(f, n, L)
             N == n - f
         IN /\ InOrder(t, bars, N, m) /\ N \in Nat \ {0} /\ bars # <<>>
            /\ Head(bars).open \in Int /\ Exit!Last(bars) = bars[N]
            /\ bars[N].open = (n - 1) * L /\ bars[N].end = n * L
<1> DEFINE bars == Exit!BarsFrom(f, n, L)
           N == n - f
<1>1. N \in Nat \ {0} OBVIOUS
<1>2. bars = [k \in 1..N |-> Exit!BarOf((f + k - 1) * L, (f + k) * L)] BY DEF Exit!BarsFrom
<1> HIDE DEF bars
<1>3. Len(bars) = N BY <1>1, <1>2
<1>4. ASSUME NEW k \in 1..N
      PROVE  /\ IsBar(bars[k]) /\ bars[k].open = (f + k - 1) * L /\ bars[k].end = (f + k) * L
             /\ bars[k].open >= m /\ bars[k].open > t.approved
  <2> DEFINE from == (f + k - 1) * L
             to == (f + k) * L
  <2>1. f + k - 1 \in Nat /\ f + k \in Nat /\ f + k - 1 < f + k /\ f + k <= n /\ f <= f + k - 1 OBVIOUS
  <2>2. from \in Nat /\ to \in Nat /\ from < to BY <2>1, Multiples
  <2>3. to <= n * L /\ f * L <= from /\ n * L \in Int /\ f * L \in Int BY <2>1, Multiples
  <2>4. bars[k] = Exit!BarOf(from, to) BY <1>2
  <2> HIDE DEF from, to
  <2>5. Exit!Now \in Nat /\ MaxMinute \in Nat /\ path \in Seq(Int) /\ Exit!Now <= MaxMinute
    BY NowIsNatural DEF PathInv
  <2>6. to <= Exit!Now BY <2>2, <2>3, <2>5
  <2>7. IsBar(bars[k]) /\ bars[k].open = from /\ bars[k].end = to
    BY <2>2, <2>4, <2>5, <2>6, BarsAreBars
  <2>8. from >= m /\ from > t.approved BY <2>2, <2>3
  <2> QED BY <2>7, <2>8 DEF from, to
<1>5. ASSUME NEW k \in 1..N, k + 1 \in 1..N PROVE bars[k].end <= bars[k + 1].open
  <2>1. bars[k].end = (f + k) * L BY <1>4
  <2>2. bars[k + 1].open = (f + (k + 1) - 1) * L BY <1>4, <1>5
  <2>3. f + (k + 1) - 1 = f + k /\ (f + k) * L \in Int BY Multiples
  <2> QED BY <2>1, <2>2, <2>3
<1>6. InOrder(t, bars, N, m) BY <1>3, <1>4, <1>5 DEF InOrder
<1>7. bars # <<>> BY <1>1, <1>3
<1>8. Exit!Last(bars) = bars[N] BY <1>3 DEF Exit!Last
<1>9. bars[N].open = (n - 1) * L /\ bars[N].end = n * L
  <2>1. N \in 1..N /\ f + N = n /\ f + N - 1 = n - 1 BY <1>1
  <2> QED BY <1>4, <2>1
<1>10. Head(bars).open \in Int
  <2>1. Head(bars) = bars[1] BY <1>1, <1>2
  <2>2. 1 \in 1..N BY <1>1
  <2> QED BY <1>4, <2>1, <2>2 DEF IsBar
<1> QED BY <1>1, <1>6, <1>7, <1>8, <1>9, <1>10 DEF bars

\* One call of a job: the rows, the cursor and what the policy has left.
LEMMA Replays ==
  ASSUME PathInv, RowsInv, NEW P, IsPolicy(P), NEW L, L = StepOfVenue, NEW f \in Nat, NEW n \in Nat,
         n * L <= Exit!Now, f < n => f * L >= LedTo(paper) /\ f * L > paper.approved,
         Exit!Replay(P, Exit!BarsFrom(f, n, L)),
         UNCHANGED <<path, policy, venue>>
  PROVE  /\ RowsInv'
         /\ Signed(P, paper) => Signed(P, paper')
         /\ f < n => paper'.cursor = (n - 1) * L
         /\ ~(f < n) /\ Exit!Live(paper)' => paper' = paper
<1> DEFINE bars == Exit!BarsFrom(f, n, L)
           r == IF bars = <<>> THEN paper
                ELSE [Exit!Advance(P, paper, bars) EXCEPT !.cursor = Exit!Last(bars).open,
                        !.readFrom = Head(bars).open, !.readTo = Exit!Last(bars).end]
<1>1. paper' = Exit!Expire(r) BY DEF Exit!Replay
<1>2. L \in Nat \ {0} /\ Exit!Now \in 0..MaxMinute /\ MaxMinute \in Nat BY NowIsNatural
<1>3. paper \in PaperRows BY DEF RowsInv, Well
<1>4. paper.approved \in Int /\ LedTo(paper) \in Int
  BY <1>2, <1>3 DEF PaperRows, Times, LedTo
<1> DEFINE Good(t) ==
             /\ Well(t) /\ OnTime(t, LedTo(t)) /\ t.approved \in 0..Exit!Now
             /\ t.cursor = -1 => t.opened = t.approved
             /\ t.cursor # -1 =>
                  /\ t.cursor > t.approved /\ t.cursor + StepOfVenue <= Exit!Now
                  /\ venue = "forts" => \E k \in Nat : t.cursor = k * HourLen
<1>5. /\ Good(r) /\ (Signed(P, paper) => Signed(P, r))
      /\ f < n => r.cursor = (n - 1) * L
      /\ ~(f < n) => r = paper
  <2>1. CASE ~(f < n)
    <3>1. r = paper BY <2>1, ReadsNothing
    <3> HIDE DEF r
    <3> QED BY <2>1, <3>1 DEF RowsInv
  <2>2. CASE f < n
    <3> DEFINE N == n - f
               u == Exit!Advance(P, paper, bars)
               c == Exit!Last(bars).open
               x == Head(bars).open
               y == Exit!Last(bars).end
    <3>1. /\ InOrder(paper, bars, N, LedTo(paper)) /\ N \in Nat \ {0} /\ bars # <<>>
          /\ x \in Int /\ Exit!Last(bars) = bars[N]
          /\ bars[N].open = (n - 1) * L /\ bars[N].end = n * L
      <4> DEFINE m == LedTo(paper)
      <4>1. m \in Int /\ f * L >= m /\ f * L > paper.approved BY <1>4, <2>2
      <4> HIDE DEF m
      <4>2. LET b == Exit!BarsFrom(f, n, L)
                k == n - f
            IN /\ InOrder(paper, b, k, m) /\ k \in Nat \ {0} /\ b # <<>>
               /\ Head(b).open \in Int /\ Exit!Last(b) = b[k]
               /\ b[k].open = (n - 1) * L /\ b[k].end = n * L
        BY <1>2, <1>4, <2>2, <4>1, Reads
      <4> QED BY <4>2 DEF m
    <3>2. Led(P, paper, LedTo(paper)) BY DEF Led, RowsInv
    <3>3. r = [u EXCEPT !.cursor = c, !.readFrom = x, !.readTo = y] BY <3>1
    <3>4. c = (n - 1) * L /\ y = n * L BY <3>1
    <3> HIDE DEF bars, N, r
    <3>5. Led(P, u, bars[N].end) /\ u.approved = paper.approved /\ (Signed(P, paper) => Signed(P, u))
      BY <1>4, <3>1, <3>2, AdvancesThrough
    <3>6. Led(P, u, n * L) BY <3>1, <3>5
    <3> HIDE DEF u, c, x, y
    <3>7. /\ n * L \in Nat /\ (n - 1) * L \in Nat /\ (n - 1) * L = n * L - L
          /\ (n - 1) * L >= f * L /\ f * L \in Int
      <4>1. n - 1 \in Nat /\ f <= n - 1 BY <2>2
      <4> QED BY <1>2, <4>1, Multiples
    <3>8. c \in Times /\ c # -1 BY <1>2, <3>4, <3>7 DEF Times
    <3>9. u \in PaperRows BY <3>5 DEF Led, Well
    <3>10. y \in Int BY <3>4, <3>7
    <3>11. r \in PaperRows BY <3>1, <3>3, <3>8, <3>9, <3>10 DEF PaperRows
    <3>12. /\ r.shares = u.shares /\ r.status = u.status /\ r.stop = u.stop /\ r.taken = u.taken
           /\ r.realized = u.realized /\ r.sold = u.sold /\ r.approved = u.approved
           /\ r.outcome = u.outcome
           /\ r.filledAt = u.filledAt /\ r.filledEnd = u.filledEnd /\ r.stopEnd = u.stopEnd
           /\ r.closedAt = u.closedAt /\ r.cursor = c
      BY <3>3, <3>9 DEF PaperRows
    <3>13. Well(r) BY <3>5, <3>11, <3>12 DEF Led, Well, Booked
    <3>14. LedTo(r) = n * L BY <1>2, <3>4, <3>7, <3>8, <3>12 DEF LedTo
    <3>15. OnTime(r, LedTo(r)) BY <3>6, <3>12, <3>14 DEF Led, OnTime
    <3>16. r.approved \in 0..Exit!Now BY <3>5, <3>12 DEF RowsInv
    <3>17. r.cursor > r.approved BY <1>4, <2>2, <3>4, <3>5, <3>7, <3>12
    <3>18. r.cursor + StepOfVenue <= Exit!Now BY <1>2, <3>4, <3>7, <3>12
    <3>19. venue = "forts" => \E k \in Nat : r.cursor = k * HourLen
      <4>1. n - 1 \in Nat BY <2>2
      <4> QED BY <3>4, <3>12, <4>1 DEF StepOfVenue
    <3>20. Signed(P, paper) => Signed(P, r) BY <3>5, <3>12 DEF Signed, Locked
    <3> QED BY <2>2, <3>4, <3>8, <3>12, <3>13, <3>15, <3>16, <3>17, <3>18, <3>19, <3>20
  <2> QED BY <2>1, <2>2
<1> HIDE DEF r
<1>6. /\ Well(paper') /\ OnTime(paper', LedTo(r)) /\ paper'.cursor = r.cursor
      /\ paper'.approved = r.approved
      /\ paper'.opened = r.opened /\ (Signed(P, r) => Signed(P, paper'))
      /\ Exit!Live(paper') => paper' = r
  BY <1>1, <1>5, Expires
<1>7. LedTo(paper') = LedTo(r) BY <1>6 DEF LedTo
<1>8. Good(paper') BY <1>5, <1>6, <1>7
<1>9. RowsInv'
  <2>1. (Exit!Now)' = Exit!Now /\ StepOfVenue' = StepOfVenue BY DEF Exit!Now, StepOfVenue
  <2>2. LedTo(paper)' = LedTo(paper') BY <2>1 DEF LedTo
  <2>3. Well(paper)' /\ OnTime(paper, LedTo(paper))'
    BY <1>8, <2>2 DEF Well, OnTime, Booked, PaperRows, Times
  <2> QED BY <1>8, <2>1, <2>3 DEF RowsInv
<1>10. Exit!Live(paper)' => Exit!Live(paper') BY DEF Exit!Live
<1> QED BY <1>5, <1>6, <1>9, <1>10

\* Facts that every call shares: where the cursor stands and how far the trade was led.
LEMMA CursorStands ==
  ASSUME PathInv, RowsInv
  PROVE  /\ Exit!Cursor \in Nat /\ Exit!Cursor >= paper.approved /\ Exit!Cursor <= Exit!Now
         /\ paper.approved \in Nat
         /\ LedTo(paper) = IF paper.cursor = -1 THEN Exit!Cursor ELSE Exit!Cursor + StepOfVenue
<1>1. paper \in PaperRows BY DEF RowsInv, Well
<1>2. paper.approved \in Nat /\ paper.approved <= Exit!Now BY NowIsNatural DEF RowsInv
<1>3. Exit!Cursor = IF paper.cursor = -1 THEN paper.opened ELSE paper.cursor
  BY DEF Exit!Cursor, Exit!None
<1>4. CASE paper.cursor = -1
  <2>1. Exit!Cursor = paper.approved BY <1>3, <1>4 DEF RowsInv
  <2> QED BY <1>2, <1>4, <2>1 DEF LedTo
<1>5. CASE paper.cursor # -1
  <2>1. Exit!Cursor = paper.cursor /\ paper.cursor \in Int
    BY <1>1, <1>3, <1>5, NowIsNatural DEF PaperRows, Times
  <2>2. paper.cursor > paper.approved /\ paper.cursor + StepOfVenue <= Exit!Now BY <1>5 DEF RowsInv
  <2> QED BY <1>2, <1>5, <2>1, <2>2, NowIsNatural DEF LedTo
<1> QED BY <1>4, <1>5

\* A minute passes.
LEMMA TimeGoesOn ==
  ASSUME ExitInv, Exit!TimePasses
  PROVE  ExitInv' /\ (SignedInv => SignedInv')
<1>1. PICK p \in Levels : path' = Append(path, p) BY DEF Exit!TimePasses
<1>2. UNCHANGED <<paper, policy, venue, live>> /\ Exit!Now < MaxMinute BY DEF Exit!TimePasses
<1>3. path \in Seq(Int) /\ p \in Int /\ Exit!Now \in Nat /\ MaxMinute \in Nat
  BY ExitConstants, NowIsNatural DEF ExitInv, PathInv
<1>4. path' \in Seq(Int) /\ Len(path') = Len(path) + 1 BY <1>1, <1>3
<1>5. (Exit!Now)' = Exit!Now + 1 BY <1>3, <1>4 DEF Exit!Now
<1>6. PathInv' BY <1>2, <1>3, <1>4, <1>5 DEF ExitInv, PathInv
<1>7. RowsInv'
  <2>1. StepOfVenue' = StepOfVenue /\ LedTo(paper)' = LedTo(paper) BY <1>2 DEF StepOfVenue, LedTo
  <2>2. Well(paper)' /\ OnTime(paper, LedTo(paper))'
    BY <1>2, <2>1 DEF ExitInv, RowsInv, Well, OnTime, Booked, PaperRows, Times
  <2>3. paper.approved \in 0..((Exit!Now)') BY <1>3, <1>5 DEF ExitInv, RowsInv
  <2>4. paper.cursor # -1 => paper.cursor + StepOfVenue <= (Exit!Now)'
    <3>1. paper.cursor \in Int /\ StepOfVenue \in Int
      BY NowIsNatural DEF ExitInv, RowsInv, Well, PaperRows, Times
    <3> QED BY <1>3, <1>5, <3>1 DEF ExitInv, RowsInv
  <2> QED BY <1>2, <2>1, <2>2, <2>3, <2>4 DEF ExitInv, RowsInv
<1>8. MinutesInv' BY <1>2, <1>3, <1>5 DEF ExitInv, PathInv, MinutesInv
<1>9. SignedInv => SignedInv' BY <1>2 DEF SignedInv, Signed, Locked, Exit!Policy
<1> QED BY <1>6, <1>7, <1>8, <1>9 DEF ExitInv

\* A call leaves the path alone.
LEMMA PathStays ==
  ASSUME PathInv, UNCHANGED <<path, policy, venue>>, live' = live \/ live' = Exit!Now
  PROVE  PathInv' /\ (Exit!Now)' = Exit!Now
<1>1. (Exit!Now)' = Exit!Now BY DEF Exit!Now
<1> QED BY <1>1, NowIsNatural DEF PathInv

\* The job of the minutes: its bars begin after the cursor, and afterwards the cursor is less than
\* an hour behind.
LEMMA ReadsMinutes ==
  ASSUME ExitInv, Exit!PaperLive
  PROVE  ExitInv' /\ (SignedInv => SignedInv')
<1> DEFINE P == Exit!Policy(policy)
           since == Exit!ExecutionSince
           g == Exit!FirstUnseen(since, 1)
           x == Exit!Now - Limit
           f == Exit!Max({x, g})
           n == Exit!Now
<1>1. PathInv /\ RowsInv BY DEF ExitInv
<1>2. /\ venue = "crypto" /\ Exit!Live(paper) /\ live' = n /\ UNCHANGED <<path, policy, venue>>
      /\ Exit!Replay(P, Exit!BarsFrom(f, n, 1))
  BY DEF Exit!PaperLive
<1>3. IsPolicy(P) BY <1>1, ExitConstants, PoliciesArePolicies DEF PathInv
<1>4. StepOfVenue = 1 BY <1>2 DEF StepOfVenue
<1>5. n \in Nat /\ HourLen \in Nat \ {0} /\ Limit \in Nat \ {0} BY <1>1, NowIsNatural, ExitConstants
<1>6. /\ Exit!Cursor \in Nat /\ paper.approved \in Nat /\ Exit!Cursor >= paper.approved
      /\ LedTo(paper) \in Int /\ LedTo(paper) <= Exit!Cursor + 1 /\ LedTo(paper) >= paper.approved
  BY <1>1, <1>4, CursorStands
<1>7. since \in Nat /\ since >= Exit!Cursor /\ since <= Exit!Cursor + HourLen - 1
  BY <1>5, <1>6 DEF Exit!ExecutionSince
<1>8. g = since + 1 BY <1>7, QuotientOne DEF Exit!FirstUnseen
<1>9. f \in {x, g} /\ f >= g /\ f \in Nat
  <2>1. x \in Int /\ g \in Nat BY <1>5, <1>7, <1>8
  <2> HIDE DEF x, g
  <2>2. \E k \in {x, g} : \A j \in {x, g} : k >= j
    <3>1. CASE x >= g BY <2>1, <3>1
    <3>2. CASE g >= x BY <2>1, <3>2
    <3> QED BY <2>1, <3>1, <3>2
  <2>3. f \in {x, g} /\ f >= g BY <2>1, <2>2 DEF Exit!Max
  <2> QED BY <2>1, <2>3
<1> HIDE DEF f, n, g, since
<1>10. /\ n * 1 <= Exit!Now /\ f * 1 = f /\ n * 1 = n /\ (n - 1) * 1 = n - 1
       /\ f >= LedTo(paper) /\ f > paper.approved
  <2>1. n = Exit!Now BY DEF n
  <2> QED BY <1>5, <1>6, <1>7, <1>8, <1>9, <2>1
<1> DEFINE L == 1
<1>11. /\ RowsInv' /\ (Signed(P, paper) => Signed(P, paper'))
       /\ f < n => paper'.cursor = (n - 1) * L
       /\ ~(f < n) /\ Exit!Live(paper)' => paper' = paper
  <2>1. L = StepOfVenue /\ n * L <= Exit!Now /\ f * L >= LedTo(paper) /\ f * L > paper.approved
    BY <1>4, <1>10
  <2>2. Exit!Replay(P, Exit!BarsFrom(f, n, L)) BY <1>2
  <2> HIDE DEF L, P
  <2> QED BY <1>1, <1>2, <1>3, <1>5, <1>9, <2>1, <2>2, Replays
<1>12. PathInv' /\ (Exit!Now)' = Exit!Now BY <1>1, <1>2, PathStays DEF n
<1>13. MinutesInv'
  <2> SUFFICES ASSUME Exit!Live(paper)' PROVE (Exit!Cursor)' >= (Exit!Now)' - HourLen
    BY DEF MinutesInv
  <2>1. n = Exit!Now BY DEF n
  <2>2. CASE f < n
    <3>1. paper'.cursor = n - 1 /\ n - 1 \in Nat BY <1>5, <1>9, <1>10, <1>11, <2>2
    <3>2. (Exit!Cursor)' = n - 1 BY <3>1 DEF Exit!Cursor, Exit!None
    <3> QED BY <1>5, <1>12, <2>1, <3>2
  <2>3. CASE ~(f < n)
    <3>1. paper' = paper BY <1>11, <2>3
    <3>2. (Exit!Cursor)' = Exit!Cursor BY <3>1 DEF Exit!Cursor
    <3>3. f = g BY <1>5, <1>9, <2>1, <2>3 DEF x
    <3> QED BY <1>5, <1>6, <1>7, <1>8, <1>9, <1>12, <2>1, <2>3, <3>2, <3>3
  <2> QED BY <2>2, <2>3
<1>14. SignedInv => SignedInv'
  <2>1. Exit!Policy(policy)' = P BY <1>2 DEF Exit!Policy
  <2>2. Signed(P, paper)' = Signed(P, paper') BY <1>2, <2>1 DEF Signed, Locked
  <2>3. SignedInv => Signed(P, paper') BY <1>11 DEF SignedInv
  <2> HIDE DEF P
  <2>4. SignedInv' = Signed(P, paper') BY <2>1 DEF SignedInv, Signed, Locked
  <2> QED BY <2>3, <2>4
<1> QED BY <1>11, <1>12, <1>13, <1>14 DEF ExitInv

\* The hours of a FORTS trade, and those that are left of a crypto trade when the minutes are read.
LEMMA ReadsHours ==
  ASSUME ~Outages, ExitInv, NEW P, IsPolicy(P), Exit!Hours(P)
  PROVE  ExitInv' /\ (Signed(P, paper) => Signed(P, paper')) /\ policy' = policy
<1>1. PathInv /\ RowsInv BY DEF ExitInv
<1> DEFINE f == Exit!FirstUnseen(Exit!Cursor, HourLen)
<1>2. PICK n \in 0..(Exit!Now \div HourLen) : Exit!Replay(P, Exit!BarsFrom(f, n, HourLen))
  BY DEF Exit!Hours
<1>3. /\ Exit!Live(paper) /\ UNCHANGED <<path, policy, venue, live>>
      /\ venue = "forts" \/ live = Exit!Now
  BY DEF Exit!Hours
<1>4. Exit!Now \in Nat /\ HourLen \in Nat \ {0} BY <1>1, NowIsNatural, ExitConstants
<1>5. /\ Exit!Cursor \in Nat /\ paper.approved \in Nat /\ Exit!Cursor >= paper.approved
      /\ Exit!Cursor <= Exit!Now
      /\ LedTo(paper) = IF paper.cursor = -1 THEN Exit!Cursor ELSE Exit!Cursor + StepOfVenue
  BY <1>1, CursorStands
<1> DEFINE q == Exit!Cursor \div HourLen
           r == Exit!Now \div HourLen
<1>6. q \in Nat /\ q * HourLen <= Exit!Cursor /\ Exit!Cursor < (q + 1) * HourLen
  BY <1>4, <1>5, Quotients
<1>7. r \in Nat /\ r * HourLen <= Exit!Now BY <1>4, Quotients
<1>8. f = q + 1 BY DEF Exit!FirstUnseen
<1> HIDE DEF f, q, r
<1>9. n \in Nat /\ n <= r BY <1>2, <1>7 DEF r
<1>10. n * HourLen \in Nat /\ n * HourLen <= Exit!Now
  <2>1. n * HourLen <= r * HourLen /\ n * HourLen \in Nat /\ r * HourLen \in Int
    BY <1>4, <1>7, <1>9, Multiples
  <2> QED BY <1>4, <1>7, <2>1
<1>11. f \in Nat /\ f * HourLen \in Nat /\ f * HourLen > Exit!Cursor
  <2>1. f \in Nat BY <1>6, <1>8
  <2> QED BY <1>4, <1>6, <1>8, <2>1, Multiples
<1>12. PathInv' /\ (Exit!Now)' = Exit!Now BY <1>1, <1>3, PathStays
<1>13. RowsInv' /\ (Signed(P, paper) => Signed(P, paper'))
       /\ (f < n \/ ~Exit!Live(paper)' \/ paper' = paper)
       /\ (venue = "crypto" => ~(f < n))
  <2>1. CASE venue = "forts"
    <3>1. StepOfVenue = HourLen BY <2>1 DEF StepOfVenue
    <3>2. f * HourLen >= LedTo(paper)
      <4>1. CASE paper.cursor = -1 BY <1>5, <1>11, <4>1
      <4>2. CASE paper.cursor # -1
        <5>1. PICK j \in Nat : paper.cursor = j * HourLen BY <1>1, <2>1, <4>2 DEF RowsInv
        <5>2. Exit!Cursor = j * HourLen BY <4>2, <5>1 DEF Exit!Cursor, Exit!None
        <5>3. j < f BY <1>4, <1>11, <5>2, Multiples
        <5>4. (j + 1) * HourLen <= f * HourLen /\ (j + 1) * HourLen = j * HourLen + HourLen
              /\ j * HourLen \in Int
          <6>1. j + 1 <= f /\ j + 1 \in Int /\ f \in Int /\ j \in Int BY <1>11, <5>3
          <6> QED BY <1>4, <6>1, Multiples
        <5> QED BY <1>4, <1>5, <1>11, <3>1, <4>2, <5>2, <5>4
      <4> QED BY <4>1, <4>2
    <3>3. f * HourLen > paper.approved BY <1>5, <1>11
    <3>4. /\ RowsInv' /\ (Signed(P, paper) => Signed(P, paper'))
          /\ ~(f < n) /\ Exit!Live(paper)' => paper' = paper
      <4> DEFINE L == HourLen
      <4>1. L = StepOfVenue /\ n * L <= Exit!Now /\ f * L >= LedTo(paper) /\ f * L > paper.approved
        BY <1>10, <3>1, <3>2, <3>3
      <4>2. Exit!Replay(P, Exit!BarsFrom(f, n, L)) BY <1>2
      <4> HIDE DEF L
      <4> QED BY <1>1, <1>3, <1>9, <1>11, <4>1, <4>2, Replays
    <3> QED BY <2>1, <3>4
  <2>2. CASE venue = "crypto"
    <3>1. live = Exit!Now BY <1>3, <2>2
    <3>2. Exit!Cursor >= Exit!Now - HourLen BY <1>3, <2>2, <3>1 DEF ExitInv, MinutesInv
    <3>3. ~(f < n)
      <4> SUFFICES ASSUME f < n PROVE FALSE OBVIOUS
      <4>1. (f + 1) * HourLen <= n * HourLen /\ (f + 1) * HourLen = f * HourLen + HourLen
        <5>1. f + 1 <= n /\ f + 1 \in Int /\ n \in Int /\ f \in Int BY <1>9, <1>11
        <5> QED BY <1>4, <5>1, Multiples
      <4> QED BY <1>4, <1>5, <1>10, <1>11, <3>2, <4>1
    <3>4. Exit!BarsFrom(f, n, HourLen) = <<>> BY <1>9, <1>11, <3>3, ReadsNothing
    <3> DEFINE L == StepOfVenue
               z == 0
    <3>5. L = StepOfVenue /\ L = 1 /\ z \in Nat BY <2>2 DEF StepOfVenue
    <3>6. Exit!BarsFrom(z, z, L) = <<>> BY ReadsNothing
    <3>7. Exit!Replay(P, Exit!BarsFrom(z, z, L)) BY <1>2, <3>4, <3>6
    <3>8. z * L <= Exit!Now /\ ~(z < z) BY <1>4, <3>5
    <3> HIDE DEF L, z
    <3>9. /\ RowsInv' /\ (Signed(P, paper) => Signed(P, paper'))
          /\ ~(z < z) /\ Exit!Live(paper)' => paper' = paper
      BY <1>1, <1>3, <3>5, <3>7, <3>8, Replays
    <3> QED BY <2>2, <3>3, <3>8, <3>9
  <2>3. venue \in {"forts", "crypto"} BY <1>1, ExitConstants DEF PathInv
  <2> QED BY <2>1, <2>2, <2>3
<1>14. MinutesInv'
  <2> SUFFICES ASSUME venue = "crypto", live = Exit!Now, Exit!Live(paper)'
      PROVE (Exit!Cursor)' >= Exit!Now - HourLen
    BY <1>3, <1>12 DEF MinutesInv
  <2>1. paper' = paper BY <1>13
  <2>2. (Exit!Cursor)' = Exit!Cursor BY <2>1 DEF Exit!Cursor
  <2> QED BY <1>3, <2>2 DEF ExitInv, MinutesInv
<1> QED BY <1>3, <1>12, <1>13, <1>14 DEF ExitInv

\* Every step of the exits keeps the invariant, whichever policy the API process finds.
LEMMA ExitStep ==
  ASSUME ~Outages, ExitInv, [Exit!Next]_exitVars
  PROVE  ExitInv'
<1>1. CASE Exit!TimePasses
  <2>1. Exit!TimePasses /\ ExitInv BY <1>1
  <2> QED BY <2>1, TimeGoesOn
<1>2. CASE Exit!PaperLive BY <1>2, ReadsMinutes
<1>3. CASE Exit!Paper
  <2>1. IsPolicy(Exit!Policy(policy)) BY ExitConstants, PoliciesArePolicies DEF ExitInv, PathInv
  <2> QED BY <1>3, <2>1, ReadsHours DEF Exit!Paper
<1>4. CASE Exit!Reconcile
  <2> DEFINE name == IF policy \in Forgotten THEN "legacy" ELSE policy
  <2>1. name \in Names BY ExitConstants DEF ExitInv, PathInv, Names
  <2>2. IsPolicy(Exit!Policy(name)) BY <2>1, PoliciesArePolicies
  <2> QED BY <1>4, <2>2, ReadsHours DEF Exit!Reconcile
<1>5. CASE UNCHANGED exitVars
  BY <1>5 DEF exitVars, ExitInv, PathInv, RowsInv, MinutesInv, Exit!Now, StepOfVenue, LedTo, Well,
     OnTime, Booked,
     PaperRows, Times, Exit!Live, Exit!Cursor
<1> QED BY <1>1, <1>2, <1>3, <1>4, <1>5 DEF Exit!Next

\* Every step leads the trade by its own policy, when the API process knows it.
LEMMA SignedStep ==
  ASSUME ~Outages, Forgotten \cap Policies = {}, ExitInv, SignedInv, [Exit!Next]_exitVars
  PROVE  SignedInv'
<1>1. CASE Exit!TimePasses BY <1>1, TimeGoesOn
<1>2. CASE Exit!PaperLive BY <1>2, ReadsMinutes
<1>3. CASE Exit!Paper \/ Exit!Reconcile
  <2> DEFINE P == Exit!Policy(policy)
  <2>1. IsPolicy(P) BY ExitConstants, PoliciesArePolicies DEF ExitInv, PathInv
  <2>2. policy \notin Forgotten BY DEF ExitInv, PathInv
  <2>3. Exit!Hours(P) BY <1>3, <2>2 DEF Exit!Paper, Exit!Reconcile
  <2> HIDE DEF P
  <2>4. (Signed(P, paper) => Signed(P, paper')) /\ policy' = policy BY <2>1, <2>3, ReadsHours
  <2>5. Signed(P, paper') BY <2>4 DEF SignedInv, P
  <2>6. SignedInv' = Signed(P, paper') BY <2>4 DEF SignedInv, Signed, Locked, P, Exit!Policy
  <2> QED BY <2>5, <2>6
<1>4. CASE UNCHANGED exitVars BY <1>4 DEF exitVars, SignedInv, Signed, Locked, Exit!Policy
<1> QED BY <1>1, <1>2, <1>3, <1>4 DEF Exit!Next

-----------------------------------------------------------------------------
EnrolmentProofs == INSTANCE DeviceEnrollmentProofs

\* A behavior of the services is a behavior of the enrolment, of which DeviceEnrollmentProofs
\* proves this.
LEMMA EnrolmentAlways ==
  AllSpec => [](Enrolment!CodeEnrolsOnce /\ Enrolment!NoMutualRevocation /\ Enrolment!TypeOK)
<1>1. EnrolmentProofs!CodesApart
  BY ServicesAssumption DEF EnrolmentProofs!CodesApart, EnrolmentProofs!NoCode, Enrolment!NoCode
<1>2. EnrolmentProofs!Spec => []EnrolmentProofs!CodeEnrolsOnce
  BY <1>1, EnrolmentProofs!CodesEnrolOnce
<1>3. EnrolmentProofs!Spec => []EnrolmentProofs!NoMutualRevocation
  BY <1>1, EnrolmentProofs!NeverEachOther
<1>4. EnrolmentProofs!CodeEnrolsOnce => Enrolment!CodeEnrolsOnce
  BY DEF EnrolmentProofs!CodeEnrolsOnce, Enrolment!CodeEnrolsOnce, EnrolmentProofs!Creds,
     Enrolment!Creds, EnrolmentProofs!Gens, Enrolment!Gens, EnrolmentProofs!NoCode,
     Enrolment!NoCode, EnrolmentProofs!Used, Enrolment!Used
<1>5. EnrolmentProofs!NoMutualRevocation => Enrolment!NoMutualRevocation
  BY DEF EnrolmentProofs!NoMutualRevocation, Enrolment!NoMutualRevocation, EnrolmentProofs!Creds,
     Enrolment!Creds, EnrolmentProofs!Gens, Enrolment!Gens
<1>7. EnrolmentProofs!Spec => []EnrolmentProofs!TypeOK
  <2>1. EnrolmentProofs!MaxGenIsNat BY ServicesAssumption DEF EnrolmentProofs!MaxGenIsNat
  <2> QED BY <1>1, <2>1, EnrolmentProofs!EnrolmentTyped
<1>8. EnrolmentProofs!TypeOK => Enrolment!TypeOK
  BY DEF EnrolmentProofs!TypeOK, Enrolment!TypeOK, EnrolmentProofs!Creds, Enrolment!Creds,
     EnrolmentProofs!Gens, Enrolment!Gens, EnrolmentProofs!NoCode, Enrolment!NoCode,
     EnrolmentProofs!NoKey, Enrolment!NoKey, EnrolmentProofs!NoOne, Enrolment!NoOne,
     EnrolmentProofs!Idle, Enrolment!Idle, EnrolmentProofs!CodeRows, Enrolment!CodeRows,
     EnrolmentProofs!Unmade, Enrolment!Unmade, EnrolmentProofs!Made, Enrolment!Made,
     EnrolmentProofs!Used, Enrolment!Used
<1>6. AllSpec => EnrolmentProofs!Spec
  <2>1. AllInit => EnrolmentProofs!Init
    BY DEF AllInit, Enrolment!Init, EnrolmentProofs!Init, Enrolment!Creds, EnrolmentProofs!Creds,
       Enrolment!Gens, EnrolmentProofs!Gens, Enrolment!Fresh, EnrolmentProofs!Fresh,
       Enrolment!Absent, EnrolmentProofs!Absent, Enrolment!NoOne, EnrolmentProofs!NoOne,
       Enrolment!NoCode, EnrolmentProofs!NoCode, Enrolment!NoKey, EnrolmentProofs!NoKey,
       Enrolment!Idle, EnrolmentProofs!Idle, Enrolment!Unmade, EnrolmentProofs!Unmade,
       Enrolment!Made, EnrolmentProofs!Made
  <2>2. Enrolment!Next => EnrolmentProofs!Next
    BY DEF Enrolment!Next, EnrolmentProofs!Next,
       Enrolment!NoOne, EnrolmentProofs!NoOne, Enrolment!NoCode, EnrolmentProofs!NoCode,
       Enrolment!NoKey, EnrolmentProofs!NoKey, Enrolment!Gens, EnrolmentProofs!Gens,
       Enrolment!Creds, EnrolmentProofs!Creds, Enrolment!Absent, EnrolmentProofs!Absent,
       Enrolment!Fresh, EnrolmentProofs!Fresh, Enrolment!Idle, EnrolmentProofs!Idle,
       Enrolment!Active, EnrolmentProofs!Active, Enrolment!Live, EnrolmentProofs!Live,
       Enrolment!UsedKeys, EnrolmentProofs!UsedKeys, Enrolment!Gate, EnrolmentProofs!Gate,
       Enrolment!CredLock, EnrolmentProofs!CredLock, Enrolment!CodeLock,
       EnrolmentProofs!CodeLock, Enrolment!FreeFor, EnrolmentProofs!FreeFor, Enrolment!Lock,
       EnrolmentProofs!Lock, Enrolment!Rows, EnrolmentProofs!Rows, Enrolment!To,
       EnrolmentProofs!To, Enrolment!End, EnrolmentProofs!End, Enrolment!Quit,
       EnrolmentProofs!Quit, Enrolment!Ask, EnrolmentProofs!Ask, Enrolment!Draft,
       EnrolmentProofs!Draft, Enrolment!Revoking, EnrolmentProofs!Revoking, Enrolment!Insert,
       EnrolmentProofs!Insert, Enrolment!AskPair, EnrolmentProofs!AskPair, Enrolment!EnterGate,
       EnrolmentProofs!EnterGate, Enrolment!LockKnown, EnrolmentProofs!LockKnown,
       Enrolment!LockCode, EnrolmentProofs!LockCode, Enrolment!FindActive,
       EnrolmentProofs!FindActive, Enrolment!CountActive, EnrolmentProofs!CountActive,
       Enrolment!InsertPaired, EnrolmentProofs!InsertPaired, Enrolment!CommitPair,
       EnrolmentProofs!CommitPair, Enrolment!AskRotate, EnrolmentProofs!AskRotate,
       Enrolment!AskRevokeLost, EnrolmentProofs!AskRevokeLost, Enrolment!AskRevoke,
       EnrolmentProofs!AskRevoke, Enrolment!LockCurrent, EnrolmentProofs!LockCurrent,
       Enrolment!LockTarget, EnrolmentProofs!LockTarget, Enrolment!InsertRotated,
       EnrolmentProofs!InsertRotated, Enrolment!Revoked, EnrolmentProofs!Revoked,
       Enrolment!CommitRevocation, EnrolmentProofs!CommitRevocation, Enrolment!AskProvision,
       EnrolmentProofs!AskProvision, Enrolment!LockOld, EnrolmentProofs!LockOld,
       Enrolment!CommitCode, EnrolmentProofs!CommitCode, Enrolment!Abort,
       EnrolmentProofs!Abort, Enrolment!Max, EnrolmentProofs!Max, Enrolment!Cardinality,
       EnrolmentProofs!Cardinality, Enrolment!Unmade, EnrolmentProofs!Unmade, Enrolment!Made,
       EnrolmentProofs!Made, Enrolment!Used, EnrolmentProofs!Used
  <2>3. [AllNext]_<<part, vars, outboxVars, devicesVars, exitVars>>
          => [EnrolmentProofs!Next]_EnrolmentProofs!vars
    BY <2>2 DEF AllNext, devicesVars, EnrolmentProofs!vars
  <2> QED BY <2>1, <2>3, PTL DEF AllSpec, EnrolmentProofs!Spec
<1> QED BY <1>2, <1>3, <1>4, <1>5, <1>6, <1>7, <1>8, PTL
-----------------------------------------------------------------------------
\* A behavior of the services is a behavior of the outbox.
LEMMA OutboxRuns ==
  /\ AllInit => Outbox!Init
  /\ [AllNext]_<<part, vars, outboxVars, devicesVars, exitVars>> => [Outbox!Next]_outboxVars
BY DEF AllInit, AllNext

\* The table, the delivery and the phone's stream in every behavior.
LEMMA OutboxKept == AllSpec => []OutboxInv
<1>1. AllInit => OutboxInv BY OutboxRuns, OutboxInitial
<1>2. OutboxInv /\ [AllNext]_<<part, vars, outboxVars, devicesVars, exitVars>> => OutboxInv'
  BY OutboxRuns, OutboxStep
<1> QED BY <1>1, <1>2, PTL DEF AllSpec

\* Whatever transactions roll back, sends fail, connections break and rows appear below others, the
\* phone and Telegram pass over no committed row but one that was overtaken by a greater id or
\* skipped when Telegram was enabled again (deliver, set_enabled, notifications.py).
THEOREM ReadersMissOnlyLateAlways == AllSpec => []ReadersMissOnlyLate
<1>1. OutboxInv => ReadersMissOnlyLate
  BY DEF OutboxInv, TelegramInv, PhoneInv, ReadersMissOnlyLate
<1> QED BY <1>1, OutboxKept, PTL

\* What was told and what is in doubt, in every behavior.
LEMMA DoubtKept == AllSpec => []DoubtInv
<1>1. AllInit => DoubtInv BY OutboxRuns, DoubtInitial
<1>2. OutboxInv /\ DoubtInv /\ [AllNext]_<<part, vars, outboxVars, devicesVars, exitVars>> => DoubtInv'
  BY OutboxRuns, DoubtStep
<1> QED BY <1>1, <1>2, OutboxKept, PTL DEF AllSpec

\* Whenever the owner switches Telegram and whatever answers are lost, Telegram takes a piece of news
\* twice only if its earlier sending was not recorded (deliver, set_enabled, paper_live).
THEOREM TelegramRepeatsAlways == AllSpec => []TelegramRepeatsOnlyDoubtful
<1>1. DoubtInv => TelegramRepeatsOnlyDoubtful
  BY DEF DoubtInv, TelegramRepeatsOnlyDoubtful, Outbox!TelegramRepeatsOnlyDoubtful
<1> QED BY <1>1, DoubtKept, PTL

\* However many requests race, a code enrols one device, once, and none after a newer code has
\* superseded it (authenticate_pairing_session, the lock of the code's row).
THEOREM CodeEnrolsOnceAlways == AllSpec => []CodeEnrolsOnce
BY EnrolmentAlways, PTL DEF CodeEnrolsOnce

\* Two devices that report each other lost at once leave one of the two active: the actor's row is
\* locked before its victim's (revoke_lost_device).
THEOREM NeverRevokedMutually == AllSpec => []NoMutualRevocation
BY EnrolmentAlways, PTL DEF NoMutualRevocation

\* Nothing but the exits' own steps moves the path and the trade.
LEMMA ExitRuns ==
  /\ AllInit /\ part = "exit" => Exit!Init
  /\ [AllNext]_<<part, vars, outboxVars, devicesVars, exitVars>> =>
       part' = part /\ (part = "exit" => [Exit!Next]_exitVars)
BY DEF AllInit, AllNext

\* Whenever the minute feed answers, an order is filled by a bar that began after its approval, and
\* stopped by the bar of the fill or a later one, with a stop that was there: for every path of the
\* price, length of an hour and limit of the feed (_bars_since, _execution_since, advance_v2).
THEOREM BarsAlwaysComeAfter == ASSUME ~Outages PROVE AllSpec => []BarsComeAfter
<1> DEFINE Inv == part = "exit" => ExitInv
<1>1. AllInit => Inv BY ExitRuns, ExitStarts
<1>2. Inv /\ [AllNext]_<<part, vars, outboxVars, devicesVars, exitVars>> => Inv'
  BY ExitRuns, ExitStep
<1>3. Inv => BarsComeAfter
  <2> SUFFICES ASSUME ExitInv PROVE Exit!BarsComeAfter BY DEF BarsComeAfter
  <2> QED BY DEF ExitInv, RowsInv, OnTime, Exit!BarsComeAfter, Exit!StopWasThere, Exit!None
<1> QED BY <1>1, <1>2, <1>3, PTL DEF AllSpec

\* Whenever the minute feed answers and both processes know every signed policy, a trade that a
\* stop, the targets or the time end has sold the whole position, and ends without a loss once it
\* has taken its first target (advance_v2, _remaining_share).
THEOREM ResultsAddUp ==
  ASSUME ~Outages, Forgotten \cap Policies = {} PROVE AllSpec => []ResultAddsUp
<1> DEFINE Inv == part = "exit" => ExitInv /\ SignedInv
<1>1. AllInit => Inv BY ExitRuns, ExitStarts
<1>2. Inv /\ [AllNext]_<<part, vars, outboxVars, devicesVars, exitVars>> => Inv'
  BY ExitRuns, ExitStep, SignedStep
<1>3. Inv => ResultAddsUp
  <2> SUFFICES ASSUME SignedInv PROVE Exit!ResultAddsUp BY DEF ResultAddsUp
  <2> QED BY DEF SignedInv, Signed, Exit!ResultAddsUp
<1> QED BY <1>1, <1>2, <1>3, PTL DEF AllSpec
\* The trade of the exits is well formed.
LEMMA ExitTypes ==
  ASSUME ExitInv
  PROVE  Exit!TypeOK
<1>1. paper \in PaperRows /\ paper.stop >= -4 /\ (paper.status = "PENDING") = (paper.filledAt = -1 /\ paper.outcome = "none")
  BY DEF ExitInv, RowsInv, Well
<1>2. MaxMinute \in Nat /\ live \in -1..MaxMinute BY NowIsNatural DEF ExitInv, PathInv
<1> QED BY <1>1, <1>2 DEF Exit!TypeOK, Exit!None, Exit!FirstStop, PaperRows, Times

\* The rows of trades, ideas, notifications and devices, the cursors and what the requests have read
\* are well formed, for a minute feed that answers (models/device.py, models/notification.py).
THEOREM ServicesTyped == ASSUME ~Outages PROVE AllSpec => []ServicesTypeOK
<1> DEFINE Inv == (IInv /\ JInv) /\ (part = "exit" => ExitInv)
           allVars == <<part, vars, outboxVars, devicesVars, exitVars>>
<1>1. AllInit => Inv
  <2>1. AllInit => Init BY DEF AllInit
  <2> QED BY <2>1, Initial, InitialRows, ExitRuns, ExitStarts
<1>2. Inv /\ [AllNext]_allVars => Inv'
  <2>1. [AllNext]_allVars => [Next]_vars BY DEF AllNext
  <2> QED BY <2>1, Step, RowsStep, ExitRuns, ExitStep
<1>3. Inv => TypeOK /\ (part = "exit" => Exit!TypeOK)
  BY RowsTypes, ExitTypes
<1>4. OutboxInv /\ DoubtInv => Outbox!TypeOK BY OutboxTypes
<1>5. AllSpec => []Inv BY <1>1, <1>2, PTL DEF AllSpec
<1> HIDE DEF Inv
<1>6. Inv /\ Outbox!TypeOK /\ Enrolment!TypeOK => ServicesTypeOK BY <1>3 DEF ServicesTypeOK
<1> QED BY <1>4, <1>5, <1>6, OutboxKept, DoubtKept, EnrolmentAlways, PTL
=============================================================================
