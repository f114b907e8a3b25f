------------------------------ MODULE PaperExit ------------------------------
(***************************************************************************)
(* One approved paper trade, a long one, led through the bars of its       *)
(* instrument (risk/dynamic_exit.py, paper/tracker.py,                     *)
(* paper/live_tracker.py).  The job "paper-live" replays closed one-minute *)
(* bars of a crypto instrument, the job "paper" closed hours of any        *)
(* instrument; both move the same cursor, last_reconciled_at.              *)
(*                                                                         *)
(* Prices are quarters of the risk, counted from the entry; shares are     *)
(* percents.  The price moves within a minute from one level to the next,  *)
(* so the bars of a minute and of an hour follow from the path.  What the  *)
(* end of a trade does to its idea is module PaperTrading.                 *)
(***************************************************************************)
EXTENDS Integers, FiniteSets, SequencesExt

CONSTANTS
  Levels,      \* where the price stands at the end of a minute
  Start,       \* where it stands at the approval
  HourLen,     \* minutes of an hour
  MaxMinute,   \* bound on the time
  Horizon,     \* how long an order waits
  MaxHold,     \* how long a trade is held, MAX_HOLD_DAYS
  Limit,       \* minutes one call of the feed returns
  HandoffAge,  \* when a cursor on the hour is taken for one of the hourly job
  Policies,    \* names of policies that were signed
  Forgotten,   \* those the API process does not know
  Venues,      \* of "forts" and "crypto"
  Outages      \* whether the minute feed may fail

None == -1
Entry == 0
FirstStop == -4
Targets == <<4, 8, 12>>

\* risk.management.profiles of config/default.yaml; time stops are shortened.
Policy(name) ==
  CASE name = "legacy" ->
         [shares |-> <<40, 40, 20>>, locks |-> <<Entry, Targets[1]>>, v2 |-> FALSE]
    [] name = "defensive" ->
         [shares |-> <<50, 35, 15>>, locks |-> <<0, 4>>, v2 |-> TRUE,
          minTrail |-> 3, atr10 |-> 18, giveback |-> 25, timeStop |-> 3]
    [] name = "conviction" ->
         [shares |-> <<20, 25, 55>>, locks |-> <<-1, 1>>, v2 |-> TRUE,
          minTrail |-> 5, atr10 |-> 30, giveback |-> 45, timeStop |-> 4]

VARIABLES
  path,    \* where the price stood when each minute began
  trade,   \* the row of paper_trades, and what it came from
  policy,  \* the name of its policy
  venue,
  live     \* when "paper-live" last saw the feed

vars == <<path, trade, policy, venue, live>>
Now == Len(path) - 1

\* Beside the columns: the bar of the fill, the end of the bar that set the stop, the bars of the
\* last replay, and the shares that are part of realized_r.
Approved(m, name) ==
  [shares |-> Policy(name).shares, status |-> "PENDING", stop |-> FirstStop, taken |-> 0, realized |-> 0, sold |-> 0,
   approved |-> m, opened |-> m, cursor |-> None, breakeven |-> None, outcome |-> "none",
   closedAt |-> None, filledAt |-> None, filledEnd |-> None, stopEnd |-> m,
   readFrom |-> m + 1, readTo |-> m + 1]

Live(t) == t.status \in {"PENDING", "OPEN"}

Init ==
  /\ \E m \in 0..(HourLen - 1) :
       path = [k \in 1..(m + 1) |-> Start] /\ \E name \in Policies : policy = name /\ trade = Approved(m, name)
  /\ venue \in Venues /\ live = None

TimePasses ==
  /\ Now < MaxMinute /\ Live(trade)
  /\ \E p \in Levels : path' = Append(path, p)
  /\ UNCHANGED <<trade, policy, venue, live>>

-----------------------------------------------------------------------------
\* advance_v2: one bar after the other; a trade that is over is left alone.

BarOf(from, to) ==
  LET seen == {path[k] : k \in (from + 1)..(to + 1)} IN
  [open |-> from, end |-> to, low |-> Min(seen), high |-> Max(seen), close |-> path[to + 1]]

Fill(P, t, b) ==
  IF t.status = "PENDING" /\ b.low <= Entry /\ Entry <= b.high
  THEN [t EXCEPT !.status = "OPEN", !.filledAt = b.open, !.filledEnd = b.end,
                 !.opened = IF P.v2 THEN b.open ELSE @]
  ELSE t

\* The shares of the targets that were taken.
Exited(t) ==
  LET s == t.shares IN <<0, s[1], s[1] + s[2], s[1] + s[2] + s[3]>>[t.taken + 1]
\* mutant: the share of the runner counts as sold with the last target
RemainingPlain(P, t) == 100 - Exited(t)
Remaining(P, t) == IF P.v2 /\ t.taken = 3 THEN t.shares[3] ELSE 100 - Exited(t)
CloseAt(P, t, b, price, outcome) ==
  [t EXCEPT !.status = "CLOSED", !.outcome = outcome, !.closedAt = b.open,
            !.realized = @ + price * Remaining(P, t), !.sold = @ + Remaining(P, t)]

\* _move_stop: only up, and protected from the entry on.
MoveStop(t, b, price) ==
  IF price <= t.stop THEN t
  ELSE [t EXCEPT !.stop = price, !.stopEnd = b.end,
                 !.breakeven = IF price >= Entry /\ @ = None THEN b.open ELSE @]

\* The last target of a runner sells nothing.
TakeTarget(P, t, b, i) ==
  LET share == IF P.v2 /\ i = 3 THEN 0 ELSE t.shares[i]
      paid == [t EXCEPT !.taken = i, !.sold = @ + share, !.realized = @ + Targets[i] * share]
  IN IF i = 3 THEN paid ELSE MoveStop(paid, b, P.locks[i])
TakeNext(P, t, b, i) ==
  IF t.taken = i - 1 /\ b.high >= Targets[i] THEN TakeTarget(P, t, b, i) ELSE t
TakeTargets(P, t, b) == TakeNext(P, TakeNext(P, TakeNext(P, t, b, 1), b, 2), b, 3)

Trail(P, t, b, ranges, mfe) ==
  LET atr == ranges.sum \div ranges.count
      width == Max({P.minTrail, (P.atr10 * atr) \div 10})
      kept == (mfe * (100 - P.giveback)) \div 100
  IN MoveStop(t, b, Max({P.locks[2], mfe - width, kept}))

\* What becomes of a position whose stop has held.
Exits(P, t, b, ranges, mfe) ==
  LET u == TakeTargets(P, t, b) IN
  CASE ~P.v2 /\ u.taken = 3 ->
         [u EXCEPT !.status = "CLOSED", !.outcome = "TP", !.closedAt = b.open]
    [] P.v2 /\ u.taken = 3 -> Trail(P, u, b, ranges, mfe)
    [] P.v2 /\ u.taken = 0 /\ b.open - u.opened >= P.timeStop ->
         CloseAt(P, u, b, b.close, "TIME")
    [] OTHER -> u

\* The code keeps the last 14 ranges, more than the bars of one call here.
TrueRange(w, b) ==
  IF w.ranges.count = 0 THEN b.high - b.low
  ELSE Max({b.high, w.close}) - Min({b.low, w.close})
AdvanceBar(P, w, b) ==
  LET ranges == [sum |-> w.ranges.sum + TrueRange(w, b), count |-> w.ranges.count + 1]
      t == Fill(P, w.trade, b)
      stopped == t.status = "OPEN" /\ b.low <= t.stop
      mfe == IF t.status = "OPEN" THEN Max({w.mfe, b.high}) ELSE w.mfe
  IN [ranges |-> ranges, close |-> b.close, mfe |-> mfe,
      trade |->
        CASE stopped -> CloseAt(P, t, b, t.stop, IF t.breakeven = None THEN "SL" ELSE "BE")
          [] t.status = "OPEN" /\ ~stopped -> Exits(P, t, b, ranges, mfe)
          [] OTHER -> t]
\* The trade and what the call knows, after each of the bars.
After(P, t, bars) ==
  LET after[n \in 0..Len(bars)] ==
        IF n = 0 THEN [trade |-> t, ranges |-> [sum |-> 0, count |-> 0], close |-> Entry, mfe |-> 0]
        ELSE AdvanceBar(P, after[n - 1], bars[n])
  IN after
Advance(P, t, bars) == After(P, t, bars)[Len(bars)].trade

-----------------------------------------------------------------------------
\* The two jobs; each writes the cursor and then lets the trade expire.

Expire(t) ==
  CASE t.status = "PENDING" /\ Now >= t.approved + Horizon ->
         [t EXCEPT !.status = "CANCELLED", !.outcome = "cancelled", !.closedAt = Now]
    [] t.status = "OPEN" /\ Now - t.opened >= MaxHold ->
         [t EXCEPT !.status = "CLOSED", !.outcome = "horizon", !.closedAt = Now]
    [] OTHER -> t

Cursor == IF trade.cursor = None THEN trade.opened ELSE trade.cursor
\* Bars of one length are numbered from 0.
BarsFrom(first, upto, length) ==
  [k \in 1..(upto - first) |-> BarOf((first + k - 1) * length, (first + k) * length)]
\* mutant: the bar of the cursor is read again
FirstUnseenInclusive(since, length) == (since + length - 1) \div length
\* the first one that opens after the cursor
FirstUnseen(since, length) == since \div length + 1
Replay(P, bars) ==
  trade' = Expire(IF bars = <<>> THEN trade
                  ELSE [Advance(P, trade, bars) EXCEPT !.cursor = Last(bars).open,
                          !.readFrom = Head(bars).open, !.readTo = Last(bars).end])

\* _execution_since: behind a cursor of the hourly job the rest of its hour is skipped.
Handoff ==
  /\ Cursor % HourLen = 0 /\ trade.breakeven = Cursor
  /\ Now - Cursor >= HandoffAge
ExecutionSince == IF Handoff THEN Cursor + HourLen - 1 ELSE Cursor

PaperLive ==
  /\ venue = "crypto" /\ Live(trade)
  /\ Replay(Policy(policy), BarsFrom(Max({Now - Limit, FirstUnseen(ExecutionSince, 1)}), Now, 1))
  /\ live' = Now
  /\ UNCHANGED <<path, policy, venue>>

\* The hours that are ingested; the jobs of a round run one after the other, "paper-live" first.
Hours(P) ==
  /\ Live(trade)
  /\ venue = "forts" \/ Outages \/ live = Now
  /\ \E n \in 0..(Now \div HourLen) :
       Replay(P, BarsFrom(FirstUnseen(Cursor, HourLen), n, HourLen))
  /\ UNCHANGED <<path, policy, venue, live>>
Paper == Hours(Policy(policy))
\* The owner asks for the same from the API, whose process finds the policy by the shares.
Reconcile == Hours(Policy(IF policy \in Forgotten THEN "legacy" ELSE policy))

Next == TimePasses \/ PaperLive \/ Paper \/ Reconcile

Spec == Init /\ [][Next]_vars

-----------------------------------------------------------------------------
\* The trade and the times it names are well formed.
TypeOK ==
  /\ trade.status \in {"PENDING", "OPEN", "CLOSED", "CANCELLED"}
  /\ trade.taken \in 0..3 /\ trade.sold \in 0..100 /\ trade.stop >= FirstStop
  /\ {trade.cursor, trade.breakeven, trade.closedAt, live} \subseteq None..MaxMinute
  /\ (trade.status = "PENDING") = (trade.filledAt = None /\ trade.outcome = "none")

\* A stop closes a trade only on a bar that began when the stop was there: "minutes from the
\* already-consumed hour can be interpreted with a stop that did not exist yet. This is exactly the
\* shape of a false BE close" (live_tracker.py:66).
StopWasThere == trade.outcome \in {"SL", "BE"} => trade.closedAt >= trade.stopEnd

\* An order is filled by a bar that began after its approval, and stopped by the bar of the fill or
\* one that began later, with a stop that was there (_bars_since, advance_v2).
BarsComeAfter ==
  /\ StopWasThere
  /\ trade.filledAt # None => trade.filledAt > trade.approved
  /\ trade.outcome \in {"SL", "BE"} =>
       trade.closedAt = trade.filledAt \/ trade.closedAt >= trade.filledEnd

\* realized_r accounts for the whole position when a stop, the targets or the time end it, and a
\* trade that has taken its first target does not end with a loss any more (tracker.py:378).
ResultAddsUp ==
  trade.outcome \in {"SL", "BE", "TP", "TIME"} =>
    trade.sold = 100 /\ (trade.taken > 0 => trade.realized >= 0)

\* No minute of an approved crypto trade is passed over (track_crypto_live).
NoMinuteSkipped ==
  [][venue = "crypto" /\ trade'.readTo # trade.readTo => trade'.readFrom <= trade.readTo]_vars

\* "Already confirmed, it never changes its exit policy afterwards": a runner is not closed by its
\* targets (management_policy.py:5).
SignedExit == policy # "legacy" => trade.outcome # "TP"
=============================================================================
