------------------------------ MODULE MarketLane ------------------------------
(***************************************************************************)
(* The market lane of the scheduler: one process runs ingest, scan, Shadow *)
(* and Paper A/B one after the other, each in a transaction of its own     *)
(* (server/app/scheduler/runner.py:79).  Scan and Shadow wake up when the  *)
(* watermark of the closed hourly bars has changed; they remember it in    *)
(* memory.  Shadow records what a candidate strategy sees, Paper A/B pairs *)
(* each of these rows with a decision of the deployed control and labels   *)
(* both when their horizon is over.                                        *)
(***************************************************************************)
EXTENDS Naturals, FiniteSets, FiniteSetsExt

CONSTANTS
  Instruments,
  LaneOf,       \* the trading lane of an instrument
  Trading,      \* the hours an instrument trades in
  Loaded,       \* the hour up to which its bars are stored at the start
  Signals,      \* <<instrument, newest bar>>: where a strategy emits a signal
  Horizon,      \* hours until a decision is labelled
  MaxFaults,    \* bound on failed jobs and restarts
  None

Lanes == {LaneOf[i] : i \in Instruments}
Newest(S) == IF S = {} THEN 0 ELSE Max(S)

VARIABLES
  bars,       \* the stored closed H1 bars of each instrument
  faults,     \* jobs failed and restarts so far
  turn,       \* the job that is next in the tick
  scanMark,   \* state["watermarks"] of the scan job, or None
  shadowMark, \* previous of the Shadow job, or None
  lost,       \* history: the jobs that set their mark last and could not commit
  scanned,    \* history: the newest bar a committed scan has looked at
  shadows,    \* the Shadow observations
  pairs       \* the Paper A/B decisions with their outcomes

vars == <<bars, faults, turn, scanMark, shadowMark, lost, scanned, shadows, pairs>>

Reach(i) == Newest(bars[i])

(* ----------------------- scheduler/market_watermark -------------------- *)
\* the rows of the closed H1 bars b in a lane
Stored(b, l) == UNION {{i} \X b[i] : i \in {i \in Instruments : LaneOf[i] = l}}

\* mutant: the watermark is the newest timestamp
MarkNewest(b, l) == [at |-> Max({row[2] : row \in Stored(b, l)}), count |-> 1]

\* the newest closed bar and the number of closed bars of a lane
Mark(b, l) == [at |-> Max({row[2] : row \in Stored(b, l)}), count |-> Cardinality(Stored(b, l))]

SnapshotOf(b) == [l \in {l \in Lanes : Stored(b, l) # {}} |-> Mark(b, l)]
Snapshot == SnapshotOf(bars)
AnyBar == \E i \in Instruments : bars[i] # {}

Observation == [instrument : Instruments, at : Nat, seen : Nat]
Outcome == {None} \cup [exit : Nat]
Arm == [seen : Nat, usable : BOOLEAN, signal : BOOLEAN, outcome : Outcome]

TypeOK ==
  /\ bars \in [Instruments -> SUBSET Nat]
  /\ turn \in {"ingest", "scan", "shadow", "paper_ab"}
  /\ faults \in 0 .. MaxFaults
  /\ lost \subseteq {"scan", "shadow"}
  /\ scanned \in [Instruments -> Nat]
  /\ shadows \subseteq Observation
  /\ pairs \subseteq [of : shadows, candidate : Arm, control : Arm]

Init ==
  /\ bars = [i \in Instruments |-> {h \in Trading[i] : h <= Loaded}]
  /\ turn = "ingest" /\ faults = 0
  /\ scanMark = None /\ shadowMark = None
  /\ lost = {}
  /\ scanned = [i \in Instruments |-> 0]
  /\ shadows = {} /\ pairs = {}

(* --------------------------------- jobs -------------------------------- *)
\* ingest_universe: of every instrument the tail that its exchange gives, or nothing
Ingest ==
  /\ turn = "ingest" /\ turn' = "scan"
  /\ \E upto \in [Instruments -> {0} \cup UNION {Trading[i] : i \in Instruments}] :
       /\ \A i \in Instruments : upto[i] \in {Reach(i)} \cup {h \in Trading[i] : h > Reach(i)}
       /\ bars' = [i \in Instruments |-> {h \in Trading[i] : h <= upto[i]}]
  /\ UNCHANGED <<faults, scanMark, shadowMark, lost, scanned, shadows, pairs>>

Wakes(mark) == AnyBar /\ (mark = None \/ mark # Snapshot)

\* it looks at every tradable instrument; the mark is set before the job's commit
Scan ==
  /\ turn = "scan" /\ turn' = "shadow"
  /\ IF Wakes(scanMark)
     THEN /\ scanMark' = Snapshot
          /\ lost' = lost \ {"scan"}
          /\ scanned' = [i \in Instruments |-> Reach(i)]
     ELSE UNCHANGED <<scanMark, lost, scanned>>
  /\ UNCHANGED <<faults, bars, shadowMark, shadows, pairs>>

EvaluatedAt == Max({Reach(i) : i \in Instruments})

\* one row for every instrument, as of the newest bar of all lanes; known rows stay
Rows == {[instrument |-> i, at |-> EvaluatedAt, seen |-> Reach(i)] : i \in Instruments}

Shadow ==
  /\ turn = "shadow" /\ turn' = "paper_ab"
  /\ IF Wakes(shadowMark)
     THEN /\ shadowMark' = Snapshot
          /\ lost' = lost \ {"shadow"}
          /\ shadows' = shadows \cup Rows
     ELSE UNCHANGED <<shadowMark, lost, shadows>>
  /\ UNCHANGED <<faults, bars, scanMark, scanned, pairs>>

\* mutant: the deployed control is always asked
ControlAlways(row) == row \in shadows

\* _default_control_provider: a row that newer bars have overtaken has no control
ControlUsable(row) == Reach(row.instrument) <= row.at

Emits(i, seen) == <<i, seen>> \in Signals

\* the first closed bar at or after the end of the horizon
ExitBars(row) == {h \in bars[row.instrument] : h >= row.at + Horizon}
Label(row) == IF ExitBars(row) = {} THEN None ELSE [exit |-> Min(ExitBars(row))]

\* an arm without a signal or without inputs has its outcome at once
Settled(arm, row) ==
  IF arm.outcome # None THEN arm
  ELSE IF arm.usable /\ arm.signal THEN [arm EXCEPT !.outcome = Label(row)]
  ELSE [arm EXCEPT !.outcome = [exit |-> row.at]]

NewArm(seen, usable, signal) ==
  [seen |-> seen, usable |-> usable, signal |-> usable /\ signal, outcome |-> None]

\* _default_control_provider scans the bars the database has now
NewPair(row) ==
  LET now == Reach(row.instrument) IN
  [of |-> row,
   candidate |-> NewArm(row.seen, row.seen # 0, Emits(row.instrument, row.seen)),
   control |-> NewArm(now, now # 0 /\ ControlUsable(row), Emits(row.instrument, now))]

\* seed_paper_ab and resolve_paper_ab
PaperAb ==
  /\ turn = "paper_ab" /\ turn' = "ingest"
  /\ LET Known == {p.of : p \in pairs}
         All == pairs \cup {NewPair(row) : row \in shadows \ Known} IN
     pairs' = {[p EXCEPT !.candidate = Settled(@, p.of), !.control = Settled(@, p.of)] : p \in All}
  /\ UNCHANGED <<faults, bars, scanMark, shadowMark, lost, scanned, shadows>>

\* mind the bound
Fault == faults < MaxFaults /\ faults' = faults + 1

Order == [ingest |-> "scan", scan |-> "shadow", shadow |-> "paper_ab", paper_ab |-> "ingest"]

\* a job raises: its transaction is rolled back, the next one runs
Fail ==
  /\ Fault /\ turn' = Order[turn]
  /\ UNCHANGED <<bars, scanMark, shadowMark, lost, scanned, shadows, pairs>>

\* the job has returned and set its mark, and the commit fails
FailToCommit ==
  /\ Fault
  /\ \/ turn = "scan" /\ Wakes(scanMark) /\ scanMark' = Snapshot /\ UNCHANGED shadowMark
     \/ turn = "shadow" /\ Wakes(shadowMark) /\ shadowMark' = Snapshot /\ UNCHANGED scanMark
  /\ lost' = lost \cup {turn}
  /\ turn' = Order[turn]
  /\ UNCHANGED <<bars, scanned, shadows, pairs>>

\* a deployment: the marks are forgotten
Restart ==
  /\ Fault
  /\ turn' = "ingest" /\ scanMark' = None /\ shadowMark' = None /\ lost' = {}
  /\ UNCHANGED <<bars, scanned, shadows, pairs>>

Next == Ingest \/ Scan \/ Shadow \/ PaperAb \/ Fail \/ FailToCommit \/ Restart

Spec == Init /\ [][Next]_vars

(* ------------------------------ properties ----------------------------- *)
(* When the scan or Shadow would sleep, there is no stored bar it has not  *)
(* looked at, whatever the order in which the lanes' bars have come, and   *)
(* whatever was rolled back or restarted in between - unless the commit of *)
(* the job that woke up last has failed.                                   *)
NoBarSleeps ==
  /\ ~Wakes(scanMark) /\ "scan" \notin lost => \A i \in Instruments : scanned[i] = Reach(i)
  /\ ~Wakes(shadowMark) /\ AnyBar /\ "shadow" \notin lost =>
       \A i \in Instruments :
         \E row \in shadows : row.instrument = i /\ row.seen = Reach(i)

(* However late a pair is decided and labelled, and whatever has failed    *)
(* until then, its control has seen no bar after the moment of the         *)
(* candidate, and a signal is labelled with the first bar its market has   *)
(* after the horizon ("would leak future data").                           *)
FirstAfter(row) == Min({h \in Trading[row.instrument] : h >= row.at + Horizon})
EvidenceIsHonest ==
  \A p \in pairs :
    /\ p.control.usable => p.control.seen <= p.of.at
    /\ \A arm \in {p.candidate, p.control} :
         arm.signal /\ arm.outcome # None => arm.outcome.exit = FirstAfter(p.of)

(* Both arms of a pair were decided on the same bars, as their common      *)
(* market_snapshot_hash says.                                              *)
PairOnSameBars == \A p \in pairs : p.control.usable => p.control.seen = p.of.seen

(* The inductive invariant behind NoBarSleeps: the stored bars of an       *)
(* instrument are all it has traded up to some hour, and a mark that was   *)
(* not lost is the snapshot of the bars that the job has looked at.        *)
UpTo(n) == [i \in Instruments |-> {h \in bars[i] : h <= n[i]}]
BarsInOrder ==
  \A i \in Instruments :
    /\ bars[i] \subseteq Trading[i] /\ IsFiniteSet(bars[i])
    /\ \A h \in bars[i], g \in Trading[i] : g <= h => g \in bars[i]
ScanMarkTold ==
  /\ \A i \in Instruments : scanned[i] <= Reach(i)
  /\ scanMark # None /\ "scan" \notin lost => scanMark = SnapshotOf(UpTo(scanned))
ShadowMarkTold ==
  shadowMark # None /\ "shadow" \notin lost =>
    \E n \in [Instruments -> {row.seen : row \in shadows}] :
      /\ shadowMark = SnapshotOf(UpTo(n))
      /\ \A i \in Instruments :
           n[i] <= Reach(i) /\ \E row \in shadows : row.instrument = i /\ row.seen = n[i]
MarkInv == TypeOK /\ BarsInOrder /\ ScanMarkTold /\ ShadowMarkTold

(* The one behind EvidenceIsHonest: only a usable arm has a signal.        *)
SignalsUsable == \A p \in pairs : \A arm \in {p.candidate, p.control} : arm.signal => arm.usable
PairInv == TypeOK /\ BarsInOrder /\ SignalsUsable /\ EvidenceIsHonest
=============================================================================
