------------------------ MODULE ExecutionControlProofs ------------------------
(***************************************************************************)
(* What the control lock and the row locks guarantee together, for any     *)
(* number of sessions.                                                     *)
(***************************************************************************)
EXTENDS ExecutionControl, TLAPS

\* who is inside has the lock
Inv1Holder == \A s \in Sessions : pc[s] \in Inside => lock = s

\* what is flushed and not committed is on a row its session has locked
Inv2Work ==
  \A s \in Sessions :
    /\ work[s].mode # None => row["mode"] = s
    /\ work[s].cred # None => row["slot"] = s
    /\ work[s].verdict # None => row["challenge"] = s /\ verdict = None

\* the guard keeps the rows of what it has read
Inv3Guard ==
  \A s \in Sessions :
    /\ pc[s] = "slot" => job[s].op = "guard"
    /\ pc[s] = "slot" \/ (pc[s] = "window" /\ job[s].op = "guard") =>
         kill = "CLEAR" /\ mode = "CANARY" /\ row["mode"] = s
    /\ pc[s] = "window" /\ job[s].op = "guard" => cred = "policy" /\ row["slot"] = s
    /\ pc[s] = "window" => kill = "CLEAR"

\* the level an automatic halt compares is still the level
Inv4Level == \A s \in Sessions : pc[s] = "saw" => job[s].level = kill

\* CANARY is only ever written together with the use of a fresh challenge
Inv5Canary ==
  \A s \in Sessions :
    /\ work[s].mode = "CANARY" => work[s].verdict # None
    /\ job[s].op \in {"change", "downshift"} /\ job[s].goal = "CANARY"
         => pc[s] \in {"read", "preview"} \/ job[s].seen = "CANARY"
    /\ pc[s] \in {"gates", "apply"} => verdict = None /\ row["challenge"] = s
    /\ pc[s] = "halted" => job[s].op = "haltdown"
    /\ pc[s] \in {"saw", "halted"} /\ job[s].op = "haltdown" => job[s].seen \in Modes

\* each operation's goal is of its kind
Inv6Goal ==
  \A s \in Sessions :
    /\ job[s].op \in {"change", "downshift", "haltdown"} => job[s].goal \in Modes
    /\ job[s].op = "set" => job[s].goal \in Levels
    /\ job[s].op = "save" => job[s].goal \in Creds

ControlInv == ControlTypeOK /\ Inv1Holder /\ Inv2Work /\ Inv3Guard /\ Inv4Level /\ Inv5Canary /\ Inv6Goal /\ RowOrder

LEMMA Ranks ==
  /\ RiskRank("PAPER") = 0 /\ RiskRank("SANDBOX") = 1 /\ RiskRank("CANARY") = 2
  /\ KillRank("CLEAR") = 0 /\ KillRank("HALT_NEW_ENTRIES") = 1
  /\ KillRank("CANCEL_PENDING_ENTRIES") = 2 /\ KillRank("FLATTEN_ALL") = 3
  BY DEF RiskRank, KillRank

LEMMA NewRecords == NoWork \in Drafts /\ NoJob \in Jobs
  BY DEF Drafts, Jobs, NoWork, NoJob, None

LEMMA DraftRecords ==
  ASSUME NEW w \in Drafts
  PROVE /\ \A m \in Modes : [w EXCEPT !.mode = m] \in Drafts
        /\ \A c \in Creds : [w EXCEPT !.cred = c] \in Drafts
        /\ [w EXCEPT !.verdict = "BLOCKED"] \in Drafts
        /\ [w EXCEPT !.mode = "CANARY", !.verdict = "APPLIED"] \in Drafts
        /\ w.mode \in Modes \cup {None} /\ w.cred \in Creds \cup {None}
        /\ w.verdict \in {None, "APPLIED", "BLOCKED"}
  BY DEF Drafts, Modes

LEMMA JobRecords ==
  ASSUME NEW j \in Jobs
  PROVE /\ \A m \in Modes : [j EXCEPT !.seen = m] \in Jobs
        /\ \A l \in Levels : [j EXCEPT !.level = l] \in Jobs
        /\ \A l \in Levels, m \in Modes : [j EXCEPT !.level = l, !.seen = m] \in Jobs
        /\ j.goal \in Modes \cup Levels \cup Creds \cup {None}
  BY DEF Jobs

LEMMA ControlInvInit == ControlInit => ControlInv
  BY ControlAssumption
  DEF ControlInit, ControlInv, ControlTypeOK, Inv1Holder, Inv2Work, Inv3Guard, Inv4Level,
      Inv5Canary, Inv6Goal, RowOrder, Inside, Places, NoWork, NoJob, Levels, Modes, Creds, Ops, Drafts, Jobs, Rows, None

LEMMA ControlInvNext == ControlInv /\ [ControlNext]_vars => ControlInv'
<1> SUFFICES ASSUME ControlInv, [ControlNext]_vars PROVE ControlInv'
  OBVIOUS
<1> USE ControlAssumption, LevelsAssumption DEF ControlInv, Goto, Committed, None, Rows
<1>1. ASSUME NEW s \in Sessions, ReadBefore(s) PROVE ControlInv'
  <2>0. /\ pc[s] = "read"
        /\ UNCHANGED <<lock, kill, mode, cred, verdict, row, work>>
        /\ \/ pc' = [pc EXCEPT ![s] = "preview"] /\ job' = job
           \/ pc' = [pc EXCEPT ![s] = "idle"] /\ job' = [job EXCEPT ![s] = NoJob]
    BY <1>1 DEF ReadBefore, At, Done
  <2>1. ControlTypeOK'
    <3>1. CASE /\ pc' = [pc EXCEPT ![s] = "preview"]
               /\ job' = job
      BY <2>0, <3>1, NewRecords, DraftRecords, JobRecords DEF ControlTypeOK, Places, Inv6Goal, Levels
    <3>2. CASE /\ pc' = [pc EXCEPT ![s] = "idle"]
               /\ job' = [job EXCEPT ![s] = NoJob]
      BY <2>0, <3>2, NewRecords, DraftRecords, JobRecords DEF ControlTypeOK, Places, Inv6Goal, Levels
    <3> QED
      BY <2>0, <3>1, <3>2
  <2>2. Inv1Holder'
    BY <2>0 DEF ControlTypeOK, Inv1Holder, Inside, Places
  <2>3. Inv2Work'
    BY <2>0 DEF ControlTypeOK, Inv1Holder, Inv2Work, Inv3Guard, Inv4Level, Inv5Canary, Inside, Places, Modes, NoWork, NoJob, Ops
  <2>4. Inv3Guard'
    BY <2>0 DEF ControlTypeOK, Inv1Holder, Inv2Work, Inv3Guard, Inv4Level, Inv5Canary, Inside, Places, Modes, NoWork, NoJob, Ops
  <2>5. Inv4Level'
    BY <2>0 DEF ControlTypeOK, Inv1Holder, Inv2Work, Inv3Guard, Inv4Level, Inv5Canary, Inside, Places, Modes, NoWork, NoJob, Ops
  <2>6. Inv5Canary'
    BY <2>0 DEF ControlTypeOK, Inv1Holder, Inv2Work, Inv3Guard, Inv4Level, Inv5Canary, Inside, Places, Modes, NoWork, NoJob, Ops
  <2>7. Inv6Goal'
    BY <2>0 DEF Inv6Goal, ControlTypeOK, NoJob, Ops
  <2>8. RowOrder'
    BY <2>0 DEF ControlTypeOK, Inv1Holder, RowOrder, Inside, Places
  <2> QED
    BY <2>1, <2>2, <2>3, <2>4, <2>5, <2>6, <2>7, <2>8
<1>2. ASSUME NEW s \in Sessions, Preview(s) PROVE ControlInv'
  <2>0. /\ pc[s] = "preview"
        /\ UNCHANGED <<lock, kill, mode, cred, verdict, row, work>>
        /\ \/ pc' = [pc EXCEPT ![s] = "wait"] /\ job' = [job EXCEPT ![s] = [job[s] EXCEPT !.seen = mode]] /\ (job[s].goal = "CANARY" => mode = "CANARY")
           \/ pc' = [pc EXCEPT ![s] = "idle"] /\ job' = [job EXCEPT ![s] = NoJob]
    BY <1>2, Ranks DEF Preview, At, Done, Allowed, ControlTypeOK, Modes
  <2>1. ControlTypeOK'
    <3>1. CASE /\ pc' = [pc EXCEPT ![s] = "wait"]
               /\ job' = [job EXCEPT ![s] = [job[s] EXCEPT !.seen = mode]]
               /\ (job[s].goal = "CANARY" => mode = "CANARY")
      BY <2>0, <3>1, NewRecords, DraftRecords, JobRecords DEF ControlTypeOK, Places, Inv6Goal, Levels
    <3>2. CASE /\ pc' = [pc EXCEPT ![s] = "idle"]
               /\ job' = [job EXCEPT ![s] = NoJob]
      BY <2>0, <3>2, NewRecords, DraftRecords, JobRecords DEF ControlTypeOK, Places, Inv6Goal, Levels
    <3> QED
      BY <2>0, <3>1, <3>2
  <2>2. Inv1Holder'
    BY <2>0 DEF ControlTypeOK, Inv1Holder, Inside, Places
  <2>3. Inv2Work'
    BY <2>0 DEF ControlTypeOK, Inv1Holder, Inv2Work, Inv3Guard, Inv4Level, Inv5Canary, Inside, Places, Modes, NoWork, NoJob, Ops
  <2>4. Inv3Guard'
    BY <2>0 DEF ControlTypeOK, Inv1Holder, Inv2Work, Inv3Guard, Inv4Level, Inv5Canary, Inside, Places, Modes, NoWork, NoJob, Ops
  <2>5. Inv4Level'
    BY <2>0 DEF ControlTypeOK, Inv1Holder, Inv2Work, Inv3Guard, Inv4Level, Inv5Canary, Inside, Places, Modes, NoWork, NoJob, Ops
  <2>6. Inv5Canary'
    <3>1. CASE /\ pc' = [pc EXCEPT ![s] = "wait"]
               /\ job' = [job EXCEPT ![s] = [job[s] EXCEPT !.seen = mode]]
               /\ (job[s].goal = "CANARY" => mode = "CANARY")
      BY <2>0, <3>1 DEF ControlTypeOK, Inv1Holder, Inv2Work, Inv3Guard, Inv4Level, Inv5Canary, Inside, Places, Modes, NoWork, NoJob, Ops
    <3>2. CASE /\ pc' = [pc EXCEPT ![s] = "idle"]
               /\ job' = [job EXCEPT ![s] = NoJob]
      BY <2>0, <3>2 DEF ControlTypeOK, Inv1Holder, Inv2Work, Inv3Guard, Inv4Level, Inv5Canary, Inside, Places, Modes, NoWork, NoJob, Ops
    <3> QED
      BY <2>0, <3>1, <3>2
  <2>7. Inv6Goal'
    <3>1. CASE /\ pc' = [pc EXCEPT ![s] = "wait"]
               /\ job' = [job EXCEPT ![s] = [job[s] EXCEPT !.seen = mode]]
               /\ (job[s].goal = "CANARY" => mode = "CANARY")
      BY <2>0, <3>1 DEF Inv6Goal, ControlTypeOK, NoJob, Ops
    <3>2. CASE /\ pc' = [pc EXCEPT ![s] = "idle"]
               /\ job' = [job EXCEPT ![s] = NoJob]
      BY <2>0, <3>2 DEF Inv6Goal, ControlTypeOK, NoJob, Ops
    <3> QED
      BY <2>0, <3>1, <3>2
  <2>8. RowOrder'
    BY <2>0 DEF ControlTypeOK, Inv1Holder, RowOrder, Inside, Places
  <2> QED
    BY <2>1, <2>2, <2>3, <2>4, <2>5, <2>6, <2>7, <2>8
<1>3. ASSUME NEW s \in Sessions, TakeLock(s) PROVE ControlInv'
  <2>1. ControlTypeOK'
    BY <1>3, NewRecords, DraftRecords, JobRecords DEF TakeLock, ControlTypeOK, Places, Inv6Goal, Levels
  <2>2. Inv1Holder'
    BY <1>3 DEF TakeLock, ControlTypeOK, Inv1Holder, Inside, Places
  <2>3. Inv2Work'
    BY <1>3 DEF TakeLock, ControlTypeOK, Inv1Holder, Inv2Work, Inv3Guard, Inv4Level, Inv5Canary, Inside, Places, Modes, NoWork, NoJob, Ops
  <2>4. Inv3Guard'
    BY <1>3 DEF TakeLock, ControlTypeOK, Inv1Holder, Inv2Work, Inv3Guard, Inv4Level, Inv5Canary, Inside, Places, Modes, NoWork, NoJob, Ops
  <2>5. Inv4Level'
    BY <1>3 DEF TakeLock, ControlTypeOK, Inv1Holder, Inv2Work, Inv3Guard, Inv4Level, Inv5Canary, Inside, Places, Modes, NoWork, NoJob, Ops
  <2>6. Inv5Canary'
    BY <1>3 DEF TakeLock, ControlTypeOK, Inv1Holder, Inv2Work, Inv3Guard, Inv4Level, Inv5Canary, Inside, Places, Modes, NoWork, NoJob, Ops
  <2>7. Inv6Goal'
    BY <1>3 DEF TakeLock, Inv6Goal, ControlTypeOK, NoJob, Ops
  <2>8. RowOrder'
    BY <1>3 DEF TakeLock, ControlTypeOK, Inv1Holder, RowOrder, Inside, Places
  <2> QED
    BY <2>1, <2>2, <2>3, <2>4, <2>5, <2>6, <2>7, <2>8
<1>4. ASSUME NEW s \in Sessions, Unlock(s) PROVE ControlInv'
  <2>1. ControlTypeOK'
    BY <1>4, NewRecords, DraftRecords, JobRecords DEF Unlock, ControlTypeOK, Places, Inv6Goal, Levels
  <2>2. Inv1Holder'
    BY <1>4 DEF Unlock, ControlTypeOK, Inv1Holder, Inside, Places
  <2>3. Inv2Work'
    BY <1>4 DEF Unlock, ControlTypeOK, Inv1Holder, Inv2Work, Inv3Guard, Inv4Level, Inv5Canary, Inside, Places, Modes, NoWork, NoJob, Ops
  <2>4. Inv3Guard'
    BY <1>4 DEF Unlock, ControlTypeOK, Inv1Holder, Inv2Work, Inv3Guard, Inv4Level, Inv5Canary, Inside, Places, Modes, NoWork, NoJob, Ops
  <2>5. Inv4Level'
    BY <1>4 DEF Unlock, ControlTypeOK, Inv1Holder, Inv2Work, Inv3Guard, Inv4Level, Inv5Canary, Inside, Places, Modes, NoWork, NoJob, Ops
  <2>6. Inv5Canary'
    BY <1>4 DEF Unlock, ControlTypeOK, Inv1Holder, Inv2Work, Inv3Guard, Inv4Level, Inv5Canary, Inside, Places, Modes, NoWork, NoJob, Ops
  <2>7. Inv6Goal'
    BY <1>4 DEF Unlock, Inv6Goal, ControlTypeOK, NoJob, Ops
  <2>8. RowOrder'
    BY <1>4 DEF Unlock, ControlTypeOK, Inv1Holder, RowOrder, Inside, Places
  <2> QED
    BY <2>1, <2>2, <2>3, <2>4, <2>5, <2>6, <2>7, <2>8
<1>5. ASSUME NEW s \in Sessions, CommitRequest(s) PROVE ControlInv'
  <2>1. ControlTypeOK'
    BY <1>5, NewRecords, DraftRecords, JobRecords DEF CommitRequest, Publish, Release, Done, ControlTypeOK, Places, Inv6Goal, Levels
  <2>2. Inv1Holder'
    BY <1>5 DEF CommitRequest, Publish, Release, Done, ControlTypeOK, Inv1Holder, Inside, Places
  <2>3. Inv2Work'
    BY <1>5 DEF CommitRequest, Publish, Release, Done, ControlTypeOK, Inv1Holder, Inv2Work, Inv3Guard, Inv4Level, Inv5Canary, Inside, Places, Modes, NoWork, NoJob, Ops
  <2>4. Inv3Guard'
    BY <1>5 DEF CommitRequest, Publish, Release, Done, ControlTypeOK, Inv1Holder, Inv2Work, Inv3Guard, Inv4Level, Inv5Canary, Inside, Places, Modes, NoWork, NoJob, Ops
  <2>5. Inv4Level'
    BY <1>5 DEF CommitRequest, Publish, Release, Done, ControlTypeOK, Inv1Holder, Inv2Work, Inv3Guard, Inv4Level, Inv5Canary, Inside, Places, Modes, NoWork, NoJob, Ops
  <2>6. Inv5Canary'
    BY <1>5 DEF CommitRequest, Publish, Release, Done, ControlTypeOK, Inv1Holder, Inv2Work, Inv3Guard, Inv4Level, Inv5Canary, Inside, Places, Modes, NoWork, NoJob, Ops
  <2>7. Inv6Goal'
    BY <1>5 DEF CommitRequest, Publish, Release, Done, Inv6Goal, ControlTypeOK, NoJob, Ops
  <2>8. RowOrder'
    BY <1>5 DEF CommitRequest, Publish, Release, Done, ControlTypeOK, Inv1Holder, RowOrder, Inside, Places
  <2> QED
    BY <2>1, <2>2, <2>3, <2>4, <2>5, <2>6, <2>7, <2>8
<1>6. ASSUME NEW s \in Sessions, OwnerSwitch(s) PROVE ControlInv'
  <2>1. ControlTypeOK'
    BY <1>6, NewRecords, DraftRecords, JobRecords DEF OwnerSwitch, At, SetLevel, Publish, Release, Leaving, ControlTypeOK, Places, Inv6Goal, Levels
  <2>2. Inv1Holder'
    BY <1>6 DEF OwnerSwitch, At, SetLevel, Publish, Release, Leaving, ControlTypeOK, Inv1Holder, Inside, Places
  <2>3. Inv2Work'
    BY <1>6 DEF OwnerSwitch, At, SetLevel, Publish, Release, Leaving, ControlTypeOK, Inv1Holder, Inv2Work, Inv3Guard, Inv4Level, Inv5Canary, Inside, Places, Modes, NoWork, NoJob, Ops
  <2>4. Inv3Guard'
    BY <1>6 DEF OwnerSwitch, At, SetLevel, Publish, Release, Leaving, ControlTypeOK, Inv1Holder, Inv2Work, Inv3Guard, Inv4Level, Inv5Canary, Inside, Places, Modes, NoWork, NoJob, Ops
  <2>5. Inv4Level'
    BY <1>6 DEF OwnerSwitch, At, SetLevel, Publish, Release, Leaving, ControlTypeOK, Inv1Holder, Inv2Work, Inv3Guard, Inv4Level, Inv5Canary, Inside, Places, Modes, NoWork, NoJob, Ops
  <2>6. Inv5Canary'
    BY <1>6 DEF OwnerSwitch, At, SetLevel, Publish, Release, Leaving, ControlTypeOK, Inv1Holder, Inv2Work, Inv3Guard, Inv4Level, Inv5Canary, Inside, Places, Modes, NoWork, NoJob, Ops
  <2>7. Inv6Goal'
    BY <1>6 DEF OwnerSwitch, At, SetLevel, Publish, Release, Leaving, Inv6Goal, ControlTypeOK, NoJob, Ops
  <2>8. RowOrder'
    BY <1>6 DEF OwnerSwitch, At, SetLevel, Publish, Release, Leaving, ControlTypeOK, Inv1Holder, RowOrder, Inside, Places
  <2> QED
    BY <2>1, <2>2, <2>3, <2>4, <2>5, <2>6, <2>7, <2>8
<1>7. ASSUME NEW s \in Sessions, ReadLevel(s) PROVE ControlInv'
  <2>1. ControlTypeOK'
    BY <1>7, NewRecords, DraftRecords, JobRecords DEF ReadLevel, At, ControlTypeOK, Places, Inv6Goal, Levels
  <2>2. Inv1Holder'
    BY <1>7 DEF ReadLevel, At, ControlTypeOK, Inv1Holder, Inside, Places
  <2>3. Inv2Work'
    BY <1>7 DEF ReadLevel, At, ControlTypeOK, Inv1Holder, Inv2Work, Inv3Guard, Inv4Level, Inv5Canary, Inside, Places, Modes, NoWork, NoJob, Ops
  <2>4. Inv3Guard'
    BY <1>7 DEF ReadLevel, At, ControlTypeOK, Inv1Holder, Inv2Work, Inv3Guard, Inv4Level, Inv5Canary, Inside, Places, Modes, NoWork, NoJob, Ops
  <2>5. Inv4Level'
    BY <1>7 DEF ReadLevel, At, ControlTypeOK, Inv1Holder, Inv2Work, Inv3Guard, Inv4Level, Inv5Canary, Inside, Places, Modes, NoWork, NoJob, Ops
  <2>6. Inv5Canary'
    BY <1>7 DEF ReadLevel, At, ControlTypeOK, Inv1Holder, Inv2Work, Inv3Guard, Inv4Level, Inv5Canary, Inside, Places, Modes, NoWork, NoJob, Ops
  <2>7. Inv6Goal'
    BY <1>7 DEF ReadLevel, At, Inv6Goal, ControlTypeOK, NoJob, Ops
  <2>8. RowOrder'
    BY <1>7 DEF ReadLevel, At, ControlTypeOK, Inv1Holder, RowOrder, Inside, Places
  <2> QED
    BY <2>1, <2>2, <2>3, <2>4, <2>5, <2>6, <2>7, <2>8
<1>8. ASSUME NEW s \in Sessions, NothingWrong(s) PROVE ControlInv'
  <2>1. ControlTypeOK'
    BY <1>8, NewRecords, DraftRecords, JobRecords DEF NothingWrong, At, Leaving, ControlTypeOK, Places, Inv6Goal, Levels
  <2>2. Inv1Holder'
    BY <1>8 DEF NothingWrong, At, Leaving, ControlTypeOK, Inv1Holder, Inside, Places
  <2>3. Inv2Work'
    BY <1>8 DEF NothingWrong, At, Leaving, ControlTypeOK, Inv1Holder, Inv2Work, Inv3Guard, Inv4Level, Inv5Canary, Inside, Places, Modes, NoWork, NoJob, Ops
  <2>4. Inv3Guard'
    BY <1>8 DEF NothingWrong, At, Leaving, ControlTypeOK, Inv1Holder, Inv2Work, Inv3Guard, Inv4Level, Inv5Canary, Inside, Places, Modes, NoWork, NoJob, Ops
  <2>5. Inv4Level'
    BY <1>8 DEF NothingWrong, At, Leaving, ControlTypeOK, Inv1Holder, Inv2Work, Inv3Guard, Inv4Level, Inv5Canary, Inside, Places, Modes, NoWork, NoJob, Ops
  <2>6. Inv5Canary'
    BY <1>8 DEF NothingWrong, At, Leaving, ControlTypeOK, Inv1Holder, Inv2Work, Inv3Guard, Inv4Level, Inv5Canary, Inside, Places, Modes, NoWork, NoJob, Ops
  <2>7. Inv6Goal'
    BY <1>8 DEF NothingWrong, At, Leaving, Inv6Goal, ControlTypeOK, NoJob, Ops
  <2>8. RowOrder'
    BY <1>8 DEF NothingWrong, At, Leaving, ControlTypeOK, Inv1Holder, RowOrder, Inside, Places
  <2> QED
    BY <2>1, <2>2, <2>3, <2>4, <2>5, <2>6, <2>7, <2>8
<1>9. ASSUME NEW s \in Sessions, AutomaticHalt(s) PROVE ControlInv'
  <2>1. ControlTypeOK'
    <3>0. AfterHalt(s) \in Places
      BY DEF AfterHalt, Places
    <3>1. CASE KillRank(job[s].level) >= KillRank("HALT_NEW_ENTRIES")
      BY <1>9, <3>0, <3>1 DEF AutomaticHalt, ControlTypeOK
    <3>2. CASE ~(KillRank(job[s].level) >= KillRank("HALT_NEW_ENTRIES"))
      <4>1. kill' \in Levels /\ lock' = lock /\ job' = job /\ pc' = [pc EXCEPT ![s] = AfterHalt(s)]
        BY <1>9, <3>2 DEF AutomaticHalt, SetLevel, Levels
      <4>2. mode' \in Modes /\ cred' \in Creds /\ verdict' \in {None, "APPLIED", "BLOCKED"}
        BY <1>9, <3>2, DraftRecords DEF AutomaticHalt, SetLevel, Publish, ControlTypeOK
      <4>3. row' \in [Rows -> Sessions \cup {NoOne}] /\ work' \in [Sessions -> Drafts]
        BY <1>9, <3>2, NewRecords DEF AutomaticHalt, SetLevel, Release, ControlTypeOK
      <4> QED
        BY <3>0, <4>1, <4>2, <4>3 DEF ControlTypeOK
    <3> QED
      BY <3>1, <3>2
  <2>2. Inv1Holder'
    BY <1>9, Ranks DEF AutomaticHalt, At, AfterHalt, SetLevel, Publish, Release, ControlTypeOK, Inv1Holder, Inside, Places
  <2>3. Inv2Work'
    BY <1>9, Ranks DEF AutomaticHalt, At, AfterHalt, SetLevel, Publish, Release, ControlTypeOK, Inv1Holder, Inv2Work, Inv3Guard, Inv4Level, Inv5Canary, Inside, Places, Modes, NoWork, NoJob, Ops
  <2>4. Inv3Guard'
    BY <1>9, Ranks DEF AutomaticHalt, At, AfterHalt, SetLevel, Publish, Release, ControlTypeOK, Inv1Holder, Inv2Work, Inv3Guard, Inv4Level, Inv5Canary, Inside, Places, Modes, NoWork, NoJob, Ops
  <2>5. Inv4Level'
    BY <1>9, Ranks DEF AutomaticHalt, At, AfterHalt, SetLevel, Publish, Release, ControlTypeOK, Inv1Holder, Inv2Work, Inv3Guard, Inv4Level, Inv5Canary, Inside, Places, Modes, NoWork, NoJob, Ops
  <2>6. Inv5Canary'
    BY <1>9, Ranks DEF AutomaticHalt, At, AfterHalt, SetLevel, Publish, Release, ControlTypeOK, Inv1Holder, Inv2Work, Inv3Guard, Inv4Level, Inv5Canary, Inside, Places, Modes, NoWork, NoJob, Ops
  <2>7. Inv6Goal'
    BY <1>9, Ranks DEF AutomaticHalt, At, AfterHalt, SetLevel, Publish, Release, Inv6Goal, ControlTypeOK, NoJob, Ops
  <2>8. RowOrder'
    BY <1>9, Ranks DEF AutomaticHalt, At, AfterHalt, SetLevel, Publish, Release, ControlTypeOK, Inv1Holder, RowOrder, Inside, Places
  <2> QED
    BY <2>1, <2>2, <2>3, <2>4, <2>5, <2>6, <2>7, <2>8
<1>10. ASSUME NEW s \in Sessions, ChangeMode(s) PROVE ControlInv'
  <2>0. /\ pc[s] = "held"
        /\ UNCHANGED <<lock, kill, mode, cred, verdict>>
        /\ row["mode"] \in {NoOne, s}
        /\ row' = [row EXCEPT !["mode"] = s]
        /\ pc' = [pc EXCEPT ![s] = "unlock"]
        /\ job' = [job EXCEPT ![s] = NoJob]
        /\ \/ work' = work
           \/ job[s].goal \in Modes \ {"CANARY"} /\ work' = [work EXCEPT ![s] = [work[s] EXCEPT !.mode = job[s].goal]]
    BY <1>10 DEF ChangeMode, At, LockRow, Free, Stage, Leaving, ControlTypeOK, Inv5Canary, Inv6Goal
  <2>1. ControlTypeOK'
    <3>1. CASE /\ work' = work
      BY <2>0, <3>1, NewRecords, DraftRecords, JobRecords DEF ControlTypeOK, Places, Inv6Goal, Levels
    <3>2. CASE /\ job[s].goal \in Modes \ {"CANARY"}
               /\ work' = [work EXCEPT ![s] = [work[s] EXCEPT !.mode = job[s].goal]]
      BY <2>0, <3>2, NewRecords, DraftRecords, JobRecords DEF ControlTypeOK, Places, Inv6Goal, Levels
    <3> QED
      BY <2>0, <3>1, <3>2
  <2>2. Inv1Holder'
    BY <2>0 DEF ControlTypeOK, Inv1Holder, Inside, Places
  <2>3. Inv2Work'
    <3>1. CASE /\ work' = work
      BY <2>0, <3>1 DEF ControlTypeOK, Inv1Holder, Inv2Work, Inv3Guard, Inv4Level, Inv5Canary, Inside, Places, Modes, NoWork, NoJob, Ops
    <3>2. CASE /\ job[s].goal \in Modes \ {"CANARY"}
               /\ work' = [work EXCEPT ![s] = [work[s] EXCEPT !.mode = job[s].goal]]
      BY <2>0, <3>2 DEF ControlTypeOK, Inv1Holder, Inv2Work, Inv3Guard, Inv4Level, Inv5Canary, Inside, Places, Modes, NoWork, NoJob, Ops
    <3> QED
      BY <2>0, <3>1, <3>2
  <2>4. Inv3Guard'
    BY <2>0 DEF ControlTypeOK, Inv1Holder, Inv2Work, Inv3Guard, Inv4Level, Inv5Canary, Inside, Places, Modes, NoWork, NoJob, Ops
  <2>5. Inv4Level'
    BY <2>0 DEF ControlTypeOK, Inv1Holder, Inv2Work, Inv3Guard, Inv4Level, Inv5Canary, Inside, Places, Modes, NoWork, NoJob, Ops
  <2>6. Inv5Canary'
    <3>1. CASE /\ work' = work
      BY <2>0, <3>1 DEF ControlTypeOK, Inv1Holder, Inv2Work, Inv3Guard, Inv4Level, Inv5Canary, Inside, Places, Modes, NoWork, NoJob, Ops
    <3>2. CASE /\ job[s].goal \in Modes \ {"CANARY"}
               /\ work' = [work EXCEPT ![s] = [work[s] EXCEPT !.mode = job[s].goal]]
      BY <2>0, <3>2 DEF ControlTypeOK, Inv1Holder, Inv2Work, Inv3Guard, Inv4Level, Inv5Canary, Inside, Places, Modes, NoWork, NoJob, Ops
    <3> QED
      BY <2>0, <3>1, <3>2
  <2>7. Inv6Goal'
    BY <2>0 DEF Inv6Goal, ControlTypeOK, NoJob, Ops
  <2>8. RowOrder'
    BY <2>0 DEF ControlTypeOK, Inv1Holder, RowOrder, Inside, Places
  <2> QED
    BY <2>1, <2>2, <2>3, <2>4, <2>5, <2>6, <2>7, <2>8
<1>11. ASSUME NEW s \in Sessions, HaltedChange(s) PROVE ControlInv'
  <2>1. ControlTypeOK'
    BY <1>11, Ranks, NewRecords, DraftRecords, JobRecords DEF HaltedChange, At, Free, Leaving, ControlTypeOK, Places, Inv6Goal, Levels
  <2>2. Inv1Holder'
    BY <1>11, Ranks DEF HaltedChange, At, Free, Leaving, ControlTypeOK, Inv1Holder, Inside, Places
  <2>3. Inv2Work'
    BY <1>11, Ranks DEF HaltedChange, At, Free, Leaving, ControlTypeOK, Inv1Holder, Inv2Work, Inv3Guard, Inv4Level, Inv5Canary, Inside, Places, Modes, NoWork, NoJob, Ops
  <2>4. Inv3Guard'
    BY <1>11, Ranks DEF HaltedChange, At, Free, Leaving, ControlTypeOK, Inv1Holder, Inv2Work, Inv3Guard, Inv4Level, Inv5Canary, Inside, Places, Modes, NoWork, NoJob, Ops
  <2>5. Inv4Level'
    BY <1>11, Ranks DEF HaltedChange, At, Free, Leaving, ControlTypeOK, Inv1Holder, Inv2Work, Inv3Guard, Inv4Level, Inv5Canary, Inside, Places, Modes, NoWork, NoJob, Ops
  <2>6. Inv5Canary'
    BY <1>11, Ranks DEF HaltedChange, At, Free, Leaving, ControlTypeOK, Inv1Holder, Inv2Work, Inv3Guard, Inv4Level, Inv5Canary, Inside, Places, Modes, NoWork, NoJob, Ops
  <2>7. Inv6Goal'
    BY <1>11, Ranks DEF HaltedChange, At, Free, Leaving, Inv6Goal, ControlTypeOK, NoJob, Ops
  <2>8. RowOrder'
    BY <1>11, Ranks DEF HaltedChange, At, Free, Leaving, ControlTypeOK, Inv1Holder, RowOrder, Inside, Places
  <2> QED
    BY <2>1, <2>2, <2>3, <2>4, <2>5, <2>6, <2>7, <2>8
<1>12. ASSUME NEW s \in Sessions, Prior(s) PROVE ControlInv'
  <2>1. ControlTypeOK'
    BY <1>12, NewRecords, DraftRecords, JobRecords DEF Prior, At, ControlTypeOK, Places, Inv6Goal, Levels
  <2>2. Inv1Holder'
    BY <1>12 DEF Prior, At, ControlTypeOK, Inv1Holder, Inside, Places
  <2>3. Inv2Work'
    BY <1>12 DEF Prior, At, ControlTypeOK, Inv1Holder, Inv2Work, Inv3Guard, Inv4Level, Inv5Canary, Inside, Places, Modes, NoWork, NoJob, Ops
  <2>4. Inv3Guard'
    BY <1>12 DEF Prior, At, ControlTypeOK, Inv1Holder, Inv2Work, Inv3Guard, Inv4Level, Inv5Canary, Inside, Places, Modes, NoWork, NoJob, Ops
  <2>5. Inv4Level'
    BY <1>12 DEF Prior, At, ControlTypeOK, Inv1Holder, Inv2Work, Inv3Guard, Inv4Level, Inv5Canary, Inside, Places, Modes, NoWork, NoJob, Ops
  <2>6. Inv5Canary'
    BY <1>12 DEF Prior, At, ControlTypeOK, Inv1Holder, Inv2Work, Inv3Guard, Inv4Level, Inv5Canary, Inside, Places, Modes, NoWork, NoJob, Ops
  <2>7. Inv6Goal'
    BY <1>12 DEF Prior, At, Inv6Goal, ControlTypeOK, NoJob, Ops
  <2>8. RowOrder'
    BY <1>12 DEF Prior, At, ControlTypeOK, Inv1Holder, RowOrder, Inside, Places
  <2> QED
    BY <2>1, <2>2, <2>3, <2>4, <2>5, <2>6, <2>7, <2>8
<1>13. ASSUME NEW s \in Sessions, Verify(s) PROVE ControlInv'
  <2>1. ControlTypeOK'
    BY <1>13, NewRecords, DraftRecords, JobRecords DEF Verify, At, LockRow, Free, ControlTypeOK, Places, Inv6Goal, Levels
  <2>2. Inv1Holder'
    BY <1>13 DEF Verify, At, LockRow, Free, ControlTypeOK, Inv1Holder, Inside, Places
  <2>3. Inv2Work'
    BY <1>13 DEF Verify, At, LockRow, Free, ControlTypeOK, Inv1Holder, Inv2Work, Inv3Guard, Inv4Level, Inv5Canary, Inside, Places, Modes, NoWork, NoJob, Ops
  <2>4. Inv3Guard'
    BY <1>13 DEF Verify, At, LockRow, Free, ControlTypeOK, Inv1Holder, Inv2Work, Inv3Guard, Inv4Level, Inv5Canary, Inside, Places, Modes, NoWork, NoJob, Ops
  <2>5. Inv4Level'
    BY <1>13 DEF Verify, At, LockRow, Free, ControlTypeOK, Inv1Holder, Inv2Work, Inv3Guard, Inv4Level, Inv5Canary, Inside, Places, Modes, NoWork, NoJob, Ops
  <2>6. Inv5Canary'
    BY <1>13 DEF Verify, At, LockRow, Free, ControlTypeOK, Inv1Holder, Inv2Work, Inv3Guard, Inv4Level, Inv5Canary, Inside, Places, Modes, NoWork, NoJob, Ops
  <2>7. Inv6Goal'
    BY <1>13 DEF Verify, At, LockRow, Free, Inv6Goal, ControlTypeOK, NoJob, Ops
  <2>8. RowOrder'
    BY <1>13 DEF Verify, At, LockRow, Free, ControlTypeOK, Inv1Holder, RowOrder, Inside, Places
  <2> QED
    BY <2>1, <2>2, <2>3, <2>4, <2>5, <2>6, <2>7, <2>8
<1>14. ASSUME NEW s \in Sessions, Gates(s) PROVE ControlInv'
  <2>0. /\ pc[s] = "gates"
        /\ UNCHANGED <<lock, kill, mode, cred, verdict, row, job>>
        /\ \/ pc' = [pc EXCEPT ![s] = "apply"] /\ work' = work
           \/ pc' = [pc EXCEPT ![s] = "unlock"] /\ work' = [work EXCEPT ![s] = [work[s] EXCEPT !.verdict = "BLOCKED"]]
    BY <1>14 DEF Gates, Stage
  <2>1. ControlTypeOK'
    <3>1. CASE /\ pc' = [pc EXCEPT ![s] = "apply"]
               /\ work' = work
      BY <2>0, <3>1, NewRecords, DraftRecords, JobRecords DEF ControlTypeOK, Places, Inv6Goal, Levels
    <3>2. CASE /\ pc' = [pc EXCEPT ![s] = "unlock"]
               /\ work' = [work EXCEPT ![s] = [work[s] EXCEPT !.verdict = "BLOCKED"]]
      BY <2>0, <3>2, NewRecords, DraftRecords, JobRecords DEF ControlTypeOK, Places, Inv6Goal, Levels
    <3> QED
      BY <2>0, <3>1, <3>2
  <2>2. Inv1Holder'
    BY <2>0 DEF ControlTypeOK, Inv1Holder, Inside, Places
  <2>3. Inv2Work'
    <3>1. CASE /\ pc' = [pc EXCEPT ![s] = "apply"]
               /\ work' = work
      BY <2>0, <3>1 DEF ControlTypeOK, Inv1Holder, Inv2Work, Inv3Guard, Inv4Level, Inv5Canary, Inside, Places, Modes, NoWork, NoJob, Ops
    <3>2. CASE /\ pc' = [pc EXCEPT ![s] = "unlock"]
               /\ work' = [work EXCEPT ![s] = [work[s] EXCEPT !.verdict = "BLOCKED"]]
      BY <2>0, <3>2 DEF ControlTypeOK, Inv1Holder, Inv2Work, Inv3Guard, Inv4Level, Inv5Canary, Inside, Places, Modes, NoWork, NoJob, Ops
    <3> QED
      BY <2>0, <3>1, <3>2
  <2>4. Inv3Guard'
    BY <2>0 DEF ControlTypeOK, Inv1Holder, Inv2Work, Inv3Guard, Inv4Level, Inv5Canary, Inside, Places, Modes, NoWork, NoJob, Ops
  <2>5. Inv4Level'
    BY <2>0 DEF ControlTypeOK, Inv1Holder, Inv2Work, Inv3Guard, Inv4Level, Inv5Canary, Inside, Places, Modes, NoWork, NoJob, Ops
  <2>6. Inv5Canary'
    <3>1. CASE /\ pc' = [pc EXCEPT ![s] = "apply"]
               /\ work' = work
      BY <2>0, <3>1 DEF ControlTypeOK, Inv1Holder, Inv2Work, Inv3Guard, Inv4Level, Inv5Canary, Inside, Places, Modes, NoWork, NoJob, Ops
    <3>2. CASE /\ pc' = [pc EXCEPT ![s] = "unlock"]
               /\ work' = [work EXCEPT ![s] = [work[s] EXCEPT !.verdict = "BLOCKED"]]
      BY <2>0, <3>2 DEF ControlTypeOK, Inv1Holder, Inv2Work, Inv3Guard, Inv4Level, Inv5Canary, Inside, Places, Modes, NoWork, NoJob, Ops
    <3> QED
      BY <2>0, <3>1, <3>2
  <2>7. Inv6Goal'
    BY <2>0 DEF Inv6Goal, ControlTypeOK, NoJob, Ops
  <2>8. RowOrder'
    BY <2>0 DEF ControlTypeOK, Inv1Holder, RowOrder, Inside, Places
  <2> QED
    BY <2>1, <2>2, <2>3, <2>4, <2>5, <2>6, <2>7, <2>8
<1>15. ASSUME NEW s \in Sessions, Apply(s) PROVE ControlInv'
  <2>1. ControlTypeOK'
    BY <1>15, NewRecords, DraftRecords, JobRecords DEF Apply, LockRow, Free, Stage, ControlTypeOK, Places, Inv6Goal, Levels
  <2>2. Inv1Holder'
    BY <1>15 DEF Apply, LockRow, Free, Stage, ControlTypeOK, Inv1Holder, Inside, Places
  <2>3. Inv2Work'
    BY <1>15 DEF Apply, LockRow, Free, Stage, ControlTypeOK, Inv1Holder, Inv2Work, Inv3Guard, Inv4Level, Inv5Canary, Inside, Places, Modes, NoWork, NoJob, Ops
  <2>4. Inv3Guard'
    BY <1>15 DEF Apply, LockRow, Free, Stage, ControlTypeOK, Inv1Holder, Inv2Work, Inv3Guard, Inv4Level, Inv5Canary, Inside, Places, Modes, NoWork, NoJob, Ops
  <2>5. Inv4Level'
    BY <1>15 DEF Apply, LockRow, Free, Stage, ControlTypeOK, Inv1Holder, Inv2Work, Inv3Guard, Inv4Level, Inv5Canary, Inside, Places, Modes, NoWork, NoJob, Ops
  <2>6. Inv5Canary'
    BY <1>15 DEF Apply, LockRow, Free, Stage, ControlTypeOK, Inv1Holder, Inv2Work, Inv3Guard, Inv4Level, Inv5Canary, Inside, Places, Modes, NoWork, NoJob, Ops
  <2>7. Inv6Goal'
    BY <1>15 DEF Apply, LockRow, Free, Stage, Inv6Goal, ControlTypeOK, NoJob, Ops
  <2>8. RowOrder'
    BY <1>15 DEF Apply, LockRow, Free, Stage, ControlTypeOK, Inv1Holder, RowOrder, Inside, Places
  <2> QED
    BY <2>1, <2>2, <2>3, <2>4, <2>5, <2>6, <2>7, <2>8
<1>16. ASSUME NEW s \in Sessions, SaveSecret(s) PROVE ControlInv'
  <2>1. ControlTypeOK'
    BY <1>16, NewRecords, DraftRecords, JobRecords DEF SaveSecret, At, LockRow, Free, Stage, Leaving, ControlTypeOK, Places, Inv6Goal, Levels
  <2>2. Inv1Holder'
    BY <1>16 DEF SaveSecret, At, LockRow, Free, Stage, Leaving, ControlTypeOK, Inv1Holder, Inside, Places
  <2>3. Inv2Work'
    BY <1>16 DEF SaveSecret, At, LockRow, Free, Stage, Leaving, ControlTypeOK, Inv1Holder, Inv2Work, Inv3Guard, Inv4Level, Inv5Canary, Inside, Places, Modes, NoWork, NoJob, Ops
  <2>4. Inv3Guard'
    BY <1>16 DEF SaveSecret, At, LockRow, Free, Stage, Leaving, ControlTypeOK, Inv1Holder, Inv2Work, Inv3Guard, Inv4Level, Inv5Canary, Inside, Places, Modes, NoWork, NoJob, Ops
  <2>5. Inv4Level'
    BY <1>16 DEF SaveSecret, At, LockRow, Free, Stage, Leaving, ControlTypeOK, Inv1Holder, Inv2Work, Inv3Guard, Inv4Level, Inv5Canary, Inside, Places, Modes, NoWork, NoJob, Ops
  <2>6. Inv5Canary'
    BY <1>16 DEF SaveSecret, At, LockRow, Free, Stage, Leaving, ControlTypeOK, Inv1Holder, Inv2Work, Inv3Guard, Inv4Level, Inv5Canary, Inside, Places, Modes, NoWork, NoJob, Ops
  <2>7. Inv6Goal'
    BY <1>16 DEF SaveSecret, At, LockRow, Free, Stage, Leaving, Inv6Goal, ControlTypeOK, NoJob, Ops
  <2>8. RowOrder'
    BY <1>16 DEF SaveSecret, At, LockRow, Free, Stage, Leaving, ControlTypeOK, Inv1Holder, RowOrder, Inside, Places
  <2> QED
    BY <2>1, <2>2, <2>3, <2>4, <2>5, <2>6, <2>7, <2>8
<1>17. ASSUME NEW s \in Sessions, Submit(s) PROVE ControlInv'
  <2>1. ControlTypeOK'
    BY <1>17, NewRecords, DraftRecords, JobRecords DEF Submit, At, ControlTypeOK, Places, Inv6Goal, Levels
  <2>2. Inv1Holder'
    BY <1>17 DEF Submit, At, ControlTypeOK, Inv1Holder, Inside, Places
  <2>3. Inv2Work'
    BY <1>17 DEF Submit, At, ControlTypeOK, Inv1Holder, Inv2Work, Inv3Guard, Inv4Level, Inv5Canary, Inside, Places, Modes, NoWork, NoJob, Ops
  <2>4. Inv3Guard'
    BY <1>17 DEF Submit, At, ControlTypeOK, Inv1Holder, Inv2Work, Inv3Guard, Inv4Level, Inv5Canary, Inside, Places, Modes, NoWork, NoJob, Ops
  <2>5. Inv4Level'
    BY <1>17 DEF Submit, At, ControlTypeOK, Inv1Holder, Inv2Work, Inv3Guard, Inv4Level, Inv5Canary, Inside, Places, Modes, NoWork, NoJob, Ops
  <2>6. Inv5Canary'
    BY <1>17 DEF Submit, At, ControlTypeOK, Inv1Holder, Inv2Work, Inv3Guard, Inv4Level, Inv5Canary, Inside, Places, Modes, NoWork, NoJob, Ops
  <2>7. Inv6Goal'
    BY <1>17 DEF Submit, At, Inv6Goal, ControlTypeOK, NoJob, Ops
  <2>8. RowOrder'
    BY <1>17 DEF Submit, At, ControlTypeOK, Inv1Holder, RowOrder, Inside, Places
  <2> QED
    BY <2>1, <2>2, <2>3, <2>4, <2>5, <2>6, <2>7, <2>8
<1>18. ASSUME NEW s \in Sessions, GuardMode(s) PROVE ControlInv'
  <2>0. /\ pc[s] = "held"
        /\ job[s].op = "guard"
        /\ UNCHANGED <<lock, kill, mode, cred, verdict, work, job>>
        /\ \/ (pc' = [pc EXCEPT ![s] = "blocked"] \/ pc' = [pc EXCEPT ![s] = "trip"]) /\ row' = row
           \/ row["mode"] \in {NoOne, s} /\ row' = [row EXCEPT !["mode"] = s] /\ pc' = [pc EXCEPT ![s] = "blocked"]
           \/ row["mode"] \in {NoOne, s} /\ row' = [row EXCEPT !["mode"] = s] /\ pc' = [pc EXCEPT ![s] = "slot"] /\ mode = "CANARY" /\ kill = "CLEAR"
    BY <1>18 DEF GuardMode, At, LockRow, Free
  <2>1. ControlTypeOK'
    <3>1. CASE /\ (pc' = [pc EXCEPT ![s] = "blocked"] \/ pc' = [pc EXCEPT ![s] = "trip"])
               /\ row' = row
      BY <2>0, <3>1, NewRecords, DraftRecords, JobRecords DEF ControlTypeOK, Places, Inv6Goal, Levels
    <3>2. CASE /\ row["mode"] \in {NoOne, s}
               /\ row' = [row EXCEPT !["mode"] = s]
               /\ pc' = [pc EXCEPT ![s] = "blocked"]
      BY <2>0, <3>2, NewRecords, DraftRecords, JobRecords DEF ControlTypeOK, Places, Inv6Goal, Levels
    <3>3. CASE /\ row["mode"] \in {NoOne, s}
               /\ row' = [row EXCEPT !["mode"] = s]
               /\ pc' = [pc EXCEPT ![s] = "slot"]
               /\ mode = "CANARY"
               /\ kill = "CLEAR"
      BY <2>0, <3>3, NewRecords, DraftRecords, JobRecords DEF ControlTypeOK, Places, Inv6Goal, Levels
    <3> QED
      BY <2>0, <3>1, <3>2, <3>3
  <2>2. Inv1Holder'
    BY <2>0 DEF ControlTypeOK, Inv1Holder, Inside, Places
  <2>3. Inv2Work'
    BY <2>0 DEF ControlTypeOK, Inv1Holder, Inv2Work, Inv3Guard, Inv4Level, Inv5Canary, Inside, Places, Modes, NoWork, NoJob, Ops
  <2>4. Inv3Guard'
    BY <2>0 DEF ControlTypeOK, Inv1Holder, Inv2Work, Inv3Guard, Inv4Level, Inv5Canary, Inside, Places, Modes, NoWork, NoJob, Ops
  <2>5. Inv4Level'
    BY <2>0 DEF ControlTypeOK, Inv1Holder, Inv2Work, Inv3Guard, Inv4Level, Inv5Canary, Inside, Places, Modes, NoWork, NoJob, Ops
  <2>6. Inv5Canary'
    BY <2>0 DEF ControlTypeOK, Inv1Holder, Inv2Work, Inv3Guard, Inv4Level, Inv5Canary, Inside, Places, Modes, NoWork, NoJob, Ops
  <2>7. Inv6Goal'
    BY <2>0 DEF Inv6Goal, ControlTypeOK, NoJob, Ops
  <2>8. RowOrder'
    BY <2>0 DEF ControlTypeOK, Inv1Holder, RowOrder, Inside, Places
  <2> QED
    BY <2>1, <2>2, <2>3, <2>4, <2>5, <2>6, <2>7, <2>8
<1>19. ASSUME NEW s \in Sessions, GuardSlot(s) PROVE ControlInv'
  <2>0. /\ pc[s] = "slot"
        /\ UNCHANGED <<lock, kill, mode, cred, verdict, work, job>>
        /\ \/ (pc' = [pc EXCEPT ![s] = "blocked"] \/ pc' = [pc EXCEPT ![s] = "trip"]) /\ row' = row
           \/ row["slot"] \in {NoOne, s} /\ row' = [row EXCEPT !["slot"] = s] /\ (pc' = [pc EXCEPT ![s] = "blocked"] \/ pc' = [pc EXCEPT ![s] = "trip"])
           \/ row["slot"] \in {NoOne, s} /\ row' = [row EXCEPT !["slot"] = s] /\ pc' = [pc EXCEPT ![s] = "window"] /\ cred = "policy"
    BY <1>19 DEF GuardSlot, LockRow, Free, ControlTypeOK
  <2>1. ControlTypeOK'
    <3>1. CASE /\ (pc' = [pc EXCEPT ![s] = "blocked"] \/ pc' = [pc EXCEPT ![s] = "trip"])
               /\ row' = row
      BY <2>0, <3>1, NewRecords, DraftRecords, JobRecords DEF ControlTypeOK, Places, Inv6Goal, Levels
    <3>2. CASE /\ row["slot"] \in {NoOne, s}
               /\ row' = [row EXCEPT !["slot"] = s]
               /\ (pc' = [pc EXCEPT ![s] = "blocked"] \/ pc' = [pc EXCEPT ![s] = "trip"])
      BY <2>0, <3>2, NewRecords, DraftRecords, JobRecords DEF ControlTypeOK, Places, Inv6Goal, Levels
    <3>3. CASE /\ row["slot"] \in {NoOne, s}
               /\ row' = [row EXCEPT !["slot"] = s]
               /\ pc' = [pc EXCEPT ![s] = "window"]
               /\ cred = "policy"
      BY <2>0, <3>3, NewRecords, DraftRecords, JobRecords DEF ControlTypeOK, Places, Inv6Goal, Levels
    <3> QED
      BY <2>0, <3>1, <3>2, <3>3
  <2>2. Inv1Holder'
    BY <2>0 DEF ControlTypeOK, Inv1Holder, Inside, Places
  <2>3. Inv2Work'
    BY <2>0 DEF ControlTypeOK, Inv1Holder, Inv2Work, Inv3Guard, Inv4Level, Inv5Canary, Inside, Places, Modes, NoWork, NoJob, Ops
  <2>4. Inv3Guard'
    BY <2>0 DEF ControlTypeOK, Inv1Holder, Inv2Work, Inv3Guard, Inv4Level, Inv5Canary, Inside, Places, Modes, NoWork, NoJob, Ops
  <2>5. Inv4Level'
    BY <2>0 DEF ControlTypeOK, Inv1Holder, Inv2Work, Inv3Guard, Inv4Level, Inv5Canary, Inside, Places, Modes, NoWork, NoJob, Ops
  <2>6. Inv5Canary'
    BY <2>0 DEF ControlTypeOK, Inv1Holder, Inv2Work, Inv3Guard, Inv4Level, Inv5Canary, Inside, Places, Modes, NoWork, NoJob, Ops
  <2>7. Inv6Goal'
    BY <2>0 DEF Inv6Goal, ControlTypeOK, NoJob, Ops
  <2>8. RowOrder'
    BY <2>0 DEF ControlTypeOK, Inv1Holder, RowOrder, Inside, Places
  <2> QED
    BY <2>1, <2>2, <2>3, <2>4, <2>5, <2>6, <2>7, <2>8
<1>20. ASSUME NEW s \in Sessions, Leave(s) PROVE ControlInv'
  <2>1. ControlTypeOK'
    BY <1>20, NewRecords, DraftRecords, JobRecords DEF Leave, ControlTypeOK, Places, Inv6Goal, Levels
  <2>2. Inv1Holder'
    BY <1>20 DEF Leave, ControlTypeOK, Inv1Holder, Inside, Places
  <2>3. Inv2Work'
    BY <1>20 DEF Leave, ControlTypeOK, Inv1Holder, Inv2Work, Inv3Guard, Inv4Level, Inv5Canary, Inside, Places, Modes, NoWork, NoJob, Ops
  <2>4. Inv3Guard'
    BY <1>20 DEF Leave, ControlTypeOK, Inv1Holder, Inv2Work, Inv3Guard, Inv4Level, Inv5Canary, Inside, Places, Modes, NoWork, NoJob, Ops
  <2>5. Inv4Level'
    BY <1>20 DEF Leave, ControlTypeOK, Inv1Holder, Inv2Work, Inv3Guard, Inv4Level, Inv5Canary, Inside, Places, Modes, NoWork, NoJob, Ops
  <2>6. Inv5Canary'
    BY <1>20 DEF Leave, ControlTypeOK, Inv1Holder, Inv2Work, Inv3Guard, Inv4Level, Inv5Canary, Inside, Places, Modes, NoWork, NoJob, Ops
  <2>7. Inv6Goal'
    BY <1>20 DEF Leave, Inv6Goal, ControlTypeOK, NoJob, Ops
  <2>8. RowOrder'
    BY <1>20 DEF Leave, ControlTypeOK, Inv1Holder, RowOrder, Inside, Places
  <2> QED
    BY <2>1, <2>2, <2>3, <2>4, <2>5, <2>6, <2>7, <2>8
<1>21. ASSUME NEW s \in Sessions, Crash(s) PROVE ControlInv'
  <2>1. ControlTypeOK'
    BY <1>21, NewRecords, DraftRecords, JobRecords DEF Crash, Release, Done, ControlTypeOK, Places, Inv6Goal, Levels
  <2>2. Inv1Holder'
    BY <1>21 DEF Crash, Release, Done, ControlTypeOK, Inv1Holder, Inside, Places
  <2>3. Inv2Work'
    BY <1>21 DEF Crash, Release, Done, ControlTypeOK, Inv1Holder, Inv2Work, Inv3Guard, Inv4Level, Inv5Canary, Inside, Places, Modes, NoWork, NoJob, Ops
  <2>4. Inv3Guard'
    BY <1>21 DEF Crash, Release, Done, ControlTypeOK, Inv1Holder, Inv2Work, Inv3Guard, Inv4Level, Inv5Canary, Inside, Places, Modes, NoWork, NoJob, Ops
  <2>5. Inv4Level'
    BY <1>21 DEF Crash, Release, Done, ControlTypeOK, Inv1Holder, Inv2Work, Inv3Guard, Inv4Level, Inv5Canary, Inside, Places, Modes, NoWork, NoJob, Ops
  <2>6. Inv5Canary'
    BY <1>21 DEF Crash, Release, Done, ControlTypeOK, Inv1Holder, Inv2Work, Inv3Guard, Inv4Level, Inv5Canary, Inside, Places, Modes, NoWork, NoJob, Ops
  <2>7. Inv6Goal'
    BY <1>21 DEF Crash, Release, Done, Inv6Goal, ControlTypeOK, NoJob, Ops
  <2>8. RowOrder'
    BY <1>21 DEF Crash, Release, Done, ControlTypeOK, Inv1Holder, RowOrder, Inside, Places
  <2> QED
    BY <2>1, <2>2, <2>3, <2>4, <2>5, <2>6, <2>7, <2>8
<1>22. ASSUME NEW s \in Sessions, Request(s) PROVE ControlInv'
  <2>1. PICK op \in Ops, goal \in Modes \cup Levels \cup Creds \cup {None},
             place \in {"read", "preview", "wait"} :
          /\ Call(s, op, goal, place)
          /\ op \in {"change", "downshift", "haltdown"} => goal \in Modes
          /\ op = "set" => goal \in Levels
          /\ op = "save" => goal \in Creds
          /\ op \in {"change", "downshift"} => place # "wait"
    <3>1. CASE \E l \in OwnerLevels : Call(s, "set", l, "wait")
      BY <3>1 DEF Ops
    <3>2. CASE \E op \in {"clear", "auto", "activate", "submit", "guard"} : Call(s, op, None, "wait")
      BY <3>2 DEF Ops
    <3>3. CASE \E m \in Modes : Call(s, "change", m, "preview")
      BY <3>3 DEF Ops
    <3>4. CASE \E m \in Modes : Call(s, "downshift", m, "read")
      BY <3>4 DEF Ops
    <3>5. CASE \E m \in Modes : Call(s, "haltdown", m, "wait")
      BY <3>5 DEF Ops
    <3>6. CASE \E c \in {"empty", "rotated"} : Call(s, "save", c, "wait")
      BY <3>6 DEF Ops, Creds
    <3> QED
      BY <1>22, <3>1, <3>2, <3>3, <3>4, <3>5, <3>6 DEF Request
  <2>2. /\ pc[s] = "idle" /\ pc' = [pc EXCEPT ![s] = place]
        /\ job' = [job EXCEPT ![s] = [NoJob EXCEPT !.op = op, !.goal = goal]]
        /\ UNCHANGED <<lock, kill, mode, cred, verdict, row, work>>
    BY <2>1 DEF Call
  <2>3. [NoJob EXCEPT !.op = op, !.goal = goal] \in Jobs
    BY DEF Jobs, NoJob
  <2>4. ControlTypeOK'
    BY <2>2, <2>3 DEF ControlTypeOK, Places
  <2>5. Inv1Holder'
    BY <2>2 DEF ControlTypeOK, Inv1Holder, Inside
  <2>6. Inv2Work' /\ RowOrder'
    BY <2>2 DEF ControlTypeOK, Inv2Work, RowOrder
  <2>7. Inv3Guard' /\ Inv4Level'
    BY <2>2 DEF ControlTypeOK, Inv3Guard, Inv4Level
  <2>8. Inv5Canary' /\ Inv6Goal'
    BY <2>1, <2>2 DEF ControlTypeOK, Inv5Canary, Inv6Goal, NoJob
  <2> QED
    BY <2>4, <2>5, <2>6, <2>7, <2>8
<1>23. CASE UNCHANGED vars
  BY <1>23
  DEF vars, ControlTypeOK, Inv1Holder, Inv2Work, Inv3Guard, Inv4Level, Inv5Canary, Inv6Goal, RowOrder
<1> QED
  BY <1>1, <1>2, <1>3, <1>4, <1>5, <1>6, <1>7, <1>8, <1>9, <1>10, <1>11, <1>12, <1>13, <1>14, <1>15, <1>16, <1>17, <1>18, <1>19, <1>20, <1>21, <1>22, <1>23 DEF ControlNext, Work

(* In the window of a submit what it was decided on still holds.           *)
(* kill_switch.py:202, mode.py:194, canary_submit_guard.py:207             *)
THEOREM SafeWindows == ControlSpec => [](ControlTypeOK /\ WindowFacts)
<1>1. ControlInv => ControlTypeOK /\ WindowFacts
  BY DEF ControlInv, Inv3Guard, WindowFacts
<1> QED
  BY <1>1, ControlInvInit, ControlInvNext, PTL DEF ControlSpec

(* Sessions that hold rows never wait for the control lock.                *)
(* kill_switch.py:145, canary_submit_guard.py:347                          *)
THEOREM OrderedRows == ControlSpec => []RowOrder
<1>1. ControlInv => RowOrder
  BY DEF ControlInv
<1> QED
  BY <1>1, ControlInvInit, ControlInvNext, PTL DEF ControlSpec

(* No automatic halt lowers the level. automatic_safety.py:153             *)
THEOREM NeverWeakened == ControlSpec => AutomaticNeverWeakens
<1> DEFINE Stays == \A s \in Sessions : pc[s] = "saw" /\ pc'[s] # "saw" => KillRank(kill') >= KillRank(kill)
<1>1. ControlInv /\ [ControlNext]_vars => [Stays]_vars
  <2> SUFFICES ASSUME ControlInv, ControlNext, NEW t \in Sessions, pc[t] = "saw", pc'[t] # "saw"
               PROVE KillRank(kill') >= KillRank(kill)
    OBVIOUS
  <2>1. KillRank(kill) \in Nat
    BY DEF ControlInv, ControlTypeOK, KillRank, Levels
  <2>2. PICK s \in Sessions : Request(s) \/ TakeLock(s) \/ Work(s) \/ Crash(s)
    BY DEF ControlNext
  <2>3. CASE OwnerSwitch(s)
    BY <2>3 DEF OwnerSwitch, Leaving, Goto, At, Inside, Places, ControlInv, ControlTypeOK, Inv1Holder
  <2>4. CASE AutomaticHalt(s)
    BY <2>1, <2>4, Ranks DEF AutomaticHalt, SetLevel, Committed, ControlInv, Inv4Level
  <2>5. CASE UNCHANGED kill
    BY <2>1, <2>5
  <2>6. OwnerSwitch(s) \/ AutomaticHalt(s) \/ UNCHANGED kill
    BY <2>2 DEF Request, Call, TakeLock, Work, Crash, Committed, ReadBefore, Preview, Unlock,
       CommitRequest, ReadLevel, NothingWrong, ChangeMode, HaltedChange, Prior, Verify, Gates, Apply,
       SaveSecret, Submit, GuardMode, GuardSlot, Leave
  <2> QED
    BY <2>3, <2>4, <2>5, <2>6
<1> QED
  BY <1>1, ControlInvInit, ControlInvNext, PTL DEF ControlSpec, AutomaticNeverWeakens

(* One owner proof enters CANARY at most once.                             *)
(* canary_owner_activation.py:311                                          *)
THEOREM OneProofOneEntry == ControlSpec => ProofUsedOnce
<1>1. ControlInv /\ [ControlNext]_vars =>
        [/\ verdict # None => verdict' = verdict
         /\ mode' = "CANARY" /\ mode # "CANARY" => verdict = None]_vars
  <2> SUFFICES ASSUME ControlInv, ControlNext
               PROVE /\ verdict # None => verdict' = verdict
                     /\ mode' = "CANARY" /\ mode # "CANARY" => verdict = None
    OBVIOUS
  <2>1. PICK s \in Sessions : Request(s) \/ TakeLock(s) \/ Work(s) \/ Crash(s)
    BY DEF ControlNext
  <2>2. CASE Publish(s)
    BY <2>2 DEF Publish, ControlInv, ControlTypeOK, Inv2Work, Inv5Canary, Drafts, None, Modes
  <2>3. CASE HaltedChange(s)
    BY <2>3, Ranks DEF HaltedChange, At, ControlInv, ControlTypeOK, Inv5Canary, Inv6Goal, Modes
  <2>4. CASE UNCHANGED <<mode, verdict>>
    BY <2>4
  <2>5. Publish(s) \/ HaltedChange(s) \/ UNCHANGED <<mode, verdict>>
    BY <2>1 DEF Request, Call, TakeLock, Work, Crash, Committed, ReadBefore, Preview, Unlock,
       CommitRequest, OwnerSwitch, AutomaticHalt, SetLevel, ReadLevel, NothingWrong, ChangeMode, Prior, Verify, Gates,
       Apply, SaveSecret, Submit, GuardMode, GuardSlot, Leave
  <2> QED
    BY <2>2, <2>3, <2>4, <2>5
<1> QED
  BY <1>1, ControlInvInit, ControlInvNext, PTL DEF ControlSpec, ProofUsedOnce
=============================================================================
