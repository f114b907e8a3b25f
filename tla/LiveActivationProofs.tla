------------------------ MODULE LiveActivationProofs ------------------------
(***************************************************************************)
(* A key confirms one preview, a preview is confirmed under one key, and   *)
(* what was answered stands.  The argument: from the look at what its key  *)
(* confirmed to its commit a request holds the key, from the look at the   *)
(* row it holds the row, and nobody else writes either meanwhile.          *)
(***************************************************************************)
EXTENDS LiveActivation, FiniteSetTheorems, TLAPS

IsRow(r) == DOMAIN r = {"from", "status", "key", "outcome"}
IsConfirm(w) == DOMAIN w = {"preview", "key", "row"}
KeysApart == Previews \cap LiveKeys = {} /\ None \notin LiveKeys

Holders ==
  /\ holder = [x \in Previews \cup LiveKeys |-> holder[x]]
  /\ \A x \in Previews \cup LiveKeys : \A c, d \in holder[x] : c = d

Shape ==
  /\ previews = [p \in Previews |-> previews[p]] /\ stage = [c \in Confirmers |-> stage[c]]
  /\ confirm = [c \in Confirmers |-> confirm[c]]
  /\ \A p \in Previews : IsRow(previews[p])
  /\ \A c \in Confirmers : IsConfirm(confirm[c])

KeyOf(p) == previews[p].key

Decided ==
  /\ \A p \in Previews : (KeyOf(p) # None) = (previews[p].status = "BLOCKED")
  /\ \A p, q \in Previews : KeyOf(p) # None /\ KeyOf(p) = KeyOf(q) => p = q

\* What a request at stage g that asks w holds and knows.
Knows(c, g, w) ==
  /\ g \in {"new", "prior", "row", "gates", "commit", "answered"}
  /\ g # "new" => w.preview \in Previews /\ w.key \in LiveKeys
  /\ g \in {"prior", "row", "gates", "commit"} => c \in holder[w.key]
  /\ g \in {"row", "gates", "commit"} => \A p \in Previews : KeyOf(p) # w.key
  /\ g \in {"gates", "commit"} => c \in holder[w.preview] /\ KeyOf(w.preview) = None
  /\ g = "commit" => IsRow(w.row) /\ w.row.key = w.key /\ w.row.status = "BLOCKED"
  /\ g = "answered" => w.row = previews[w.preview] /\ w.row.key = w.key

IInv == Holders /\ Shape /\ Decided /\ \A c \in Confirmers : Knows(c, stage[c], confirm[c])

-----------------------------------------------------------------------------
LEMMA NoShapes == IsRow(NoRow) /\ NoRow.key = None /\ NoRow.status = None /\ IsConfirm(NoConfirm)
BY DEF IsRow, NoRow, IsConfirm, NoConfirm

LEMMA Initial == Init => IInv
<1> SUFFICES ASSUME Init PROVE IInv OBVIOUS
<1>1. Holders BY DEF Init, Holders, Nobody
<1>2. Shape BY NoShapes DEF Init, Shape
<1>3. Decided BY NoShapes DEF Init, Decided, KeyOf, None
<1>4. ASSUME NEW c \in Confirmers PROVE Knows(c, stage[c], confirm[c]) BY DEF Init, Knows
<1> QED BY <1>1, <1>2, <1>3, <1>4 DEF IInv

\* A request moves to stage g and asks w; it may take locks and let go its own.
LEMMA Moves ==
  ASSUME IInv, NEW c \in Confirmers, NEW g, NEW w,
         stage' = [stage EXCEPT ![c] = g], confirm' = [confirm EXCEPT ![c] = w],
         UNCHANGED previews, IsConfirm(w), Holders',
         \A x \in Previews \cup LiveKeys : \A d \in Confirmers \ {c} : d \in holder[x] => d \in holder'[x],
         Knows(c, g, w)'
  PROVE  IInv'
<1> USE DEF IInv
<1>1. /\ stage'[c] = g /\ confirm'[c] = w
      /\ \A d \in Confirmers \ {c} : stage'[d] = stage[d] /\ confirm'[d] = confirm[d]
  BY DEF Shape
<1>2. Shape' BY <1>1 DEF Shape
<1>3. Decided' BY DEF Decided, KeyOf
<1>4. ASSUME NEW d \in Confirmers PROVE Knows(d, stage[d], confirm[d])'
  <2>1. CASE d = c BY <1>1, <2>1 DEF Knows, KeyOf
  <2>2. CASE d # c
    <3>1. Knows(d, stage[d], confirm[d]) OBVIOUS
    <3> QED BY <1>1, <2>2, <3>1 DEF Knows, KeyOf
  <2> QED BY <2>1, <2>2
<1> QED BY <1>2, <1>3, <1>4

LEMMA LetsGo ==
  ASSUME IInv, NEW c \in Confirmers, LetGo(c)
  PROVE  /\ Holders'
         /\ \A x \in Previews \cup LiveKeys : \A d \in Confirmers \ {c} : d \in holder[x] => d \in holder'[x]
BY DEF IInv, Holders, LetGo

LEMMA Takes ==
  ASSUME IInv, NEW c \in Confirmers, NEW x \in Previews \cup LiveKeys, holder[x] = Nobody,
         holder' = [holder EXCEPT ![x] = {c}]
  PROVE  /\ Holders' /\ c \in holder'[x]
         /\ \A y \in Previews \cup LiveKeys : \A d \in Confirmers : d \in holder[y] => d \in holder'[y]
BY DEF IInv, Holders, Nobody

LEMMA Refuses ==
  ASSUME IInv, NEW c \in Confirmers, Refuse(c)
  PROVE  IInv'
<1>1. /\ stage' = [stage EXCEPT ![c] = "new"] /\ confirm' = [confirm EXCEPT ![c] = NoConfirm]
      /\ LetGo(c) /\ UNCHANGED previews
  BY DEF Refuse
<1>2. Knows(c, "new", NoConfirm)' BY DEF Knows
<1> QED BY <1>1, <1>2, LetsGo, NoShapes, Moves

-----------------------------------------------------------------------------
LEMMA LocksKey ==
  ASSUME IInv, NEW c \in Confirmers, NEW p \in Previews, NEW k \in LiveKeys, LockKey(c, p, k)
  PROVE  IInv'
<1> DEFINE w == [NoConfirm EXCEPT !.preview = p, !.key = k]
<1>1. IsConfirm(w) /\ w.preview = p /\ w.key = k BY DEF NoConfirm, IsConfirm
<1>2. /\ stage' = [stage EXCEPT ![c] = "prior"] /\ confirm' = [confirm EXCEPT ![c] = w]
      /\ holder[k] = Nobody /\ holder' = [holder EXCEPT ![k] = {c}] /\ UNCHANGED previews
  BY DEF LockKey
<1> HIDE DEF w
<1>3. /\ Holders' /\ c \in holder'[k]
      /\ \A y \in Previews \cup LiveKeys : \A d \in Confirmers : d \in holder[y] => d \in holder'[y]
  BY <1>2, Takes
<1>4. Knows(c, "prior", w)' BY <1>1, <1>3 DEF Knows
<1> QED BY <1>1, <1>2, <1>3, <1>4, Moves

LEMMA LooksPrior ==
  ASSUME IInv, NEW c \in Confirmers, Prior(c)
  PROVE  IInv'
<1> DEFINE w == confirm[c]
<1>1. Knows(c, "prior", w) /\ IsConfirm(w) BY DEF IInv, Shape, Prior
<1>2. CASE /\ \A p \in Previews : KeyOf(p) # w.key
           /\ stage' = [stage EXCEPT ![c] = "row"] /\ UNCHANGED <<live, previews, holder, confirm>>
  <2>1. Knows(c, "row", w)' BY <1>1, <1>2 DEF Knows, KeyOf
  <2>2. confirm' = [confirm EXCEPT ![c] = w] BY <1>2 DEF IInv, Shape
  <2>3. Holders' BY <1>2 DEF IInv, Holders
  <2> QED BY <1>1, <1>2, <2>1, <2>2, <2>3, Moves
<1>3. CASE /\ KeyOf(w.preview) = w.key
           /\ stage' = [stage EXCEPT ![c] = "answered"] /\ LetGo(c)
           /\ Answer(c, previews[w.preview]) /\ UNCHANGED <<live, previews>>
  <2>0. PICK v : v = [w EXCEPT !.row = previews[w.preview]] OBVIOUS
  <2>1. IsConfirm(v) /\ v.preview = w.preview /\ v.key = w.key /\ v.row = previews[w.preview]
    BY <1>1, <2>0 DEF IsConfirm
  <2>2. confirm' = [confirm EXCEPT ![c] = v] BY <1>3, <2>0 DEF Answer
  <2>3. Knows(c, "answered", v)' BY <1>1, <1>3, <2>1 DEF Knows, KeyOf
  <2> QED BY <1>3, <2>1, <2>2, <2>3, LetsGo, Moves
<1>4. CASE Refuse(c) BY <1>4, Refuses
<1> QED BY <1>2, <1>3, <1>4 DEF Prior, KeyOf

LEMMA LocksRow ==
  ASSUME IInv, NEW c \in Confirmers, LockRow(c)
  PROVE  IInv'
<1> DEFINE w == confirm[c]
<1>1. Knows(c, "row", w) /\ IsConfirm(w) BY DEF IInv, Shape, LockRow
<1>2. CASE Refuse(c) BY <1>2, Refuses
<1>3. CASE /\ KeyOf(w.preview) = None
           /\ holder' = [holder EXCEPT ![w.preview] = {c}]
           /\ stage' = [stage EXCEPT ![c] = "gates"] /\ UNCHANGED <<live, previews, confirm>>
  <2>1. w.preview \in Previews /\ holder[w.preview] = Nobody BY <1>1 DEF Knows, LockRow
  <2>2. /\ Holders' /\ c \in holder'[w.preview]
        /\ \A y \in Previews \cup LiveKeys : \A d \in Confirmers : d \in holder[y] => d \in holder'[y]
    BY <1>3, <2>1, Takes
  <2>3. Knows(c, "gates", w)' BY <1>1, <1>3, <2>1, <2>2 DEF Knows, KeyOf
  <2>4. confirm' = [confirm EXCEPT ![c] = w] BY <1>3 DEF IInv, Shape
  <2> QED BY <1>1, <1>3, <2>2, <2>3, <2>4, Moves
<1> QED BY <1>2, <1>3 DEF LockRow, Unused, KeyOf

LEMMA ReadsGates ==
  ASSUME IInv, NEW c \in Confirmers, ReadGates(c)
  PROVE  IInv'
<1> DEFINE w == confirm[c]
           row == Blocked(w.preview, w.key)
<1>1. Knows(c, "gates", w) /\ IsConfirm(w) BY DEF IInv, Shape, ReadGates
<1>2. w.preview \in Previews /\ IsRow(previews[w.preview]) BY <1>1 DEF Knows, IInv, Shape
<1>3. IsRow(row) /\ row.key = w.key /\ row.status = "BLOCKED" BY <1>2 DEF Blocked, IsRow
<1> HIDE DEF row
<1>0. PICK v : v = [w EXCEPT !.row = row] OBVIOUS
<1>4. IsConfirm(v) /\ v.preview = w.preview /\ v.key = w.key /\ v.row = row
  BY <1>0, <1>1 DEF IsConfirm
<1>5. /\ confirm' = [confirm EXCEPT ![c] = v] /\ stage' = [stage EXCEPT ![c] = "commit"]
      /\ UNCHANGED <<previews, holder>>
  BY <1>0 DEF ReadGates, Answer, row
<1>6. Knows(c, "commit", v)' BY <1>1, <1>3, <1>4, <1>5 DEF Knows, KeyOf
<1>7. Holders' BY <1>5 DEF IInv, Holders
<1> QED BY <1>4, <1>5, <1>6, <1>7, Moves

-----------------------------------------------------------------------------
\* Whoever else holds a row or a key is not the one that commits.
LEMMA Commits ==
  ASSUME KeysApart, IInv, NEW c \in Confirmers, CommitConfirmation(c)
  PROVE  IInv' /\ \A p \in Previews : previews[p].status = "BLOCKED" => previews'[p] = previews[p]
<1> DEFINE w == confirm[c]
           p == w.preview
<1>1. Knows(c, "commit", w) BY DEF IInv, CommitConfirmation
<1>2. /\ p \in Previews /\ w.key \in LiveKeys /\ c \in holder[p] /\ c \in holder[w.key]
      /\ KeyOf(p) = None /\ \A q \in Previews : KeyOf(q) # w.key
      /\ IsRow(w.row) /\ w.row.key = w.key /\ w.row.status = "BLOCKED"
  BY <1>1 DEF Knows
<1>3. /\ previews' = [previews EXCEPT ![p] = w.row]
      /\ stage' = [stage EXCEPT ![c] = "answered"] /\ LetGo(c) /\ confirm' = confirm
  BY DEF CommitConfirmation
<1>4. /\ previews'[p] = w.row /\ \A q \in Previews \ {p} : previews'[q] = previews[q]
      /\ stage'[c] = "answered" /\ \A d \in Confirmers \ {c} : stage'[d] = stage[d]
  BY <1>2, <1>3 DEF IInv, Shape
<1>5. Shape' BY <1>2, <1>3, <1>4 DEF IInv, Shape
<1>6. w.key # None BY <1>2 DEF KeysApart
<1>7. Decided' BY <1>2, <1>4, <1>6 DEF IInv, Decided, KeyOf
<1>8. ASSUME NEW d \in Confirmers PROVE Knows(d, stage[d], confirm[d])'
  <2>1. CASE d = c BY <1>2, <1>3, <1>4, <2>1 DEF Knows
  <2>2. CASE d # c
    <3>1. Knows(d, stage[d], confirm[d]) BY DEF IInv
    <3>2. stage'[d] = stage[d] /\ confirm'[d] = confirm[d] BY <1>3, <1>4, <2>2
    <3>3. \A x \in Previews \cup LiveKeys : d \in holder[x] => d \in holder'[x] BY <1>3, <2>2, LetsGo
    <3>4. d \notin holder[p] /\ d \notin holder[w.key] BY <1>2, <2>2 DEF IInv, Holders
    <3>5. stage[d] \in {"row", "gates", "commit"} => \A q \in Previews : KeyOf(q)' # confirm[d].key
      BY <1>2, <1>4, <3>1, <3>4 DEF Knows, KeyOf
    <3>6. stage[d] \in {"gates", "commit"} => previews'[confirm[d].preview].key = None
      BY <1>4, <3>1, <3>4 DEF Knows, KeyOf
    <3>7. stage[d] = "answered" => previews'[confirm[d].preview] = previews[confirm[d].preview]
      BY <1>2, <1>4, <3>1 DEF Knows, KeyOf, KeysApart
    <3> QED BY <3>1, <3>2, <3>3, <3>5, <3>6, <3>7 DEF Knows, KeyOf
  <2> QED BY <2>1, <2>2
<1>9. Holders' BY <1>3, LetsGo
<1>10. \A q \in Previews : previews[q].status = "BLOCKED" => previews'[q] = previews[q]
  BY <1>2, <1>4 DEF IInv, Decided, KeyOf
<1> QED BY <1>5, <1>7, <1>8, <1>9, <1>10 DEF IInv

LEMMA Previewed ==
  ASSUME KeysApart, IInv, NEW p \in Previews, Preview(p)
  PROVE  IInv' /\ \A q \in Previews : previews[q].status = "BLOCKED" => previews'[q] = previews[q]
<1> DEFINE row == [NoRow EXCEPT !.from = live, !.status = "PREVIEWED"]
<1>1. IsRow(row) /\ row.key = None /\ row.status = "PREVIEWED" BY DEF NoRow, IsRow
<1>2. /\ previews[p].status = None /\ previews' = [previews EXCEPT ![p] = row]
      /\ UNCHANGED <<holder, stage, confirm>>
  BY DEF Preview
<1> HIDE DEF row
<1>3. previews'[p] = row /\ \A q \in Previews \ {p} : previews'[q] = previews[q]
  BY <1>2 DEF IInv, Shape
<1>4. KeyOf(p) = None BY <1>2 DEF IInv, Decided, None
<1>5. \A q \in Previews : KeyOf(q)' = KeyOf(q) BY <1>1, <1>3, <1>4 DEF KeyOf
<1>6. Shape' BY <1>1, <1>2, <1>3 DEF IInv, Shape
<1>7. Decided' BY <1>1, <1>3, <1>4, <1>5 DEF IInv, Decided, KeyOf
<1>8. ASSUME NEW d \in Confirmers PROVE Knows(d, stage[d], confirm[d])'
  <2>1. Knows(d, stage[d], confirm[d]) BY DEF IInv
  <2>2. stage[d] = "answered" => previews'[confirm[d].preview] = previews[confirm[d].preview]
    BY <1>3, <1>4, <2>1 DEF Knows, KeyOf, KeysApart
  <2> QED BY <1>2, <1>5, <2>1, <2>2 DEF Knows
<1>9. Holders' BY <1>2 DEF IInv, Holders
<1> QED BY <1>2, <1>3, <1>6, <1>7, <1>8, <1>9 DEF IInv, None

-----------------------------------------------------------------------------
LEMMA Step ==
  ASSUME KeysApart, IInv, [Next]_vars
  PROVE  IInv' /\ \A p \in Previews : previews[p].status = "BLOCKED" => previews'[p] = previews[p]
<1>1. CASE UNCHANGED <<previews, holder, stage, confirm>>
  <2>1. Holders' /\ Shape' /\ Decided' BY <1>1 DEF IInv, Holders, Shape, Decided, KeyOf
  <2>2. ASSUME NEW d \in Confirmers PROVE Knows(d, stage[d], confirm[d])'
    BY <1>1 DEF IInv, Knows, KeyOf
  <2> QED BY <1>1, <2>1, <2>2 DEF IInv
<1>2. CASE ModeMoves BY <1>1, <1>2 DEF ModeMoves
<1>3. CASE \E p \in Previews : Preview(p) BY <1>3, Previewed
<1>4. ASSUME NEW c \in Confirmers, CommitConfirmation(c)
      PROVE  IInv' /\ \A p \in Previews : previews[p].status = "BLOCKED" => previews'[p] = previews[p]
  BY <1>4, Commits
<1>5. ASSUME NEW c \in Confirmers,
             \/ \E p \in Previews, k \in LiveKeys : LockKey(c, p, k)
             \/ Prior(c) \/ LockRow(c) \/ ReadGates(c) \/ Abandon(c)
      PROVE  IInv' /\ previews' = previews
  <2>1. IInv' BY <1>5, LocksKey, LooksPrior, LocksRow, ReadsGates, Refuses DEF Abandon
  <2>2. previews' = previews
    BY <1>5 DEF LockKey, Prior, LockRow, ReadGates, Abandon, Refuse
  <2> QED BY <2>1, <2>2
<1> QED BY <1>1, <1>2, <1>3, <1>4, <1>5 DEF Next, vars

LEMMA Confirmed == ASSUME KeysApart, IInv PROVE OneConfirmation
BY DEF IInv, Decided, KeyOf, Knows, OneConfirmation

\* A key confirms one preview, a preview has one key and every answer is what the row says,
\* whatever requests run at once (confirm_live_activation).
THEOREM ConfirmedOnce == ASSUME KeysApart PROVE Spec => []OneConfirmation
<1> QED BY Initial, Step, Confirmed, PTL DEF Spec

\* A decided preview is never decided again: its row is final.
THEOREM DecisionsAreFinal == ASSUME KeysApart PROVE Spec => DecidedOnce
<1>1. ASSUME KeysApart, IInv, [Next]_vars
      PROVE  [\A p \in Previews : previews[p].status = "BLOCKED" => previews'[p] = previews[p]]_vars
  BY <1>1, Step
<1> QED BY <1>1, Initial, Step, PTL DEF Spec, DecidedOnce

-----------------------------------------------------------------------------
ConfirmStages == {"new", "prior", "row", "gates", "commit", "answered"}
Confirms == [preview : Previews \cup {None}, key : LiveKeys \cup {None}, row : Rows]

\* The type invariant without what IInv says already: that a lock has one holder, that a key is in
\* a decided row.
Typed ==
  /\ live \in LiveModes /\ previews \in [Previews -> Rows]
  /\ holder \in [Previews \cup LiveKeys -> SUBSET Confirmers]
  /\ stage \in [Confirmers -> ConfirmStages] /\ confirm \in [Confirmers -> Confirms]

LEMMA TypedMeans == IInv /\ Typed => TypeOK
<1> SUFFICES ASSUME IInv, Typed PROVE TypeOK OBVIOUS
<1>1. ASSUME NEW x \in Previews \cup LiveKeys PROVE Cardinality(holder[x]) <= 1
  <2>1. CASE holder[x] = {} BY <2>1, FS_EmptySet
  <2>2. ASSUME NEW c \in holder[x] PROVE Cardinality(holder[x]) <= 1
    <3>1. holder[x] = {c} BY DEF IInv, Holders
    <3>2. Cardinality({c}) = 1 BY FS_Singleton
    <3> QED BY <3>1, <3>2
  <2> QED BY <2>1, <2>2
<1> QED BY <1>1 DEF TypeOK, Typed, IInv, Decided, KeyOf, ConfirmStages, Confirms

LEMMA RowsTyped ==
  /\ NoRow \in Rows /\ NoConfirm \in Confirms
  /\ \A m \in LiveModes : [NoRow EXCEPT !.from = m, !.status = "PREVIEWED"] \in Rows
  /\ \A p \in Previews, k \in LiveKeys : [NoConfirm EXCEPT !.preview = p, !.key = k] \in Confirms
  /\ \A w \in Confirms, r \in Rows : [w EXCEPT !.row = r] \in Confirms
  /\ \A r \in Rows, k \in LiveKeys, m \in LiveModes :
       [r EXCEPT !.key = k, !.status = "BLOCKED", !.outcome = m] \in Rows
<1>1. NoRow \in Rows BY DEF NoRow, Rows
<1>2. NoConfirm \in Confirms BY <1>1 DEF NoConfirm, Confirms
<1>3. ASSUME NEW m \in LiveModes PROVE [NoRow EXCEPT !.from = m, !.status = "PREVIEWED"] \in Rows
  BY DEF NoRow, Rows
<1>4. ASSUME NEW p \in Previews, NEW k \in LiveKeys
      PROVE  [NoConfirm EXCEPT !.preview = p, !.key = k] \in Confirms
  BY <1>1 DEF NoConfirm, Confirms
<1>5. ASSUME NEW w \in Confirms, NEW r \in Rows PROVE [w EXCEPT !.row = r] \in Confirms
  BY DEF Confirms
<1>6. ASSUME NEW r \in Rows, NEW k \in LiveKeys, NEW m \in LiveModes
      PROVE  [r EXCEPT !.key = k, !.status = "BLOCKED", !.outcome = m] \in Rows
  BY DEF Rows
<1> QED BY <1>1, <1>2, <1>3, <1>4, <1>5, <1>6

LEMMA TypedInitially == Init => Typed
<1> SUFFICES ASSUME Init PROVE Typed OBVIOUS
<1>1. live \in LiveModes /\ stage \in [Confirmers -> ConfirmStages]
  BY DEF Init, LiveModes, ConfirmStages
<1>2. holder \in [Previews \cup LiveKeys -> SUBSET Confirmers] BY DEF Init, Nobody
<1>3. previews \in [Previews -> Rows] /\ confirm \in [Confirmers -> Confirms] BY RowsTyped DEF Init
<1> QED BY <1>1, <1>2, <1>3 DEF Typed

LEMMA StepTyped ==
  ASSUME IInv, Typed, [Next]_vars
  PROVE  Typed'
<1> USE DEF Typed
<1>1. ASSUME NEW c \in Confirmers, LetGo(c) PROVE holder' \in [Previews \cup LiveKeys -> SUBSET Confirmers]
  BY <1>1 DEF LetGo
<1>2. ASSUME NEW c \in Confirmers, Refuse(c) PROVE Typed'
  BY <1>1, <1>2, RowsTyped DEF Refuse, ConfirmStages
<1>3. CASE UNCHANGED vars BY <1>3 DEF vars
<1>4. CASE ModeMoves BY <1>4 DEF ModeMoves
<1>5. ASSUME NEW p \in Previews, Preview(p) PROVE Typed' BY <1>5, RowsTyped DEF Preview
<1>6. ASSUME NEW c \in Confirmers, NEW p \in Previews, NEW k \in LiveKeys, LockKey(c, p, k)
      PROVE  Typed'
  BY <1>6, RowsTyped DEF LockKey, ConfirmStages
<1>7. ASSUME NEW c \in Confirmers, Prior(c) PROVE Typed'
  <2>1. CASE Refuse(c) BY <1>2, <2>1
  <2>2. CASE stage' = [stage EXCEPT ![c] = "row"] /\ UNCHANGED <<live, previews, holder, confirm>>
    BY <2>2 DEF ConfirmStages
  <2>3. ASSUME NEW p \in Previews, stage' = [stage EXCEPT ![c] = "answered"], LetGo(c),
               Answer(c, previews[p]), UNCHANGED <<live, previews>>
        PROVE  Typed'
    <3>1. [confirm[c] EXCEPT !.row = previews[p]] \in Confirms BY RowsTyped
    <3>2. confirm' \in [Confirmers -> Confirms] BY <2>3, <3>1 DEF Answer
    <3> QED BY <1>1, <2>3, <3>2 DEF ConfirmStages
  <2> QED BY <1>7, <2>1, <2>2, <2>3 DEF Prior
<1>8. ASSUME NEW c \in Confirmers, LockRow(c) PROVE Typed'
  <2>1. CASE Refuse(c) BY <1>2, <2>1
  <2>2. CASE ~Refuse(c) BY <1>8, <2>2 DEF LockRow, ConfirmStages
  <2> QED BY <2>1, <2>2
<1>9. ASSUME NEW c \in Confirmers, ReadGates(c) PROVE Typed'
  <2>1. Knows(c, "gates", confirm[c]) BY <1>9 DEF IInv, ReadGates
  <2>2. confirm[c].preview \in Previews /\ confirm[c].key \in LiveKeys BY <2>1 DEF Knows
  <2>3. Blocked(confirm[c].preview, confirm[c].key) \in Rows BY <2>2, RowsTyped DEF Blocked
  <2>4. [confirm[c] EXCEPT !.row = Blocked(confirm[c].preview, confirm[c].key)] \in Confirms
    BY <2>3, RowsTyped
  <2>5. confirm' \in [Confirmers -> Confirms] BY <1>9, <2>4 DEF ReadGates, Answer
  <2> QED BY <1>9, <2>5 DEF ReadGates, ConfirmStages
<1>10. ASSUME NEW c \in Confirmers, CommitConfirmation(c) PROVE Typed'
  <2>1. confirm[c].row \in Rows BY DEF Confirms
  <2> QED BY <1>1, <1>10, <2>1 DEF CommitConfirmation, ConfirmStages
<1>11. ASSUME NEW c \in Confirmers, Abandon(c) PROVE Typed' BY <1>2, <1>11 DEF Abandon
<1> QED BY <1>3, <1>4, <1>5, <1>6, <1>7, <1>8, <1>9, <1>10, <1>11 DEF Next

\* The rows are well formed, a lock has at most one holder, and a row names a key exactly if it is
\* decided.
THEOREM ActivationTyped == ASSUME KeysApart PROVE Spec => []TypeOK
<1>1. Init => IInv /\ Typed BY Initial, TypedInitially
<1>2. (IInv /\ Typed) /\ [Next]_vars => (IInv /\ Typed)' BY Step, StepTyped
<1> QED BY <1>1, <1>2, TypedMeans, PTL DEF Spec
=============================================================================
