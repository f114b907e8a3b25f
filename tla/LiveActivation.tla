--------------------------- MODULE LiveActivation ---------------------------
(***************************************************************************)
(* The preview and the confirmation of CANARY -> LIVE,                     *)
(* execution/live_activation.py.  Every confirmation ends BLOCKED, since   *)
(* no owner step-up is connected to it; what it must get right is which    *)
(* preview a key confirmed, once and for all, with requests for the same   *)
(* preview and the same key under way at once and the mode changing.       *)
(***************************************************************************)
EXTENDS Integers, FiniteSets

CONSTANTS
  Confirmers,   \* confirmation requests, each asked once; a retry is another request
  Previews,     \* rows of execution_mode_activation_requests, one for each nonce
  LiveKeys      \* idempotency keys

LiveModes == {"PAPER", "CANARY"}  \* the modes a preview can find, as far as they differ here
None == "none"

VARIABLES
  live,      \* the committed lifecycle mode
  previews,  \* the rows, committed
  holder,    \* who has locked a preview's row or a key: the advisory lock of its transaction
  stage,
  confirm    \* what a confirmation asks, and the row it will commit or was answered with

vars == <<live, previews, holder, stage, confirm>>

NoRow == [from |-> None, status |-> None, key |-> None, outcome |-> None]
NoConfirm == [preview |-> None, key |-> None, row |-> NoRow]
Nobody == {}

Init ==
  /\ live = "CANARY"
  /\ previews = [p \in Previews |-> NoRow]
  /\ holder = [x \in Previews \cup LiveKeys |-> Nobody]
  /\ stage = [c \in Confirmers |-> "new"] /\ confirm = [c \in Confirmers |-> NoConfirm]

-----------------------------------------------------------------------------
\* The mode is changed elsewhere (ExecutionControl).
ModeMoves == /\ \E m \in LiveModes \ {live} : live' = m
             /\ UNCHANGED <<previews, holder, stage, confirm>>

Preview(p) ==
  /\ previews[p].status = None
  /\ previews' = [previews EXCEPT ![p] = [NoRow EXCEPT !.from = live, !.status = "PREVIEWED"]]
  /\ UNCHANGED <<live, holder, stage, confirm>>

LetGo(c) == holder' = [x \in DOMAIN holder |-> holder[x] \ {c}]
Refuse(c) == /\ stage' = [stage EXCEPT ![c] = "new"] /\ LetGo(c)
             /\ confirm' = [confirm EXCEPT ![c] = NoConfirm]
             /\ UNCHANGED <<live, previews>>
Answer(c, row) == confirm' = [confirm EXCEPT ![c].row = row]

\* pg_advisory_xact_lock on the key, held until the transaction ends.
LockKey(c, p, k) ==
  /\ stage[c] = "new" /\ holder[k] = Nobody
  /\ holder' = [holder EXCEPT ![k] = {c}]
  /\ stage' = [stage EXCEPT ![c] = "prior"]
  /\ confirm' = [confirm EXCEPT ![c] = [NoConfirm EXCEPT !.preview = p, !.key = k]]
  /\ UNCHANGED <<live, previews>>

\* What the key confirmed before, if anything.
Prior(c) ==
  LET prior == {p \in Previews : previews[p].key = confirm[c].key} IN
  /\ stage[c] = "prior"
  /\ \/ /\ prior = {} /\ stage' = [stage EXCEPT ![c] = "row"]
        /\ UNCHANGED <<live, previews, holder, confirm>>
     \/ \E p \in prior :
          IF p = confirm[c].preview
          THEN /\ stage' = [stage EXCEPT ![c] = "answered"] /\ LetGo(c)
               /\ Answer(c, previews[p]) /\ UNCHANGED <<live, previews>>
          ELSE Refuse(c)

\* SELECT ... FOR UPDATE: the row as it is once the lock is had.
\* mutant: a used preview is confirmed again
UnusedOrNot(p) == previews[p].status # None
Unused(p) == previews[p].status # None /\ previews[p].key = None
LockRow(c) ==
  LET p == confirm[c].preview IN
  /\ stage[c] = "row" /\ holder[p] = Nobody
  /\ IF Unused(p)
     THEN /\ holder' = [holder EXCEPT ![p] = {c}]
          /\ stage' = [stage EXCEPT ![c] = "gates"]
          /\ UNCHANGED <<live, previews, confirm>>
     ELSE Refuse(c)

\* The gates are read again; whatever they say, the step-up is missing.
Blocked(p, k) == [previews[p] EXCEPT !.key = k, !.status = "BLOCKED", !.outcome = live]
ReadGates(c) ==
  /\ stage[c] = "gates"
  /\ Answer(c, Blocked(confirm[c].preview, confirm[c].key))
  /\ stage' = [stage EXCEPT ![c] = "commit"]
  /\ UNCHANGED <<live, previews, holder>>

CommitConfirmation(c) ==
  /\ stage[c] = "commit"
  /\ previews' = [previews EXCEPT ![confirm[c].preview] = confirm[c].row]
  /\ stage' = [stage EXCEPT ![c] = "answered"] /\ LetGo(c)
  /\ UNCHANGED <<live, confirm>>

Abandon(c) == stage[c] \in {"prior", "row", "gates", "commit"} /\ Refuse(c)

Next ==
  \/ ModeMoves
  \/ \E p \in Previews : Preview(p)
  \/ \E c \in Confirmers :
       \/ \E p \in Previews, k \in LiveKeys : LockKey(c, p, k)
       \/ Prior(c) \/ LockRow(c) \/ ReadGates(c) \/ CommitConfirmation(c) \/ Abandon(c)

Spec == Init /\ [][Next]_vars

-----------------------------------------------------------------------------
Rows == [from : LiveModes \cup {None}, status : {None, "PREVIEWED", "BLOCKED"},
         key : LiveKeys \cup {None}, outcome : LiveModes \cup {None}]

\* Rows and requests are well formed, and a key is in a row exactly if the row is decided.
TypeOK ==
  /\ live \in LiveModes /\ previews \in [Previews -> Rows]
  /\ \A p \in Previews : (previews[p].key # None) = (previews[p].status = "BLOCKED")
  /\ holder \in [Previews \cup LiveKeys -> SUBSET Confirmers]
  /\ \A x \in Previews \cup LiveKeys : Cardinality(holder[x]) <= 1
  /\ stage \in [Confirmers -> {"new", "prior", "row", "gates", "commit", "answered"}]
  /\ confirm \in [Confirmers -> [preview : Previews \cup {None}, key : LiveKeys \cup {None}, row : Rows]]

\* A key confirms one preview and a preview is confirmed under one key, and every request that was
\* answered was told what the row says, also if several ran at once: the lock of the key and the
\* lock of the row together leave no gap (confirm_live_activation).
OneConfirmation ==
  /\ \A p, q \in Previews : previews[p].key # None /\ previews[p].key = previews[q].key => p = q
  /\ \A c \in Confirmers : stage[c] = "answered" =>
       confirm[c].row = previews[confirm[c].preview] /\ confirm[c].row.key = confirm[c].key

\* A decided row is never decided again: neither the key nor the outcome it was given change.
DecidedOnce ==
  [][\A p \in Previews : previews[p].status = "BLOCKED" => previews'[p] = previews[p]]_vars
=============================================================================
