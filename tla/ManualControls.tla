--------------------------- MODULE ManualControls ---------------------------
(***************************************************************************)
(* The owner's commands for an open trade, execution/manual_controls.py,   *)
(* behind its two endpoints in api/v1/execution.py.  The one by idea finds *)
(* the open intent itself and locks its row until the commit; the one by   *)
(* intent takes the id it is given and locks nothing.                      *)
(*                                                                         *)
(* The intents are those of one idea, one for each lifecycle mode it was   *)
(* approved in.  Nothing in the repository carries a command out yet, so a *)
(* provider action stays unresolved once it is committed.  Every request   *)
(* is one transaction at READ COMMITTED and is asked once; a retry is      *)
(* another request with the same content.                                  *)
(***************************************************************************)
EXTENDS Integers, FiniteSets

CONSTANTS
  Intents,
  Askers,     \* requests
  Keys,       \* idempotency keys
  Exposure,   \* lots held by each intent, all of them covered by a stop
  Stop,       \* the price of that stop, of a long position
  MaxStop     \* bound on requested stops

Actions == {"CLOSE", "REDUCE", "TIGHTEN_STOP", "RETURN_AUTO"}
ProviderActions == Actions \ {"RETURN_AUTO"}
\* what is asked: REDUCE needs lots, TIGHTEN_STOP a price, the others neither
Contents == [action : Actions, amount : 0..MaxStop]
Commands == [intent : Intents, key : Keys, content : Contents]

VARIABLES
  state,      \* the state of each intent, committed
  commands,   \* execution_manual_trade_controls, committed
  locked,     \* the request that has an intent FOR UPDATE, if any
  step,
  ask         \* what each request asks: endpoint, intent, key and content

vars == <<state, commands, locked, step, ask>>

NoAsk == [by |-> "nobody"]
Nobody == {}

Init ==
  /\ state = [i \in Intents |-> "PROTECTION_PENDING"] /\ commands = {}
  /\ locked = [i \in Intents |-> Nobody]
  /\ step = [a \in Askers |-> "new"] /\ ask = [a \in Askers |-> NoAsk]

Open(i) == state[i] \in {"PROTECTED", "MANAGING"}
Pending(c) == c.content.action \in ProviderActions

-----------------------------------------------------------------------------
\* Requests that have inserted their command and not committed it.
Inserted == {a \in Askers : step[a] = "commit"}
Mine(a) == [intent |-> ask[a].intent, key |-> ask[a].key, content |-> ask[a].content]
\* An insert holds FOR KEY SHARE on its intent, through the foreign key.
Shared(i) == \E b \in Inserted : ask[b].intent = i
\* mutant: nobody waits for a locked row
NobodyWaits(a, i) == TRUE
FreeFor(a, i) == locked[i] \subseteq {a}

\* The execution core goes on: an UPDATE of the intent, committed at once.
Progress(i) ==
  /\ locked[i] = Nobody
  /\ \/ state[i] = "PROTECTION_PENDING" /\ \E s \in {"PROTECTED", "CLOSED"} :
          state' = [state EXCEPT ![i] = s]
     \/ state[i] = "PROTECTED" /\ state' = [state EXCEPT ![i] = "MANAGING"]
  /\ UNCHANGED <<commands, locked, step, ask>>

\* mutant: the end of a request keeps its lock
EndsHolding(a, s) == step' = [step EXCEPT ![a] = s] /\ UNCHANGED locked
Ends(a, s) == /\ step' = [step EXCEPT ![a] = s]
              /\ locked' = [i \in Intents |-> locked[i] \ {a}]
\* Rejected or failed: the transaction is rolled back and nothing is left.
Refuse(a) == Ends(a, "new") /\ ask' = [ask EXCEPT ![a] = NoAsk] /\ UNCHANGED <<state, commands>>

-----------------------------------------------------------------------------
AskByIntent(a, i, k, c) ==
  /\ step[a] = "new"
  /\ ask' = [ask EXCEPT ![a] = [by |-> "intent", intent |-> i, key |-> k, content |-> c]]
  /\ step' = [step EXCEPT ![a] = "look"]
  /\ UNCHANGED <<state, commands, locked>>

\* SELECT ... WHERE state IN (PROTECTED, MANAGING) LIMIT 2 FOR UPDATE, and exactly one row.  It
\* waits for whoever locked one of the rows and for inserts that share them.
AskByIdea(a, k, c) ==
  LET rows == {i \in Intents : Open(i)} IN
  /\ step[a] = "new"
  /\ Cardinality(rows) = 1
  /\ \A i \in rows : FreeFor(a, i) /\ ~Shared(i)
  /\ \E i \in rows :
       /\ ask' = [ask EXCEPT ![a] = [by |-> "idea", intent |-> i, key |-> k, content |-> c]]
       /\ locked' = [locked EXCEPT ![i] = {a}]
  /\ step' = [step EXCEPT ![a] = "look"]
  /\ UNCHANGED <<state, commands>>

\* The key is looked up; a command found there answers the request if it says the same.
SameContent(c, d) == c = d
LookUp(a) ==
  LET found == {c \in commands : c.intent = ask[a].intent /\ c.key = ask[a].key} IN
  /\ step[a] = "look"
  /\ \/ /\ found = {} /\ step' = [step EXCEPT ![a] = "check"]
        /\ UNCHANGED <<state, commands, locked, ask>>
     \/ \E c \in found : IF SameContent(c.content, ask[a].content)
                         THEN Ends(a, "replayed") /\ UNCHANGED <<state, commands, ask>>
                         ELSE Refuse(a)

\* Only less risk: less than is held, or a stop nearer than the present one.
Reduces(c) == CASE c.action = "REDUCE" -> c.amount \in 1..(Exposure - 1)
                [] c.action = "TIGHTEN_STOP" -> c.amount > Stop
                [] OTHER -> c.amount = 0

\* The trade is open, the command reduces risk and none is unresolved: RETURN_AUTO included.
Check(a) ==
  /\ step[a] = "check"
  /\ IF /\ Open(ask[a].intent) /\ Reduces(ask[a].content)
        /\ \A c \in commands : c.intent = ask[a].intent => ~Pending(c)
     THEN step' = [step EXCEPT ![a] = "insert"] /\ UNCHANGED <<state, commands, locked, ask>>
     ELSE Refuse(a)

\* The insert waits for a FOR UPDATE on its intent and for a row of the same key; a committed row
\* of the same key fails it (IntegrityError).
Insert(a) ==
  LET SameKey(c) == c.intent = ask[a].intent /\ c.key = ask[a].key IN
  /\ step[a] = "insert"
  /\ FreeFor(a, ask[a].intent)
  /\ \A b \in Inserted : ~SameKey(Mine(b))
  /\ IF \E c \in commands : SameKey(c)
     THEN Refuse(a)
     ELSE step' = [step EXCEPT ![a] = "commit"] /\ UNCHANGED <<state, commands, locked, ask>>

CommitCommand(a) ==
  /\ step[a] = "commit"
  /\ commands' = commands \cup {Mine(a)}
  /\ Ends(a, "created")
  /\ UNCHANGED <<state, ask>>

Abort(a) == step[a] \in {"look", "check", "insert", "commit"} /\ Refuse(a)

Next ==
  \/ \E i \in Intents : Progress(i)
  \/ \E a \in Askers :
       \/ \E i \in Intents, k \in Keys, c \in Contents : AskByIntent(a, i, k, c)
       \/ \E k \in Keys, c \in Contents : AskByIdea(a, k, c)
       \/ LookUp(a) \/ Check(a) \/ Insert(a) \/ CommitCommand(a) \/ Abort(a)

Spec == Init /\ [][Next]_vars

-----------------------------------------------------------------------------
\* Rows and requests are well formed, a key names one command of an intent and the row an idea
\* request works on is locked by it (models/manual_control.py, api/v1/execution.py:211).
TypeOK ==
  /\ state \in [Intents -> {"PROTECTION_PENDING", "PROTECTED", "MANAGING", "CLOSED"}]
  /\ commands \subseteq Commands
  /\ \A c, d \in commands : c.intent = d.intent /\ c.key = d.key => c = d
  /\ locked \in [Intents -> SUBSET Askers] /\ \A i \in Intents : Cardinality(locked[i]) <= 1
  /\ step \in [Askers -> {"new", "look", "check", "insert", "commit", "replayed", "created"}]
  /\ \A a \in Askers : \/ ask[a] = NoAsk
                       \/ /\ ask[a].by \in {"idea", "intent"} /\ Mine(a) \in Commands
                          /\ step[a] \in {"look", "check", "insert", "commit"} =>
                               locked[ask[a].intent] = IF ask[a].by = "idea" THEN {a} ELSE
                                                       locked[ask[a].intent] \ {a}

\* An answered request finds under its key the command it asked for, whichever of several requests
\* inserted it and however their statements interleaved (request_manual_trade_control).
AnswersNameTheirCommand == \A a \in Askers : step[a] \in {"replayed", "created"} => Mine(a) \in commands

\* No two requests by idea create provider actions for one intent: the lock of the row
\* makes the look for a pending action and the insert one step (api/v1/execution.py:211).
OnePendingByIdea ==
  \A a, b \in Askers :
    /\ step[a] = "created" /\ step[b] = "created" /\ ask[a].by = "idea" /\ ask[b].by = "idea"
    /\ ask[a].intent = ask[b].intent /\ Pending(Mine(a)) /\ Pending(Mine(b))
    => a = b

\* "another provider-side manual trade control is still unresolved": an intent has at most one
\* (manual_controls.py:341).
OnePending ==
  \A c, d \in commands : c.intent = d.intent /\ Pending(c) /\ Pending(d) => c = d

\* The inductive invariant behind them: the row an idea request works on is its own, no insert of
\* somebody else is under way on it, and what it has checked stays true until it commits.
Working(a) == step[a] \in {"look", "check", "insert", "commit"}
ByIdea(a) == ask[a].by = "idea"
SameRow(a, b) == ask[a].intent = ask[b].intent
RowsAreHeld ==
  /\ ask = [a \in Askers |-> ask[a]]
  /\ \A a \in Askers : step[a] # "new" => ask[a] # NoAsk
  /\ \A i \in Intents : locked[i] = Nobody \/ \E a \in Askers : locked[i] = {a}
  /\ \A i \in Intents : \A a \in locked[i] : Working(a) /\ ByIdea(a) /\ ask[a].intent = i
  /\ \A a \in Askers : Working(a) /\ ByIdea(a) =>
       \A b \in Inserted : SameRow(a, b) => a = b
CheckStands ==
  \A a \in Askers : step[a] \in {"insert", "commit"} /\ ByIdea(a) =>
    \A c \in commands : c.intent = ask[a].intent => ~Pending(c)
KeysAreFree ==
  \A a \in Inserted :
    /\ \A c \in commands : ~(c.intent = ask[a].intent /\ c.key = ask[a].key)
    /\ \A b \in Inserted : SameRow(a, b) /\ ask[a].key = ask[b].key => a = b
IInv == TypeOK /\ RowsAreHeld /\ CheckStands /\ KeysAreFree
        /\ OnePendingByIdea /\ AnswersNameTheirCommand
=============================================================================
