--------------------------- MODULE LighterActions ---------------------------
(***************************************************************************)
(* Orders of one account sent to Lighter under one API key                 *)
(* (execution/venues/lighter_actions.py, lighter_replay.py) and their      *)
(* reconciliation after an unclear outcome (lighter_reconciliation.py).    *)
(* An action is a durable key such as CREATE:order or CANCEL:order.  Its   *)
(* row of lighter_nonce_reservations owns the nonce lane of the key from   *)
(* its reservation until its nonce is known to be consumed.                *)
(*                                                                         *)
(* The provider is external.  It takes a transaction whose nonce is not    *)
(* below its next one (skip_nonce), refuses others, may answer late, not   *)
(* at all or unclearly, and lists what it took sooner or later.  Evidence  *)
(* rows only repeat the outcome that was found and are left out; the HALT  *)
(* that an ambiguity raises in CANARY is automatic_halt_new_entries, which *)
(* ExecutionControl models.                                                *)
(***************************************************************************)
EXTENDS Integers, FiniteSets, FiniteSetsExt

CONSTANTS
  Callers,    \* whoever runs actions or reconciles them, processes that may die
  Orders,     \* the action keys CREATE, REDUCE and PROTECT of one client order
  Cancels,    \* its action keys CANCEL, none of them in Orders
  Requests,   \* what an action may ask for; its request_hash
  MaxNonce    \* bound on the nonces the provider hands out

Actions == Orders \cup Cancels
Nonces == 0..MaxNonce
None == "none"

VARIABLES
  binding,   \* lighter_order_action_bindings: the request each action is bound to
  lane,      \* lighter_nonce_reservations: nonce and state of each action
  stage,
  call,      \* what each caller does: action, request, nonce, answer, snapshot
  next,      \* the provider: the least nonce it takes,
  taken,     \*   the transactions it took
  wire       \*   and the requests still under way

vars == <<binding, lane, stage, call, next, taken, wire>>
Rows == <<binding, lane>>
Provider == <<next, taken, wire>>

Unreserved == [nonce |-> 0, state |-> "none"]
NoCall == [action |-> None, request |-> None, nonce |-> 0, ack |-> None, found |-> FALSE]
Active(a) == lane[a].state \in {"RESERVED", "SUBMITTING"}

Init ==
  /\ binding = [a \in Actions |-> None] /\ lane = [a \in Actions |-> Unreserved]
  /\ stage = [c \in Callers |-> "idle"] /\ call = [c \in Callers |-> NoCall]
  /\ next = 0 /\ taken = {} /\ wire = {}

To(c, g) == stage' = [stage EXCEPT ![c] = g]
Leave(c) == To(c, "idle") /\ call' = [call EXCEPT ![c] = NoCall]

\* The transaction-scoped advisory locks of the action and of the lane: a caller that has prepared
\* an action holds them until it commits, everybody else waits.
LocksFree == \A c \in Callers : stage[c] # "prepared"
Moves(a, s) == lane' = [lane EXCEPT ![a].state = s] /\ UNCHANGED binding

-----------------------------------------------------------------------------
\* _prepare: bind the request, find or reserve the nonce, arm it, commit.

Ask(c, a, r) ==
  /\ stage[c] = "idle" /\ To(c, "ask")
  /\ call' = [call EXCEPT ![c] = [NoCall EXCEPT !.action = a, !.request = r]]
  /\ UNCHANGED <<Rows, Provider>>

\* A cancellation needs the identity that another action of the order has created.
Known(a) == a \in Cancels => \E b \in Orders : binding[b] # None
Bindable(a, r) == binding[a] \in {None, r}
\* mutant: the look-up by key leaves out consumed reservations
OwnActive(a) == IF Active(a) THEN lane[a] ELSE Unreserved
Own(a) == lane[a]
Consumed == {lane[a].nonce : a \in {b \in Actions : lane[b].state = "CONSUMED"}}
\* The nonce is asked of the provider, whose answer may be behind.
Reservable(n) ==
  /\ \A b \in Actions : ~Active(b)
  /\ n > Max(Consumed \cup {-1})

Prepare(c) ==
  LET a == call[c].action IN
  /\ stage[c] = "ask" /\ LocksFree
  /\ Known(a) /\ Bindable(a, call[c].request)
  /\ \/ /\ Own(a).state = "RESERVED"
        /\ call' = [call EXCEPT ![c].nonce = Own(a).nonce]
     \/ /\ Own(a).state = "none"
        /\ \E n \in 0..next : Reservable(n) /\ call' = [call EXCEPT ![c].nonce = n]
  /\ To(c, "prepared")
  /\ UNCHANGED <<Rows, Provider>>
CommitPrepared(c) ==
  LET a == call[c].action IN
  /\ stage[c] = "prepared"
  /\ binding' = [binding EXCEPT ![a] = call[c].request]
  /\ lane' = [lane EXCEPT ![a] = [nonce |-> call[c].nonce, state |-> "SUBMITTING"]]
  /\ To(c, "send")
  /\ UNCHANGED <<call, Provider>>

-----------------------------------------------------------------------------
\* The provider's write and its answer.

Tx(c) == [action |-> call[c].action, request |-> call[c].request, nonce |-> call[c].nonce]
Takes(t) ==
  /\ t.nonce >= next /\ t.nonce < MaxNonce
  /\ next' = t.nonce + 1 /\ taken' = taken \cup {t}
Answer(c, k) == To(c, "ack") /\ call' = [call EXCEPT ![c].ack = k]

\* "ok" is code 200 with a hash, "refused" another code without one, "unclear" the rest.
SendTaken(c) ==
  /\ stage[c] = "send" /\ Takes(Tx(c))
  /\ Answer(c, "ok") \/ Answer(c, "unclear") \/ Leave(c)
  /\ UNCHANGED <<Rows, wire>>
SendRefused(c) ==
  /\ stage[c] = "send" /\ (Answer(c, "refused") \/ Answer(c, "unclear") \/ Leave(c))
  /\ UNCHANGED <<Rows, Provider>>
SendDelayed(c) ==
  /\ stage[c] = "send" /\ wire' = wire \cup {Tx(c)}
  /\ Answer(c, "unclear") \/ Leave(c)
  /\ UNCHANGED <<Rows, next, taken>>
Arrives(t) ==
  /\ wire' = wire \ {t}
  /\ Takes(t) \/ (t.nonce < next /\ UNCHANGED <<next, taken>>)
  /\ UNCHANGED <<Rows, stage, call>>
\* The owner uses the API key elsewhere.
OutsideUse ==
  /\ next < MaxNonce /\ next' = next + 1
  /\ UNCHANGED <<Rows, stage, call, taken, wire>>

\* _accept_or_raise: only a proven refusal gives the action back for a retry.
\* mutant: every answer but an acceptance does
Unaccepted(k) == k \in {"refused", "unclear"}
ProvenRefusal(k) == k = "refused"
TakeAnswer(c) ==
  LET a == call[c].action
      k == call[c].ack IN
  /\ stage[c] = "ack" /\ LocksFree
  /\ CASE k = "ok" /\ lane[a].state # "none" -> Moves(a, "CONSUMED")
       [] ProvenRefusal(k) /\ lane[a].state = "SUBMITTING" -> Moves(a, "RESERVED")
       [] OTHER -> UNCHANGED Rows
  /\ Leave(c)
  /\ UNCHANGED Provider

-----------------------------------------------------------------------------
\* Reconciliation: provider facts are fetched first and applied, maybe later, under the locks.

\* The transaction, or for other actions than a cancellation the order, if the provider lists it
\* already; the next nonce.
Fetch(c, a) ==
  /\ stage[c] = "idle" /\ lane[a].state # "none" /\ To(c, "facts")
  /\ \E f \in {FALSE, \E t \in taken : t.action = a /\ t.nonce = lane[a].nonce} :
     \E n \in 0..next :
       call' = [call EXCEPT ![c] = [NoCall EXCEPT !.action = a, !.nonce = n, !.found = f]]
  /\ UNCHANGED <<Rows, Provider>>

\* what the provider's facts tell of an action
Outcome(c) ==
  CASE call[c].found -> "FOUND"
    [] call[c].nonce > lane[call[c].action].nonce -> "CONSUMED_UNKNOWN"
    [] OTHER -> "AMBIGUOUS"
Reconcile(c) ==
  LET a == call[c].action IN
  /\ stage[c] = "facts" /\ LocksFree
  /\ IF call[c].nonce >= lane[a].nonce /\ Outcome(c) # "AMBIGUOUS"
     THEN Moves(a, "CONSUMED") ELSE UNCHANGED Rows
  /\ Leave(c)
  /\ UNCHANGED Provider

\* Refused with an error, rolled back or died.
Fails(c) == stage[c] # "idle" /\ Leave(c) /\ UNCHANGED <<Rows, Provider>>

Next ==
  \/ \E c \in Callers :
       \/ \E a \in Actions : Fetch(c, a) \/ \E r \in Requests : Ask(c, a, r)
       \/ Prepare(c) \/ CommitPrepared(c)
       \/ SendTaken(c) \/ SendRefused(c) \/ SendDelayed(c) \/ TakeAnswer(c)
       \/ Reconcile(c) \/ Fails(c)
  \/ \E t \in wire : Arrives(t)
  \/ OutsideUse

Spec == Init /\ [][Next]_vars

-----------------------------------------------------------------------------
Transactions == [action : Actions, request : Requests, nonce : Nonces]

\* Rows, calls and requests are well formed; one unresolved action owns the lane.
TypeOK ==
  /\ binding \in [Actions -> Requests \cup {None}]
  /\ lane \in [Actions -> [nonce : Nonces, state : {"none", "RESERVED", "SUBMITTING", "CONSUMED"}]]
  /\ stage \in [Callers -> {"idle", "ask", "prepared", "send", "ack", "facts"}]
  /\ next \in Nonces /\ taken \subseteq Transactions /\ wire \subseteq Transactions
  /\ \A a, b \in Actions : Active(a) /\ Active(b) => a = b

\* Whatever is lost, late, answered unclearly or retried after a restart, the provider takes an
\* action once, as the request it was bound to, and no two actions under one nonce; a nonce is
\* retired only when the provider will not take it again, so that a request under way cannot take
\* effect after its action is closed.
OneTransactionPerAction ==
  /\ \A t, u \in taken :
       /\ binding[t.action] = t.request
       /\ t.action = u.action \/ t.nonce = u.nonce => t = u
  /\ \A a \in Actions : lane[a].state = "CONSUMED" => next > lane[a].nonce

\* A caller sends an action only if the provider has neither taken it nor may still take it from an
\* earlier call: "any process restart or duplicate caller must reconcile provider facts before
\* another transaction may use the nonce lane" (lighter_replay.py:214).
NoBlindResend ==
  \A c \in Callers : stage[c] = "send" =>
    /\ \A t \in taken \cup wire : t.action # call[c].action
    /\ \A d \in Callers \ {c} : stage[d] = "send" => call[d].action # call[c].action

\* The inductive invariant behind them: an action that is not armed has no attempt and no
\* transaction, one that is has one of both at most, as its rows say.
Attempts(a) == {c \in Callers : stage[c] \in {"send", "ack"} /\ call[c].action = a}
Armed(a) == lane[a].state \in {"SUBMITTING", "CONSUMED"}
Attempted ==
  \A c \in Callers : stage[c] \in {"send", "ack"} =>
    /\ Armed(call[c].action) /\ Attempts(call[c].action) = {c}
    /\ call[c].request = binding[call[c].action] /\ call[c].nonce = lane[call[c].action].nonce
    /\ stage[c] = "send" \/ call[c].ack = "refused" =>
         \A t \in taken \cup wire : t.action # call[c].action
    /\ stage[c] = "ack" /\ call[c].ack = "ok" => next > call[c].nonce
Transacted ==
  /\ \A t \in taken \cup wire :
       Armed(t.action) /\ t.request = binding[t.action] /\ t.nonce = lane[t.action].nonce
  /\ \A t \in taken : t.nonce < next
  /\ \A t, u \in taken : t.nonce = u.nonce => t = u
Prepared ==
  \A c \in Callers : stage[c] = "prepared" =>
    LET a == call[c].action IN
    /\ \A d \in Callers : stage[d] = "prepared" => d = c
    /\ ~Armed(a) /\ Bindable(a, call[c].request)
    /\ lane[a].state = "RESERVED" => call[c].nonce = lane[a].nonce
    /\ \A b \in Actions : Active(b) => b = a
FactsStand ==
  \A c \in Callers : stage[c] = "facts" =>
    LET a == call[c].action IN
    /\ lane[a].state # "none" /\ call[c].nonce <= next
    /\ call[c].found => next > lane[a].nonce
Closed == \A a \in Actions : lane[a].state = "CONSUMED" => next > lane[a].nonce
Calls == [action : Actions \cup {None}, request : Requests \cup {None}, nonce : Nonces,
          ack : {None, "ok", "refused", "unclear"}, found : BOOLEAN]
Called ==
  /\ call \in [Callers -> Calls]
  /\ \A c \in Callers : stage[c] # "idle" => call[c].action \in Actions
  /\ \A c \in Callers : stage[c] \in {"ask", "prepared", "send", "ack"} => call[c].request \in Requests
IInv == TypeOK /\ Called /\ Attempted /\ Transacted /\ Prepared /\ FactsStand /\ Closed
=============================================================================
