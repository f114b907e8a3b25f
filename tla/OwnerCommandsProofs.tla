------------------------- MODULE OwnerCommandsProofs -------------------------
(***************************************************************************)
(* Proofs about the parts of OwnerCommands.                                *)
(*                                                                         *)
(* Intents: a unique key is unique among the committed rows and those      *)
(* inserted and not committed, so the token of an override names its mode, *)
(* and with it the identity of every intent that passed the comparison     *)
(* with it; and the row that is counted up is locked until the commit.     *)
(* Owner's commands: who asks by idea holds the row of the intent from its *)
(* look for a pending action to its commit.  Provider transactions: what   *)
(* the provider may still take is what an active lane was armed with.      *)
(* Confirmations: LiveActivationProofs, instantiated.                      *)
(***************************************************************************)
EXTENDS OwnerCommands, FiniteSetTheorems, TLAPS

(* ------------------------ intents and overrides ------------------------ *)
IsIntent(i) == DOMAIN i = {"mode", "snapshot", "override", "quantity", "count"}
IsPlan(j) == DOMAIN j = {"op", "override", "quantity", "snapshot", "mode"}

Shape ==
  /\ pc = [r \in Requests |-> pc[r]] /\ job = [r \in Requests |-> job[r]]
  /\ \A i \in intents : IsIntent(i)

\* Inserted and not committed.
Draft(r, op) == pc[r] = "commit" /\ job[r].op = op

UniqueOverride ==
  /\ \A o, p \in overrides : o.token = p.token => o = p
  /\ \A r \in Requests : Draft(r, "override") =>
       /\ \A o \in overrides : o.token # job[r].token
       /\ \A q \in Requests \ {r} : Draft(q, "override") => job[q].token # job[r].token

UniqueIntent ==
  /\ \A i, k \in intents : Identity(i) = Identity(k) => i = k
  /\ \A r \in Requests : Draft(r, "intent") =>
       /\ \A i \in intents : Identity(i) # Identity(job[r])
       /\ \A q \in Requests \ {r} : Draft(q, "intent") => Identity(job[q]) # Identity(job[r])

\* What an intent, or the plan of one, has to do with the override it names.
Behind(i) ==
  i.override = {} \/ \E o \in overrides : /\ {o.token} = i.override /\ o.mode = i.mode
                                          /\ o.token.snapshot = i.snapshot
                                          /\ o.token.quantity = i.quantity

Present(j) == \E i \in intents : Identity(i) = Identity(j) /\ i.quantity = j.quantity

\* What is true of a request at p with job j.
Told(p, j) ==
  /\ j.op = "intent" => IsPlan(j) /\ Behind(j)
  /\ p \in {"commit", "done"} => j.op \in {"override", "replay", "intent", "duplicate"}
  /\ p = "count" => j.op = "intent" /\ Present(j)
  /\ p = "commit" /\ j.op = "duplicate" => Present(j)
  /\ p \in {"commit", "done"} /\ j.op = "replay" => j.got \in overrides /\ j.got.token = j.token
  /\ p = "done" /\ j.op = "override" => \E o \in overrides : o.token = j.token /\ o.key = j.key
  /\ p = "done" /\ j.op \in {"intent", "duplicate"} => Present(j)

IInv ==
  /\ Shape /\ UniqueOverride /\ UniqueIntent
  /\ \A i \in intents : Behind(i)
  /\ \A r \in Requests : Told(pc[r], job[r])

-----------------------------------------------------------------------------
\* No row and no request under way: the invariant of intents holds at first.
LEMMA Initial == Init => IInv
BY DEF Init, IInv, Shape, UniqueOverride, UniqueIntent, Draft, Told, NoJob, None

\* Rows are never lost, so what was true of a job stays true.
LEMMA ToldStays ==
  ASSUME overrides \subseteq overrides',
         \A i \in intents : \E k \in intents' : Identity(k) = Identity(i) /\ k.quantity = i.quantity,
         NEW p, NEW j, Told(p, j)
  PROVE  Told(p, j)'
<1>1. Behind(j) => Behind(j)' BY DEF Behind
<1>2. Present(j) => Present(j)' BY DEF Present, Identity
<1> QED BY <1>1, <1>2 DEF Told

\* A request moves on and writes nothing.
LEMMA Moves ==
  ASSUME IInv, NEW r \in Requests, NEW p, NEW j, Goto(r, p, j), UNCHANGED Rows,
         Told(p, j),
         p = "commit" /\ j.op = "override" =>
           /\ \A o \in overrides : o.token # j.token
           /\ \A q \in Requests \ {r} : Draft(q, "override") => job[q].token # j.token,
         p = "commit" /\ j.op = "intent" =>
           /\ \A i \in intents : Identity(i) # Identity(j)
           /\ \A q \in Requests \ {r} : Draft(q, "intent") => Identity(job[q]) # Identity(j)
  PROVE  IInv'
<1> USE DEF IInv
<1>1. overrides' = overrides /\ intents' = intents BY DEF Rows
<1>2. /\ pc'[r] = p /\ job'[r] = j
      /\ \A q \in Requests \ {r} : pc'[q] = pc[q] /\ job'[q] = job[q]
  BY DEF Goto, Shape
<1>3. Shape' BY <1>1 DEF Goto, Shape
<1>4. UniqueOverride' BY <1>1, <1>2 DEF UniqueOverride, Draft
<1>5. UniqueIntent'
  <2>1. \A i, k \in intents' : Identity(i) = Identity(k) => i = k BY <1>1 DEF UniqueIntent
  <2>2. ASSUME NEW x \in Requests, Draft(x, "intent")'
        PROVE  /\ \A i \in intents' : Identity(i) # Identity(job'[x])
               /\ \A q \in Requests \ {x} : Draft(q, "intent")' => Identity(job'[q]) # Identity(job'[x])
    BY <1>1, <1>2, <2>2 DEF UniqueIntent, Draft
  <2>3. \A x \in Requests : Draft(x, "intent")' =>
               /\ \A i \in intents' : Identity(i) # Identity(job'[x])
               /\ \A q \in Requests \ {x} : Draft(q, "intent")' => Identity(job'[q]) # Identity(job'[x])
    BY <2>2
  <2> QED BY <2>1, <2>3 DEF UniqueIntent, Identity
<1>6. \A i \in intents' : Behind(i)' BY <1>1 DEF Behind
<1>7. ASSUME NEW q \in Requests PROVE Told(pc[q], job[q])'
  <2>1. \A x, y : Told(x, y) => Told(x, y)' BY <1>1, ToldStays
  <2> QED BY <1>2, <2>1
<1> QED BY <1>3, <1>4, <1>5, <1>6, <1>7

\* A request that is refused leaves the invariant (every early return of the handlers).
LEMMA Rejects ==
  ASSUME IInv, NEW r \in Requests, Reject(r)
  PROVE  IInv'
<1>1. Goto(r, "new", NoJob) /\ UNCHANGED Rows BY DEF Reject
<1>2. Told("new", NoJob) BY DEF Told, NoJob, None
<1> QED BY <1>1, <1>2, Moves

-----------------------------------------------------------------------------
\* The owner applies a preview: what was checked is kept for the look at the key.
LEMMA AsksOverride ==
  ASSUME IInv, NEW r \in Requests, NEW t, NEW k, AskOverride(r, t, k)
  PROVE  IInv'
<1> DEFINE j == [op |-> "override", token |-> t, key |-> k]
<1>1. CASE Reject(r) BY <1>1, Rejects
<1>2. CASE Goto(r, "checked", j) /\ UNCHANGED Rows
  <2>1. Told("checked", j) BY DEF Told
  <2> HIDE DEF j
  <2> QED BY <1>2, <2>1, Moves
<1> QED BY <1>1, <1>2 DEF AskOverride

\* A row that is there already is answered if it is the same override, and nothing else is.
LEMMA Replays ==
  ASSUME IInv, NEW r \in Requests, NEW o \in overrides, ReplayOverride(r, o)
  PROVE  IInv'
<1> DEFINE j == [op |-> "replay", token |-> job[r].token, key |-> job[r].key, got |-> o]
<1>1. CASE Reject(r) BY <1>1, Rejects
<1>2. CASE o.token = job[r].token /\ Goto(r, "commit", j) /\ UNCHANGED Rows
  <2>1. j.op = "replay" /\ Told("commit", j) BY <1>2 DEF Told
  <2> HIDE DEF j
  <2> QED BY <1>2, <2>1, Moves
<1> QED BY <1>1, <1>2 DEF ReplayOverride

\* After the look at the key the request knows no more than before, or has its answer.
LEMMA LooksUpKey ==
  ASSUME IInv, NEW r \in Requests, LookUpKey(r)
  PROVE  IInv'
<1> DEFINE j == [op |-> "override", token |-> job[r].token, key |-> job[r].key, mode |-> mode]
<1>1. CASE UNCHANGED Rows /\ Goto(r, "insert", j)
  <2>1. Told("insert", j) BY DEF Told
  <2> HIDE DEF j
  <2> QED BY <1>1, <2>1, Moves
<1>2. CASE \E o \in Bound(job[r].key) : ReplayOverride(r, o) BY <1>2, Replays DEF Bound
<1> QED BY <1>1, <1>2 DEF LookUpKey

\* The insert of an override ends with a token no committed or waiting row has, or with the row
\* that is there.
LEMMA InsertsOverride ==
  ASSUME IInv, NEW r \in Requests, InsertOverride(r)
  PROVE  IInv'
<1>1. CASE \E o \in overrides : ReplayOverride(r, o) BY <1>1, Replays
<1>2. CASE /\ \A o \in overrides : ~Clash(o, job[r].token, job[r].key)
           /\ Goto(r, "commit", job[r]) /\ UNCHANGED Rows
  <2>1. job[r].op = "override" BY DEF InsertOverride
  <2>2. Told("commit", job[r]) BY <2>1 DEF Told
  <2>3. \A o \in overrides : o.token # job[r].token BY <1>2 DEF Clash
  <2>4. \A q \in Requests \ {r} : Draft(q, "override") => job[q].token # job[r].token
    BY DEF InsertOverride, Drafts, Clash, Draft
  <2> QED BY <1>2, <2>1, <2>2, <2>3, <2>4, Moves
<1> QED BY <1>1, <1>2 DEF InsertOverride

\* The plan of an intent is compared with the override it names before anything is written.
LEMMA AsksIntent ==
  ASSUME IInv, NEW r \in Requests, NEW named \in Names({o.token : o \in overrides}), NEW q, NEW s,
         AskIntent(r, named, q, s)
  PROVE  IInv'
<1> DEFINE j == [op |-> "intent", override |-> named, quantity |-> q, snapshot |-> s, mode |-> mode]
<1>1. CASE Reject(r) BY <1>1, Rejects
<1>2. CASE /\ \A t \in named : \E o \in overrides : o.token = t /\ Backed(o, q, s, mode)
           /\ Goto(r, "insert", j) /\ UNCHANGED Rows
  <2>1. named = {} \/ \E t : named = {t} BY DEF Names
  <2>2. named = {} \/ \E o \in overrides : /\ {o.token} = named /\ o.mode = mode
                                           /\ o.token.snapshot = s /\ o.token.quantity = q
    BY <1>2, <2>1 DEF Backed
  <2>3. Behind(j) BY <2>2 DEF Behind
  <2>4. j.op = "intent" /\ IsPlan(j) BY DEF IsPlan
  <2> HIDE DEF j
  <2>5. Told("insert", j) BY <2>3, <2>4 DEF Told
  <2> QED BY <1>2, <2>5, Moves
<1> QED BY <1>1, <1>2 DEF AskIntent

\* The insert of an intent ends with an identity no committed or waiting row has, or with the row
\* that is there.
LEMMA InsertsIntent ==
  ASSUME IInv, NEW r \in Requests, InsertIntent(r)
  PROVE  IInv'
<1>1. CASE Reject(r) BY <1>1, Rejects
<1>2. job[r].op = "intent" /\ Told(pc[r], job[r]) BY DEF InsertIntent, IInv
<1>3. CASE /\ \A i \in intents : Identity(i) # Identity(job[r])
           /\ Goto(r, "commit", job[r]) /\ UNCHANGED Rows
  <2>1. Told("commit", job[r]) BY <1>2 DEF Told
  <2>2. \A q \in Requests \ {r} : Draft(q, "intent") => Identity(job[q]) # Identity(job[r])
    BY DEF InsertIntent, Drafts, Draft
  <2> QED BY <1>2, <1>3, <2>1, <2>2, Moves
<1>4. CASE /\ \E i \in intents : Identity(i) = Identity(job[r]) /\ SamePlan(i, job[r])
           /\ Goto(r, "count", job[r]) /\ UNCHANGED Rows
  <2>1. Told("count", job[r]) BY <1>2, <1>4 DEF Told, Present, SamePlan
  <2> QED BY <1>4, <2>1, Moves
<1> QED BY <1>1, <1>3, <1>4 DEF InsertIntent

\* Who is about to count a suppressed retry has found the intent with its own plan.
LEMMA CountsDuplicate ==
  ASSUME IInv, NEW r \in Requests, CountDuplicate(r)
  PROVE  IInv'
<1> DEFINE j == [job[r] EXCEPT !.op = "duplicate"]
<1>1. pc[r] = "count" /\ Goto(r, "commit", j) /\ UNCHANGED Rows BY DEF CountDuplicate
<1>2. Told("count", job[r]) BY <1>1 DEF IInv
<1>3. IsPlan(job[r]) /\ Present(job[r]) BY <1>2 DEF Told
<1>4. /\ j.op = "duplicate" /\ j.mode = job[r].mode /\ j.snapshot = job[r].snapshot
      /\ j.override = job[r].override /\ j.quantity = job[r].quantity
  BY <1>3 DEF IsPlan
<1> HIDE DEF j
<1>5. Told("commit", j) BY <1>3, <1>4 DEF Told, Present, Identity
<1> QED BY <1>1, <1>4, <1>5, Moves

-----------------------------------------------------------------------------
\* Counting a retry changes nothing else of the row.
LEMMA CountedSame ==
  ASSUME NEW i, NEW j, IsIntent(i)
  PROVE  LET k == Counted(i, j) IN
         /\ IsIntent(k) /\ k.mode = i.mode /\ k.snapshot = i.snapshot /\ k.override = i.override
         /\ k.quantity = i.quantity
BY DEF Counted, IsIntent

\* A commit, the rows it leaves given.
LEMMA Commits ==
  ASSUME IInv, NEW r \in Requests, Commit(r), overrides \subseteq overrides',
         \A i \in intents : \E k \in intents' : Identity(k) = Identity(i) /\ k.quantity = i.quantity,
         \A i \in intents' : IsIntent(i),
         UniqueOverride', UniqueIntent', \A i \in intents' : Behind(i)',
         Told("done", job[r])'
  PROVE  IInv'
<1>1. pc' = [pc EXCEPT ![r] = "done"] /\ job' = job BY DEF Commit
<1>2. pc'[r] = "done" /\ \A q \in Requests \ {r} : pc'[q] = pc[q] BY <1>1 DEF IInv, Shape
<1>3. Shape' BY <1>1 DEF IInv, Shape, IsIntent
<1>4. ASSUME NEW q \in Requests PROVE Told(pc[q], job[q])'
  <2>1. CASE q = r BY <1>1, <1>2, <2>1 DEF Told, Behind, Present, Identity
  <2>2. CASE q # r
    <3>1. Told(pc[q], job[q]) BY DEF IInv
    <3>2. \A p, j : Told(p, j) => Told(p, j)' BY ToldStays
    <3> QED BY <1>1, <1>2, <2>2, <3>1, <3>2
  <2> QED BY <2>1, <2>2
<1> QED BY <1>3, <1>4 DEF IInv

\* The commit of an override keeps its token unique.
LEMMA CommitsOverride ==
  ASSUME IInv, NEW r \in Requests, Commit(r), job[r].op = "override"
  PROVE  IInv'
<1> DEFINE o == [token |-> job[r].token, key |-> job[r].key, mode |-> job[r].mode]
<1>1. /\ overrides' = overrides \cup {o} /\ intents' = intents /\ pc[r] = "commit"
      /\ job' = job /\ \A q \in Requests \ {r} : pc'[q] = pc[q]
      /\ pc'[r] = "done"
  BY DEF Commit, IInv, Shape
<1>2. o.token = job[r].token /\ o.key = job[r].key OBVIOUS
<1> HIDE DEF o
<1>3. Draft(r, "override") BY <1>1 DEF Draft
<1>4. UniqueOverride'
  <2>1. \A x, y \in overrides' : x.token = y.token => x = y
    BY <1>1, <1>2, <1>3 DEF IInv, UniqueOverride
  <2>2. ASSUME NEW x \in Requests, Draft(x, "override")'
        PROVE  /\ \A y \in overrides' : y.token # job'[x].token
               /\ \A q \in Requests \ {x} : Draft(q, "override")' => job'[q].token # job'[x].token
    <3>1. x # r /\ Draft(x, "override") BY <1>1, <2>2 DEF Draft
    <3>2. \A q \in Requests : Draft(q, "override")' => Draft(q, "override") BY <1>1 DEF Draft
    <3> QED BY <1>1, <1>2, <1>3, <3>1, <3>2 DEF IInv, UniqueOverride
  <2> QED BY <2>1, <2>2 DEF UniqueOverride
<1>5. UniqueIntent'
  <2>1. \A q \in Requests : Draft(q, "intent")' => Draft(q, "intent") BY <1>1 DEF Draft
  <2> QED BY <1>1, <2>1 DEF IInv, UniqueIntent, Identity
<1>6. \A i \in intents' : Behind(i)' BY <1>1 DEF IInv, Behind
<1>7. Told("done", job[r])' BY <1>1, <1>2 DEF Told
<1>8. \A i \in intents' : IsIntent(i) BY <1>1 DEF IInv, Shape
<1> QED BY <1>1, <1>4, <1>5, <1>6, <1>7, <1>8, Commits

\* The commit of an intent keeps its identity unique, and it is backed as its plan was.
LEMMA CommitsIntent ==
  ASSUME IInv, NEW r \in Requests, Commit(r), job[r].op = "intent"
  PROVE  IInv'
<1> DEFINE i == [mode |-> job[r].mode, snapshot |-> job[r].snapshot, override |-> job[r].override,
                 quantity |-> job[r].quantity, count |-> 0]
<1>1. /\ overrides' = overrides /\ intents' = intents \cup {i} /\ pc[r] = "commit"
      /\ job' = job /\ \A q \in Requests \ {r} : pc'[q] = pc[q]
      /\ pc'[r] = "done"
  BY DEF Commit, IInv, Shape
<1>2. /\ IsIntent(i) /\ Identity(i) = Identity(job[r]) /\ i.quantity = job[r].quantity
      /\ i.mode = job[r].mode /\ i.snapshot = job[r].snapshot /\ i.override = job[r].override
  BY DEF IsIntent, Identity
<1> HIDE DEF i
<1>3. Draft(r, "intent") /\ Told("commit", job[r]) BY <1>1 DEF Draft, IInv
<1>4. UniqueOverride'
  <2>1. \A q \in Requests : Draft(q, "override")' => Draft(q, "override") BY <1>1 DEF Draft
  <2> QED BY <1>1, <2>1 DEF IInv, UniqueOverride
<1>5. UniqueIntent'
  <2>1. \A x, y \in intents' : Identity(x) = Identity(y) => x = y
    BY <1>1, <1>2, <1>3 DEF IInv, UniqueIntent
  <2>2. ASSUME NEW x \in Requests, Draft(x, "intent")'
        PROVE  /\ \A y \in intents' : Identity(y) # Identity(job[x])
               /\ \A q \in Requests \ {x} : Draft(q, "intent")' => Identity(job[q]) # Identity(job[x])
    <3>1. x # r /\ Draft(x, "intent") BY <1>1, <2>2 DEF Draft
    <3>2. \A q \in Requests : Draft(q, "intent")' => Draft(q, "intent") BY <1>1 DEF Draft
    <3> QED BY <1>1, <1>2, <1>3, <3>1, <3>2 DEF IInv, UniqueIntent
  <2> QED BY <1>1, <2>1, <2>2 DEF UniqueIntent, Identity
<1>6. \A x \in intents' : Behind(x)'
  <2>1. Behind(job[r]) BY <1>3 DEF Told
  <2>2. Behind(i) BY <1>2, <2>1 DEF Behind
  <2> QED BY <1>1, <2>2 DEF IInv, Behind
<1>7. Told("done", job[r])'
  <2>1. Told("done", job[r])' = (/\ IsPlan(job[r]) /\ Behind(job[r])' /\ Present(job[r])')
    BY <1>1 DEF Told, Behind, Present, Identity, IsPlan
  <2>2. IsPlan(job[r]) /\ Behind(job[r]) BY <1>3 DEF Told
  <2>3. Behind(job[r])' BY <1>1, <2>2 DEF Behind
  <2>4. Present(job[r])' BY <1>1, <1>2 DEF Present, Identity
  <2> QED BY <2>1, <2>2, <2>3, <2>4
<1>8. \A x \in intents' : IsIntent(x) BY <1>1, <1>2 DEF IInv, Shape
<1>9. intents \subseteq intents' BY <1>1
<1> QED BY <1>1, <1>4, <1>5, <1>6, <1>7, <1>8, <1>9, Commits

\* The commit of a suppressed retry changes no identity and no plan.
LEMMA CommitsDuplicate ==
  ASSUME IInv, NEW r \in Requests, Commit(r), job[r].op = "duplicate"
  PROVE  IInv'
<1> DEFINE C(i) == Counted(i, job[r])
<1>1. /\ overrides' = overrides /\ intents' = {C(i) : i \in intents} /\ pc[r] = "commit"
      /\ job' = job /\ \A q \in Requests \ {r} : pc'[q] = pc[q]
      /\ pc'[r] = "done"
  BY DEF Commit, IInv, Shape
<1>2. \A i \in intents : /\ IsIntent(C(i)) /\ Identity(C(i)) = Identity(i)
                         /\ C(i).quantity = i.quantity /\ C(i).mode = i.mode
                         /\ C(i).snapshot = i.snapshot /\ C(i).override = i.override
  BY CountedSame DEF IInv, Shape, Identity
<1> HIDE DEF C
<1>3. \A q \in Requests, op \in {"override", "intent"} : Draft(q, op)' => Draft(q, op)
  BY <1>1 DEF Draft
<1>4. UniqueOverride' BY <1>1, <1>3 DEF IInv, UniqueOverride
<1>5. UniqueIntent'
  <2>1. \A x, y \in intents' : Identity(x) = Identity(y) => x = y
    BY <1>1, <1>2 DEF IInv, UniqueIntent
  <2>2. ASSUME NEW x \in Requests, Draft(x, "intent")'
        PROVE  /\ \A y \in intents' : Identity(y) # Identity(job[x])
               /\ \A q \in Requests \ {x} : Draft(q, "intent")' => Identity(job[q]) # Identity(job[x])
    BY <1>1, <1>2, <1>3, <2>2 DEF IInv, UniqueIntent
  <2> QED BY <1>1, <2>1, <2>2 DEF UniqueIntent, Identity
<1>6. \A x \in intents' : Behind(x)' BY <1>1, <1>2 DEF IInv, Behind
<1>7. \A i \in intents : \E k \in intents' : Identity(k) = Identity(i) /\ k.quantity = i.quantity
  BY <1>1, <1>2
<1>8. Told("done", job[r])'
  <2>1. Present(job[r]) BY <1>1 DEF IInv, Told
  <2>2. Told("done", job[r]) BY <2>1 DEF Told
  <2>3. \A p, j : Told(p, j) => Told(p, j)' BY <1>1, <1>7, ToldStays
  <2> QED BY <1>1, <2>2, <2>3
<1>9. \A x \in intents' : IsIntent(x) BY <1>1, <1>2
<1> QED BY <1>1, <1>4, <1>5, <1>6, <1>7, <1>8, <1>9, Commits

\* The commit of an answer writes nothing.
LEMMA CommitsReplay ==
  ASSUME IInv, NEW r \in Requests, Commit(r), job[r].op = "replay"
  PROVE  IInv'
<1>1. /\ overrides' = overrides /\ intents' = intents /\ pc[r] = "commit"
      /\ job' = job /\ \A q \in Requests \ {r} : pc'[q] = pc[q]
      /\ pc'[r] = "done"
  BY DEF Commit, IInv, Shape
<1>2. \A q \in Requests, op \in {"override", "intent"} : Draft(q, op)' => Draft(q, op)
  BY <1>1 DEF Draft
<1>3. UniqueOverride' BY <1>1, <1>2 DEF IInv, UniqueOverride
<1>4. UniqueIntent' BY <1>1, <1>2 DEF IInv, UniqueIntent, Identity
<1>5. \A x \in intents' : Behind(x)' BY <1>1 DEF IInv, Behind
<1>6. Told("commit", job[r]) BY <1>1 DEF IInv
<1>7. Told("done", job[r])' BY <1>1, <1>6 DEF Told
<1>8. \A x \in intents' : IsIntent(x) BY <1>1 DEF IInv, Shape
<1> QED BY <1>1, <1>3, <1>4, <1>5, <1>7, <1>8, Commits

-----------------------------------------------------------------------------
\* Every step of the creation of intents preserves the invariant.
LEMMA Step ==
  ASSUME IInv, [Next]_vars
  PROVE  IInv'
<1>1. ASSUME UNCHANGED <<overrides, intents, pc, job>> PROVE IInv'
  <2>1. Shape' /\ UniqueOverride' BY <1>1 DEF IInv, Shape, UniqueOverride, Draft
  <2>2. UniqueIntent' BY <1>1 DEF IInv, UniqueIntent, Draft, Identity
  <2>3. \A i \in intents' : Behind(i)' BY <1>1 DEF IInv, Behind
  <2>4. ASSUME NEW q \in Requests PROVE Told(pc[q], job[q])'
    <3>1. Told(pc[q], job[q]) BY DEF IInv
    <3>2. \A p, j : Told(p, j) => Told(p, j)' BY <1>1, ToldStays
    <3> QED BY <1>1, <3>1, <3>2
  <2> QED BY <2>1, <2>2, <2>3, <2>4 DEF IInv
<1>2. CASE UNCHANGED vars BY <1>1, <1>2 DEF vars
<1>3. CASE ChangeMode \/ Revalue \/ Tick \/ \E q \in 2..MaxQuantity : Preview(q)
  BY <1>1, <1>3 DEF ChangeMode, Revalue, Tick, Preview
<1>4. ASSUME NEW r \in Requests, NEW t, NEW k, AskOverride(r, t, k) PROVE IInv'
  BY <1>4, AsksOverride
<1>5. ASSUME NEW r \in Requests, LookUpKey(r) \/ InsertOverride(r) PROVE IInv'
  BY <1>5, LooksUpKey, InsertsOverride
<1>6. ASSUME NEW r \in Requests, NEW named \in Names({o.token : o \in overrides}), NEW q, NEW s,
             AskIntent(r, named, q, s)
      PROVE  IInv'
  BY <1>6, AsksIntent
<1>7. ASSUME NEW r \in Requests, InsertIntent(r) \/ CountDuplicate(r) \/ Fail(r) PROVE IInv'
  BY <1>7, InsertsIntent, CountsDuplicate, Rejects DEF Fail
<1>8. ASSUME NEW r \in Requests, Commit(r) PROVE IInv'
  <2>1. Told(pc[r], job[r]) /\ pc[r] = "commit" BY <1>8 DEF IInv, Commit
  <2>2. job[r].op \in {"override", "replay", "intent", "duplicate"} BY <2>1 DEF Told
  <2> QED BY <1>8, <2>2, CommitsOverride, CommitsIntent, CommitsDuplicate, CommitsReplay
<1> QED BY <1>2, <1>3, <1>4, <1>5, <1>6, <1>7, <1>8 DEF Next

\* What the invariant says of overrides, intents and answers is what the runs check.
LEMMA Consequences == IInv => OverrideBacksOneIntent /\ AnswersStand
<1> SUFFICES ASSUME IInv PROVE OverrideBacksOneIntent /\ AnswersStand OBVIOUS
<1>1. ASSUME NEW i \in intents, i.override # {}
      PROVE  /\ \E o \in overrides : /\ {o.token} = i.override /\ o.mode = i.mode
                                      /\ o.token.snapshot = i.snapshot /\ o.token.quantity = i.quantity
             /\ \A k \in intents : k.override = i.override => k = i
  <2>1. Behind(i) BY DEF IInv
  <2>2. PICK o \in overrides : /\ {o.token} = i.override /\ o.mode = i.mode
                              /\ o.token.snapshot = i.snapshot /\ o.token.quantity = i.quantity
    BY <1>1, <2>1 DEF Behind
  <2>3. ASSUME NEW k \in intents, k.override = i.override PROVE k = i
    <3>1. Behind(k) BY DEF IInv
    <3>2. PICK p \in overrides : /\ {p.token} = k.override /\ p.mode = k.mode
                                /\ p.token.snapshot = k.snapshot
      BY <1>1, <2>3, <3>1 DEF Behind
    <3>3. {o.token} = {p.token} BY <2>2, <2>3, <3>2
    <3>4. o.token = p.token BY <3>3
    <3>5. o = p BY <3>4 DEF IInv, UniqueOverride
    <3>6. Identity(k) = Identity(i) BY <2>2, <2>3, <3>2, <3>5 DEF Identity
    <3> QED BY <3>6 DEF IInv, UniqueIntent
  <2> QED BY <2>2, <2>3
<1>2. OverrideBacksOneIntent BY <1>1 DEF OverrideBacksOneIntent
<1>3. ASSUME NEW r \in Requests, pc[r] = "done"
      PROVE  CASE job[r].op = "override" ->
                    \E o \in overrides : o.token = job[r].token /\ o.key = job[r].key
               [] job[r].op = "replay" -> job[r].got \in overrides /\ job[r].got.token = job[r].token
               [] OTHER -> Present(job[r])
  <2>1. Told("done", job[r]) BY <1>3 DEF IInv
  <2> QED BY <2>1 DEF Told
<1>4. AnswersStand BY <1>3 DEF AnswersStand, Present
<1> QED BY <1>2, <1>4

\* An override increases the risk of one intent, of exactly the plan, snapshot and mode that were
\* confirmed, with any number of requests at once and the mode changing between their statements.
THEOREM OneIntentByOverride == Spec => []OverrideBacksOneIntent
<1> QED BY Initial, Step, Consequences, PTL DEF Spec

\* What a request was told about an override or an intent is what the committed rows say.
THEOREM AnswersStandAlways == Spec => []AnswersStand
<1> QED BY Initial, Step, Consequences, PTL DEF Spec

-----------------------------------------------------------------------------
\* The requests that were answered with an intent of identity d that was there.
Retries(d) == {r \in Requests : pc[r] = "done" /\ job[r].op = "duplicate" /\ Identity(job[r]) = d}
Counts == \A i \in intents : i.count = Cardinality(Retries(Identity(i)))

\* Finitely many requests were answered with one intent.
LEMMA RetriesFinite ==
  ASSUME NEW d PROVE IsFiniteSet(Retries(d)) /\ Cardinality(Retries(d)) \in Nat
<1>1. Retries(d) \subseteq Requests BY DEF Retries
<1> QED BY <1>1, FiniteAssumption, FS_Subset, FS_CardinalityType

\* Counts is the property the runs check, over the identities.
LEMMA CountsMeansSo == Counts <=> CountIsSuppressedRetries
BY DEF Counts, CountIsSuppressedRetries, Retries

\* Not a commit: the request was not answered and is not now.
Unanswered(r) ==
  \E p, j : p # "done" /\ pc[r] # "done" /\ Goto(r, p, j) /\ UNCHANGED Rows

\* A step of a request that was not answered and is not now changes no count.
LEMMA UnansweredCounts ==
  ASSUME IInv, Counts, NEW r \in Requests, Unanswered(r)
  PROVE  Counts'
<1>1. PICK p, j : p # "done" /\ pc[r] # "done" /\ Goto(r, p, j) /\ UNCHANGED Rows
  BY DEF Unanswered
<1>2. /\ pc'[r] # "done"
      /\ \A q \in Requests \ {r} : pc'[q] = pc[q] /\ job'[q] = job[q]
  BY <1>1 DEF Goto, IInv, Shape
<1>3. ASSUME NEW d PROVE Retries(d)' = Retries(d)
  BY <1>1, <1>2 DEF Retries, Identity
<1>4. \A i : Retries(Identity(i))' = Retries(Identity(i)) BY <1>3 DEF Identity
<1> QED BY <1>1, <1>4 DEF Counts, Rows

\* A refusal answers nobody.
LEMMA RejectsUnanswered ==
  ASSUME NEW r \in Requests, pc[r] # "done", Reject(r) PROVE Unanswered(r)
BY DEF Reject, Unanswered

\* A row that is found answers nobody before the commit.
LEMMA ReplaysUnanswered ==
  ASSUME NEW r \in Requests, pc[r] # "done", NEW o, ReplayOverride(r, o) PROVE Unanswered(r)
BY RejectsUnanswered DEF ReplayOverride, Unanswered

\* Every statement of a request but the commit leaves it unanswered.
LEMMA RequestsUnanswered ==
  ASSUME NEW r \in Requests,
         \/ \E t, k : AskOverride(r, t, k)
         \/ LookUpKey(r) \/ InsertOverride(r)
         \/ \E named, q, s : AskIntent(r, named, q, s)
         \/ InsertIntent(r) \/ CountDuplicate(r) \/ Fail(r)
  PROVE  Unanswered(r)
<1>1. ASSUME NEW t, NEW k, AskOverride(r, t, k) PROVE Unanswered(r)
  BY <1>1, RejectsUnanswered DEF AskOverride, Unanswered
<1>2. CASE LookUpKey(r) BY <1>2, ReplaysUnanswered DEF LookUpKey, Unanswered
<1>3. CASE InsertOverride(r) BY <1>3, ReplaysUnanswered DEF InsertOverride, Unanswered
<1>4. ASSUME NEW named, NEW q, NEW s, AskIntent(r, named, q, s) PROVE Unanswered(r)
  BY <1>4, RejectsUnanswered DEF AskIntent, Unanswered
<1>5. CASE InsertIntent(r) BY <1>5, RejectsUnanswered DEF InsertIntent, Unanswered
<1>6. CASE CountDuplicate(r) BY <1>6 DEF CountDuplicate, Unanswered
<1>7. CASE Fail(r) BY <1>7, RejectsUnanswered DEF Fail
<1> QED BY <1>1, <1>2, <1>3, <1>4, <1>5, <1>6, <1>7

\* A commit adds to the count of the one intent whose retry it is, as the row is locked from the
\* UPDATE to the commit; a new intent has none.
LEMMA CommitsCount ==
  ASSUME IInv, Counts, NEW r \in Requests, Commit(r)
  PROVE  Counts'
<1>1. /\ pc[r] = "commit" /\ pc'[r] = "done" /\ job' = job
      /\ \A q \in Requests \ {r} : pc'[q] = pc[q]
  BY DEF Commit, IInv, Shape
<1>2. job[r].op \in {"override", "replay", "intent", "duplicate"}
  <2>1. Told("commit", job[r]) BY <1>1 DEF IInv
  <2> QED BY <2>1 DEF Told
<1>3. CASE job[r].op \in {"override", "replay"}
  <2>1. intents' = intents BY <1>3 DEF Commit
  <2>2. ASSUME NEW i PROVE Retries(Identity(i))' = Retries(Identity(i))
    BY <1>1, <1>3 DEF Retries, Identity
  <2> QED BY <2>1, <2>2 DEF Counts
<1>4. CASE job[r].op = "intent"
  <2> DEFINE n == [mode |-> job[r].mode, snapshot |-> job[r].snapshot, override |-> job[r].override,
                   quantity |-> job[r].quantity, count |-> 0]
  <2>1. intents' = intents \cup {n} BY <1>4 DEF Commit
  <2>2. n.count = 0 /\ Identity(n) = Identity(job[r]) BY DEF Identity
  <2> HIDE DEF n
  <2>3. \A i : Retries(Identity(i))' = Retries(Identity(i))
    BY <1>1, <1>4 DEF Retries, Identity
  <2>4. Retries(Identity(n)) = {}
    <3>1. ASSUME NEW q \in Retries(Identity(n)) PROVE FALSE
      <4>1. q \in Requests /\ Told("done", job[q]) /\ job[q].op = "duplicate"
            /\ Identity(job[q]) = Identity(job[r])
        BY <2>2 DEF Retries, IInv
      <4>2. \E i \in intents : Identity(i) = Identity(job[r]) BY <4>1 DEF Told, Present
      <4>3. Draft(r, "intent") BY <1>1, <1>4 DEF Draft
      <4> QED BY <4>2, <4>3 DEF IInv, UniqueIntent
    <3> QED BY <3>1
  <2>5. n.count = Cardinality(Retries(Identity(n))) BY <2>2, <2>4, FS_EmptySet
  <2> QED BY <2>1, <2>3, <2>5 DEF Counts
<1>5. CASE job[r].op = "duplicate"
  <2> DEFINE d == Identity(job[r])
  <2>1. intents' = {Counted(i, job[r]) : i \in intents} BY <1>5 DEF Commit
  <2>2. ASSUME NEW i \in intents, NEW k, k = Counted(i, job[r])
        PROVE  k.count = Cardinality(Retries(Identity(k))')
    <3>1. IsIntent(i) /\ i.count = Cardinality(Retries(Identity(i))) BY DEF IInv, Shape, Counts
    <3>2. Identity(k) = Identity(i) BY <2>2, <3>1, CountedSame DEF Identity
    <3>3. CASE Identity(i) = d
      <4>1. k.count = i.count + 1 BY <2>2, <3>1, <3>3 DEF Counted, IsIntent
      <4>2. r \notin Retries(d) BY <1>1 DEF Retries
      <4>3. Retries(Identity(k))' = Retries(d) \cup {r}
        BY <1>1, <1>5, <3>2, <3>3 DEF Retries, Identity
      <4>4. Cardinality(Retries(d) \cup {r}) = Cardinality(Retries(d)) + 1
        BY <4>2, RetriesFinite, FS_AddElement
      <4> QED BY <3>1, <3>3, <4>1, <4>3, <4>4
    <3>4. CASE Identity(i) # d
      <4>1. k = i BY <2>2, <3>4 DEF Counted
      <4>2. Retries(Identity(i))' = Retries(Identity(i))
        BY <1>1, <3>4 DEF Retries, Identity
      <4> QED BY <3>1, <4>1, <4>2
    <3> QED BY <3>3, <3>4
  <2> QED BY <2>1, <2>2 DEF Counts, Identity
<1> QED BY <1>2, <1>3, <1>4, <1>5

\* Nothing is counted at first.
LEMMA CountsInitially == Init => Counts
BY DEF Init, Counts

\* Every step keeps the count of every intent equal to the number of its retries.
LEMMA CountsStay ==
  ASSUME IInv, Counts, [Next]_vars
  PROVE  Counts'
<1>1. CASE UNCHANGED <<intents, pc, job>>
  <2>1. ASSUME NEW i PROVE Retries(Identity(i))' = Retries(Identity(i))
    BY <1>1 DEF Retries, Identity
  <2> QED BY <1>1, <2>1 DEF Counts
<1>2. CASE UNCHANGED vars BY <1>1, <1>2 DEF vars
<1>3. CASE ChangeMode \/ Revalue \/ Tick \/ \E q \in 2..MaxQuantity : Preview(q)
  BY <1>1, <1>3 DEF ChangeMode, Revalue, Tick, Preview
<1>4. ASSUME NEW r \in Requests, Unanswered(r) PROVE Counts' BY <1>4, UnansweredCounts
<1>5. ASSUME NEW r \in Requests, Commit(r) PROVE Counts' BY <1>5, CommitsCount
<1> QED BY <1>2, <1>3, <1>4, <1>5, RequestsUnanswered DEF Next

\* duplicate_prevention_count is the number of requests that were answered with the intent of
\* another, with any number of them at once (_count_duplicate_prevention).
THEOREM CountsSuppressed == Spec => []CountIsSuppressedRetries
<1>1. Init => IInv /\ Counts BY Initial, CountsInitially
<1>2. (IInv /\ Counts) /\ [Next]_vars => (IInv /\ Counts)' BY Step, CountsStay
<1>3. IInv /\ Counts => CountIsSuppressedRetries BY CountsMeansSo
<1> QED BY <1>1, <1>2, <1>3, PTL DEF Spec

-----------------------------------------------------------------------------
\* What the type invariant says of a request at p with job j.
JobOK(p, j) ==
  CASE p = "new" -> j = NoJob
    [] p = "checked" -> j.token \in Tokens /\ j.key \in Keys
    [] OTHER -> \/ j.op = "override" /\ j.token \in Tokens /\ j.key \in Keys /\ j.mode \in Modes
                \/ j.op = "replay" /\ j.token \in Tokens /\ j.got \in Overrides
                \/ /\ j.op \in {"intent", "duplicate"} /\ Identity(j) \in Identities
                   /\ j.quantity \in 1..MaxQuantity

Stages == {"new", "checked", "insert", "count", "commit", "done"}
WorldOK == mode \in Modes /\ snapshot \in Snapshots /\ now \in 1..MaxNow /\ tokens \subseteq Tokens
RowsOK == overrides \subseteq Overrides /\ intents \subseteq Intents

\* The type invariant, by the world, the rows and the requests.
LEMMA TypeMeans ==
  TypeOK <=> WorldOK /\ RowsOK /\ pc \in [Requests -> Stages] /\ \A r \in Requests : JobOK(pc[r], job[r])
BY DEF TypeOK, WorldOK, RowsOK, Stages, JobOK

\* The same of the state after a step.
LEMMA TypeMeansNext ==
  WorldOK' /\ RowsOK' /\ pc' \in [Requests -> Stages] /\ (\A r \in Requests : JobOK(pc[r], job[r])')
  => TypeOK'
BY DEF TypeOK, WorldOK, RowsOK, Stages, JobOK

\* The first state is well formed.
LEMMA TypedInitially == Init => TypeOK
<1> SUFFICES ASSUME Init PROVE TypeOK OBVIOUS
<1>1. WorldOK /\ RowsOK BY BoundsAssumption DEF Init, WorldOK, RowsOK, Modes, Snapshots
<1>2. pc \in [Requests -> Stages] /\ \A r \in Requests : JobOK(pc[r], job[r])
  BY DEF Init, Stages, JobOK
<1> QED BY <1>1, <1>2, TypeMeans

\* A request moves on to p with a well formed job, and nothing else changes.
TypedMove(r) == \E p \in Stages : \E j : JobOK(p, j) /\ Goto(r, p, j) /\ UNCHANGED Rows

\* A request that moves on with a well formed job leaves the state well formed.
LEMMA MovesTyped ==
  ASSUME IInv, TypeOK, NEW r \in Requests, TypedMove(r), UNCHANGED World
  PROVE  TypeOK'
<1>0. PICK p \in Stages : \E j : JobOK(p, j) /\ Goto(r, p, j) /\ UNCHANGED Rows BY DEF TypedMove
<1>1. PICK j : JobOK(p, j) /\ Goto(r, p, j) /\ UNCHANGED Rows BY <1>0
<1>2. WorldOK' /\ RowsOK' BY <1>1, TypeMeans DEF WorldOK, RowsOK, World, Rows
<1>3. pc' \in [Requests -> Stages] BY <1>1, TypeMeans DEF Goto
<1>4. ASSUME NEW q \in Requests PROVE JobOK(pc'[q], job'[q])
  <2>1. CASE q = r
    <3>1. pc'[q] = p /\ job'[q] = j BY <1>1, <2>1 DEF Goto, IInv, Shape
    <3> QED BY <1>1, <3>1
  <2>2. CASE q # r
    <3>1. pc'[q] = pc[q] /\ job'[q] = job[q] BY <1>1, <2>2 DEF Goto, IInv, Shape
    <3> QED BY <3>1, TypeMeans
  <2> QED BY <2>1, <2>2
<1>5. \A q \in Requests : JobOK(pc[q], job[q])' BY <1>4 DEF JobOK, Identity
<1> QED BY <1>2, <1>3, <1>5, TypeMeansNext

\* A refusal moves the request back to where it began.
LEMMA RejectsTyped == ASSUME NEW r \in Requests, Reject(r) PROVE TypedMove(r)
<1>1. JobOK("new", NoJob) BY DEF JobOK
<1>2. Goto(r, "new", NoJob) /\ UNCHANGED Rows BY DEF Reject
<1> QED BY <1>1, <1>2 DEF TypedMove, Stages

\* The answer with a row that is there is well formed.
LEMMA ReplaysTyped ==
  ASSUME TypeOK, NEW r \in Requests, job[r].token \in Tokens, NEW o \in overrides, ReplayOverride(r, o)
  PROVE  TypedMove(r)
<1> DEFINE j == [op |-> "replay", token |-> job[r].token, key |-> job[r].key, got |-> o]
<1>1. CASE Reject(r) BY <1>1, RejectsTyped
<1>2. CASE Goto(r, "commit", j) /\ UNCHANGED Rows
  <2>1. JobOK("commit", j) BY DEF JobOK, TypeOK
  <2> HIDE DEF j
  <2> QED BY <1>2, <2>1 DEF TypedMove, Stages
<1> QED BY <1>1, <1>2 DEF ReplayOverride

\* The statements of a request for an override keep its job well formed.
LEMMA OverridesTyped ==
  ASSUME TypeOK, NEW r \in Requests,
         \/ \E t \in tokens, k \in Keys : AskOverride(r, t, k)
         \/ LookUpKey(r) \/ InsertOverride(r)
  PROVE  TypedMove(r)
<1>1. ASSUME NEW t \in tokens, NEW k \in Keys, AskOverride(r, t, k) PROVE TypedMove(r)
  <2> DEFINE j == [op |-> "override", token |-> t, key |-> k]
  <2>1. JobOK("checked", j) BY DEF JobOK, TypeOK
  <2>2. Reject(r) \/ (Goto(r, "checked", j) /\ UNCHANGED Rows) BY <1>1 DEF AskOverride
  <2> HIDE DEF j
  <2> QED BY <2>1, <2>2, RejectsTyped DEF TypedMove, Stages
<1>2. CASE LookUpKey(r)
  <2> DEFINE j == [op |-> "override", token |-> job[r].token, key |-> job[r].key, mode |-> mode]
  <2>1. JobOK(pc[r], job[r]) /\ pc[r] = "checked" BY <1>2, TypeMeans DEF LookUpKey
  <2>2. job[r].token \in Tokens /\ job[r].key \in Keys /\ mode \in Modes
    BY <2>1, TypeMeans DEF JobOK, WorldOK
  <2>3. JobOK("insert", j) BY <2>2 DEF JobOK
  <2>4. \/ Goto(r, "insert", j) /\ UNCHANGED Rows
        \/ \E o \in overrides : ReplayOverride(r, o)
    BY <1>2 DEF LookUpKey, Bound
  <2> HIDE DEF j
  <2> QED BY <2>2, <2>3, <2>4, ReplaysTyped DEF TypedMove, Stages
<1>3. CASE InsertOverride(r)
  <2>1. JobOK(pc[r], job[r]) /\ pc[r] = "insert" /\ job[r].op = "override"
    BY <1>3, TypeMeans DEF InsertOverride
  <2>2. job[r].token \in Tokens /\ JobOK("commit", job[r]) BY <2>1 DEF JobOK
  <2>3. \/ Goto(r, "commit", job[r]) /\ UNCHANGED Rows
        \/ \E o \in overrides : ReplayOverride(r, o)
    BY <1>3 DEF InsertOverride
  <2> QED BY <2>2, <2>3, ReplaysTyped DEF TypedMove, Stages
<1> QED BY <1>1, <1>2, <1>3

\* The statements of a request for an intent keep its job well formed.
LEMMA IntentsTyped ==
  ASSUME IInv, TypeOK, NEW r \in Requests,
         \/ \E named \in Names({o.token : o \in overrides}), q \in 1..MaxQuantity, s \in Snapshots :
              AskIntent(r, named, q, s)
         \/ InsertIntent(r) \/ CountDuplicate(r) \/ Fail(r)
  PROVE  TypedMove(r)
<1>1. ASSUME NEW named \in Names({o.token : o \in overrides}), NEW q \in 1..MaxQuantity,
             NEW s \in Snapshots, AskIntent(r, named, q, s)
      PROVE  TypedMove(r)
  <2> DEFINE j == [op |-> "intent", override |-> named, quantity |-> q, snapshot |-> s, mode |-> mode]
  <2>1. named \in Names(Tokens) /\ mode \in Modes
    <3>1. \A o \in overrides : o.token \in Tokens BY DEF TypeOK, Overrides
    <3> QED BY <3>1 DEF Names, TypeOK
  <2>2. Identity(j) \in Identities BY <2>1 DEF Identity, Identities
  <2>3. j.op = "intent" /\ j.quantity = q OBVIOUS
  <2>4. Reject(r) \/ (Goto(r, "insert", j) /\ UNCHANGED Rows) BY <1>1 DEF AskIntent
  <2> HIDE DEF j
  <2>5. JobOK("insert", j) BY <2>2, <2>3 DEF JobOK
  <2> QED BY <2>4, <2>5, RejectsTyped DEF TypedMove, Stages
<1>2. CASE InsertIntent(r)
  <2>1. JobOK(pc[r], job[r]) /\ pc[r] = "insert" BY <1>2, TypeMeans DEF InsertIntent
  <2>2. JobOK("commit", job[r]) /\ JobOK("count", job[r]) BY <2>1 DEF JobOK
  <2>3. \/ Goto(r, "commit", job[r]) /\ UNCHANGED Rows
        \/ Goto(r, "count", job[r]) /\ UNCHANGED Rows
        \/ Reject(r)
    BY <1>2 DEF InsertIntent
  <2> QED BY <2>2, <2>3, RejectsTyped DEF TypedMove, Stages
<1>3. CASE CountDuplicate(r)
  <2> DEFINE j == [job[r] EXCEPT !.op = "duplicate"]
  <2>1. JobOK(pc[r], job[r]) /\ pc[r] = "count" /\ Goto(r, "commit", j) /\ UNCHANGED Rows
    BY <1>3, TypeMeans DEF CountDuplicate
  <2>2. Told("count", job[r]) BY <2>1 DEF IInv
  <2>3. job[r].op = "intent" /\ IsPlan(job[r]) BY <2>2 DEF Told
  <2>4. Identity(job[r]) \in Identities /\ job[r].quantity \in 1..MaxQuantity BY <2>1, <2>3 DEF JobOK
  <2>5. j.op = "duplicate" /\ Identity(j) = Identity(job[r]) /\ j.quantity = job[r].quantity
    BY <2>3 DEF IsPlan, Identity
  <2> HIDE DEF j
  <2>6. JobOK("commit", j) BY <2>4, <2>5 DEF JobOK
  <2> QED BY <2>1, <2>6 DEF TypedMove, Stages
<1>4. CASE Fail(r) BY <1>4, RejectsTyped DEF Fail
<1> QED BY <1>1, <1>2, <1>3, <1>4

\* A commit writes well formed rows only.
LEMMA CommitsTyped ==
  ASSUME IInv, TypeOK, NEW r \in Requests, Commit(r)
  PROVE  TypeOK'
<1>1. JobOK("commit", job[r]) /\ pc[r] = "commit" BY TypeMeans DEF Commit
<1>2. WorldOK' BY TypeMeans DEF WorldOK, Commit, World
<1>3. overrides' \subseteq Overrides
  <2>1. CASE job[r].op = "override"
    <3>1. job[r].token \in Tokens /\ job[r].key \in Keys /\ job[r].mode \in Modes
      BY <1>1, <2>1 DEF JobOK
    <3>2. [token |-> job[r].token, key |-> job[r].key, mode |-> job[r].mode] \in Overrides
      BY <3>1 DEF Overrides
    <3> QED BY <2>1, <3>2, TypeMeans DEF Commit, RowsOK
  <2>2. CASE job[r].op # "override" BY <2>2, TypeMeans DEF Commit, RowsOK
  <2> QED BY <2>1, <2>2
<1>4. intents' \subseteq Intents
  <2>1. CASE job[r].op = "intent"
    <3> DEFINE n == [mode |-> job[r].mode, snapshot |-> job[r].snapshot, override |-> job[r].override,
                     quantity |-> job[r].quantity, count |-> 0]
    <3>1. Identity(job[r]) \in Identities /\ job[r].quantity \in 1..MaxQuantity
      BY <1>1, <2>1 DEF JobOK
    <3>2. job[r].mode \in Modes /\ job[r].snapshot \in Snapshots /\ job[r].override \in Names(Tokens)
      BY <3>1 DEF Identity, Identities
    <3>3. n \in Intents BY <3>1, <3>2 DEF Intents
    <3>4. intents' = intents \cup {n} BY <2>1 DEF Commit
    <3> QED BY <3>3, <3>4, TypeMeans DEF RowsOK
  <2>2. CASE job[r].op = "duplicate"
    <3>1. intents' = {Counted(i, job[r]) : i \in intents} BY <2>2 DEF Commit
    <3>2. ASSUME NEW i \in Intents PROVE Counted(i, job[r]) \in Intents
      <4>1. i.count + 1 \in Nat BY DEF Intents
      <4>2. [i EXCEPT !.count = i.count + 1] \in Intents BY <4>1 DEF Intents
      <4> QED BY <4>2 DEF Counted
    <3> QED BY <3>1, <3>2, TypeMeans DEF RowsOK
  <2>3. CASE job[r].op \notin {"intent", "duplicate"} BY <2>3, TypeMeans DEF Commit, RowsOK
  <2> QED BY <2>1, <2>2, <2>3
<1>5. pc' \in [Requests -> Stages] /\ \A q \in Requests \ {r} : pc'[q] = pc[q]
  BY TypeMeans DEF Commit, Stages
<1>6. pc'[r] = "done" /\ job' = job BY TypeMeans DEF Commit
<1>7. ASSUME NEW q \in Requests PROVE JobOK(pc[q], job[q])'
  <2>1. CASE q = r BY <1>1, <1>6, <2>1 DEF JobOK, Identity
  <2>2. CASE q # r
    <3>1. JobOK(pc[q], job[q]) BY TypeMeans
    <3> QED BY <1>5, <1>6, <2>2, <3>1 DEF JobOK, Identity
  <2> QED BY <2>1, <2>2
<1> QED BY <1>2, <1>3, <1>4, <1>5, <1>7, TypeMeansNext DEF RowsOK

\* Every step of the creation of intents keeps the state well formed.
LEMMA StepTyped ==
  ASSUME IInv, TypeOK, [Next]_vars
  PROVE  TypeOK'
<1>1. ASSUME UNCHANGED <<overrides, intents, pc, job>>, WorldOK' PROVE TypeOK'
  BY <1>1, TypeMeans, TypeMeansNext DEF RowsOK, JobOK, Identity
<1>2. CASE UNCHANGED vars BY <1>1, <1>2, TypeMeans DEF vars, WorldOK
<1>3. CASE ChangeMode \/ Revalue \/ Tick
  <2>1. WorldOK' BY <1>3, BoundsAssumption, TypeMeans DEF ChangeMode, Revalue, Tick, WorldOK, Snapshots
  <2> QED BY <1>1, <1>3, <2>1 DEF ChangeMode, Revalue, Tick
<1>4. ASSUME NEW q \in 2..MaxQuantity, Preview(q) PROVE TypeOK'
  <2>1. [snapshot |-> snapshot, mode |-> mode, quantity |-> q, issued |-> now] \in Tokens
    BY TypeMeans DEF WorldOK, Tokens
  <2>2. WorldOK' BY <1>4, <2>1, TypeMeans DEF Preview, WorldOK
  <2> QED BY <1>1, <1>4, <2>2 DEF Preview
<1>5. ASSUME NEW r \in Requests, \E t \in tokens, k \in Keys : AskOverride(r, t, k) PROVE TypeOK'
  <2>1. UNCHANGED World BY <1>5 DEF AskOverride
  <2> QED BY <1>5, <2>1, OverridesTyped, MovesTyped
<1>6. ASSUME NEW r \in Requests, LookUpKey(r) \/ InsertOverride(r) PROVE TypeOK'
  <2>1. UNCHANGED World BY <1>6 DEF LookUpKey, InsertOverride
  <2> QED BY <1>6, <2>1, OverridesTyped, MovesTyped
<1>7. ASSUME NEW r \in Requests,
             \E named \in Names({o.token : o \in overrides}), q \in 1..MaxQuantity, s \in Snapshots :
               AskIntent(r, named, q, s)
      PROVE  TypeOK'
  <2>1. UNCHANGED World BY <1>7 DEF AskIntent
  <2> QED BY <1>7, <2>1, IntentsTyped, MovesTyped
<1>8. ASSUME NEW r \in Requests, InsertIntent(r) \/ CountDuplicate(r) \/ Fail(r) PROVE TypeOK'
  <2>1. UNCHANGED World BY <1>8 DEF InsertIntent, CountDuplicate, Fail
  <2> QED BY <1>8, <2>1, IntentsTyped, MovesTyped
<1>9. ASSUME NEW r \in Requests, Commit(r) PROVE TypeOK' BY <1>9, CommitsTyped
<1> QED BY <1>2, <1>3, <1>4, <1>5, <1>6, <1>7, <1>8, <1>9 DEF Next

(* ------------------------- the owner's commands ------------------------ *)
LEMMA ControlsInit == Controls!Init => Controls!IInv
<1> SUFFICES ASSUME Controls!Init PROVE Controls!IInv
  OBVIOUS
<1>1. \A i \in Controlled : locked[i] = {} /\ Controls!Cardinality(locked[i]) <= 1
  BY FS_EmptySet DEF Controls!Init, Controls!Nobody, Controls!Cardinality, Cardinality
<1>2. Controls!TypeOK
  BY <1>1 DEF Controls!Init, Controls!TypeOK, Controls!Nobody
<1>3. Controls!RowsAreHeld /\ Controls!CheckStands /\ Controls!KeysAreFree
  BY DEF Controls!Init, Controls!RowsAreHeld, Controls!CheckStands, Controls!KeysAreFree,
     Controls!Inserted, Controls!Nobody, Controls!Working
<1>4. Controls!OnePendingByIdea /\ Controls!AnswersNameTheirCommand
  BY DEF Controls!Init, Controls!OnePendingByIdea, Controls!AnswersNameTheirCommand
<1> QED
  BY <1>2, <1>3, <1>4 DEF Controls!IInv

(* One request has a row at most, as a set and as a number.                *)
LEMMA OneHolder ==
  ASSUME NEW S, S = {} \/ \E a : S = {a}
  PROVE  Controls!Cardinality(S) <= 1
<1>1. Controls!Cardinality(S) = Cardinality(S)
  BY DEF Controls!Cardinality, Cardinality
<1>2. CASE S = {}
  BY <1>1, <1>2, FS_EmptySet
<1>3. ASSUME NEW a, S = {a} PROVE Cardinality(S) = 1
  BY <1>3, FS_Singleton
<1> QED
  BY <1>1, <1>2, <1>3

(* The types that the steps of a request change, without the count.        *)
Steps == {"new", "look", "check", "insert", "commit", "replayed", "created"}
Asked(q) == /\ q.by \in {"idea", "intent"}
            /\ [intent |-> q.intent, key |-> q.key, content |-> q.content] \in Controls!Commands

(* A request moves to s and asks q, with the rows it locks; nothing is     *)
(* written.                                                                *)
MovesTo(a, s, q) ==
  /\ UNCHANGED <<state, commands>>
  /\ step' = [step EXCEPT ![a] = s] /\ ask' = [ask EXCEPT ![a] = q]
  /\ locked' \in [Controlled -> SUBSET Askers]
  /\ \A i \in Controlled : \A b \in Askers \ {a} : b \in locked'[i] <=> b \in locked[i]
  /\ \A i \in Controlled : a \in locked'[i] => locked'[i] = {a} /\ q.intent = i
  /\ \A i \in Controlled : a \in locked'[i] <=>
       s \in {"look", "check", "insert", "commit"} /\ q.by = "idea" /\ q.intent = i

(* What it asks is what it may know at s.                                  *)
MayAsk(a, s, q) ==
  /\ q = Controls!NoAsk \/ Asked(q)
  /\ q = Controls!NoAsk => s = "new"
  /\ s \in {"look", "check", "insert", "commit"} /\ q.by = "idea" =>
       \A b \in Controls!Inserted : ask[b].intent = q.intent => a = b
  /\ s \in {"insert", "commit"} /\ q.by = "idea" =>
       \A c \in commands : c.intent = q.intent => ~Controls!Pending(c)
  /\ s = "commit" =>
       /\ \A c \in commands : ~(c.intent = q.intent /\ c.key = q.key)
       /\ \A b \in Askers \ {a} : step[b] \in {"look", "check", "insert", "commit"} /\ ask[b].by = "idea" =>
            ask[b].intent # q.intent
       /\ \A b \in Controls!Inserted \ {a} : ~(ask[b].intent = q.intent /\ ask[b].key = q.key)
  /\ s # "created"
  /\ s = "replayed" => [intent |-> q.intent, key |-> q.key, content |-> q.content] \in commands

\* A request for a command that moves on, and takes or lets go a row, preserves the invariant of
\* the commands.
LEMMA RequestMoves ==
  ASSUME Controls!IInv, NEW a \in Askers, NEW s \in Steps, NEW q, MovesTo(a, s, q), MayAsk(a, s, q)
  PROVE  Controls!IInv'
<1> SUFFICES ASSUME
      UNCHANGED <<state, commands>>,
      step' = [step EXCEPT ![a] = s], ask' = [ask EXCEPT ![a] = q],
      locked' \in [Controlled -> SUBSET Askers],
      \A i \in Controlled : \A b \in Askers \ {a} : b \in locked'[i] <=> b \in locked[i],
      \A i \in Controlled : a \in locked'[i] => locked'[i] = {a} /\ q.intent = i,
      \A i \in Controlled : a \in locked'[i] <=>
        s \in {"look", "check", "insert", "commit"} /\ q.by = "idea" /\ q.intent = i,
      q = Controls!NoAsk \/ Asked(q),
      q = Controls!NoAsk => s = "new",
      s \in {"look", "check", "insert", "commit"} /\ q.by = "idea" =>
        \A b \in Controls!Inserted : ask[b].intent = q.intent => a = b,
      s \in {"insert", "commit"} /\ q.by = "idea" =>
        \A c \in commands : c.intent = q.intent => ~Controls!Pending(c),
      s = "commit" =>
        /\ \A c \in commands : ~(c.intent = q.intent /\ c.key = q.key)
        /\ \A b \in Askers \ {a} : step[b] \in {"look", "check", "insert", "commit"} /\ ask[b].by = "idea" =>
             ask[b].intent # q.intent
        /\ \A b \in Controls!Inserted \ {a} : ~(ask[b].intent = q.intent /\ ask[b].key = q.key),
      s # "created",
      s = "replayed" => [intent |-> q.intent, key |-> q.key, content |-> q.content] \in commands
    PROVE Controls!IInv'
  BY DEF MovesTo, MayAsk
<1>1. /\ step \in [Askers -> Steps] /\ ask = [b \in Askers |-> ask[b]]
      /\ \A b \in Askers : ask[b] = Controls!NoAsk \/ Asked(ask[b])
      /\ \A b \in Askers : step[b] # "new" => ask[b] # Controls!NoAsk
  BY DEF Controls!IInv, Controls!TypeOK, Controls!RowsAreHeld, Steps, Asked, Controls!Mine
<1>2. /\ step'[a] = s /\ ask'[a] = q /\ step' \in [Askers -> Steps] /\ ask' = [b \in Askers |-> ask'[b]]
      /\ \A b \in Askers \ {a} : step'[b] = step[b] /\ ask'[b] = ask[b]
  BY <1>1
<1>3. \A i \in Controlled : locked'[i] = {} \/ \E b \in Askers : locked'[i] = {b}
  <2> SUFFICES ASSUME NEW i \in Controlled, a \notin locked'[i]
               PROVE  locked'[i] = {} \/ \E b \in Askers : locked'[i] = {b}
    OBVIOUS
  <2>1. locked'[i] = locked[i] \ {a}
    BY DEF Controls!IInv, Controls!TypeOK
  <2>2. locked[i] = {} \/ \E b \in Askers : locked[i] = {b}
    BY DEF Controls!IInv, Controls!RowsAreHeld, Controls!Nobody
  <2> QED
    BY <2>1, <2>2
<1>4. Controls!Inserted' \ {a} = Controls!Inserted \ {a} /\ (a \in Controls!Inserted' <=> s = "commit")
  BY <1>2 DEF Controls!Inserted
<1>5. \A b \in Askers \ {a}, i \in Controlled : b \in locked'[i] =>
        /\ step[b] \in {"look", "check", "insert", "commit"} /\ ask[b].by = "idea" /\ ask[b].intent = i
  BY DEF Controls!IInv, Controls!RowsAreHeld, Controls!Working, Controls!ByIdea
<1>6. \A b \in Askers : ask[b] # Controls!NoAsk => ask[b].intent \in Controlled
  BY <1>1 DEF Asked, Controls!Commands
<1>7. \A b \in Askers \ {a} :
        step[b] \in {"look", "check", "insert", "commit"} /\ ask[b] # Controls!NoAsk =>
          (b \in locked'[ask[b].intent] <=> ask[b].by = "idea")
  <2> SUFFICES ASSUME NEW b \in Askers \ {a}, step[b] \in {"look", "check", "insert", "commit"},
                      ask[b] # Controls!NoAsk
               PROVE  b \in locked[ask[b].intent] <=> ask[b].by = "idea"
    BY <1>6
  <2>1. /\ ask[b].by \in {"idea", "intent"}
        /\ locked[ask[b].intent] = IF ask[b].by = "idea" THEN {b} ELSE locked[ask[b].intent] \ {b}
    BY DEF Controls!IInv, Controls!TypeOK
  <2>2. CASE ask[b].by = "idea"
    BY <2>1, <2>2
  <2>3. CASE ask[b].by = "intent"
    <3>1. locked[ask[b].intent] = locked[ask[b].intent] \ {b}
      BY <2>1, <2>3
    <3>2. b \notin locked[ask[b].intent] \ {b}
      OBVIOUS
    <3> QED
      BY <2>3, <3>1, <3>2
  <2> QED
    BY <2>1, <2>2, <2>3
<1>8. Controls!TypeOK'
  <2>1. \A i \in Controlled : Controls!Cardinality(locked'[i]) <= 1
    BY <1>3, OneHolder
  <2>2. ASSUME NEW b \in Askers, ask'[b] # Controls!NoAsk
        PROVE  /\ ask'[b].by \in {"idea", "intent"}
               /\ [intent |-> ask'[b].intent, key |-> ask'[b].key, content |-> ask'[b].content] \in Controls!Commands
               /\ step'[b] \in {"look", "check", "insert", "commit"} =>
                    locked'[ask'[b].intent] = IF ask'[b].by = "idea" THEN {b} ELSE
                                              locked'[ask'[b].intent] \ {b}
    <3>1. Asked(ask'[b]) /\ ask'[b].intent \in Controlled
      BY <1>1, <1>2, <2>2 DEF Asked, Controls!Commands
    <3>2. step'[b] \in {"look", "check", "insert", "commit"} =>
            (b \in locked'[ask'[b].intent] <=> ask'[b].by = "idea")
      BY <1>2, <1>7, <2>2, <3>1
    <3>3. ASSUME step'[b] \in {"look", "check", "insert", "commit"}, ask'[b].by = "idea"
          PROVE  locked'[ask'[b].intent] = {b}
      BY <3>1, <3>2, <3>3, <1>3
    <3>4. ASSUME step'[b] \in {"look", "check", "insert", "commit"}, ask'[b].by # "idea"
          PROVE  locked'[ask'[b].intent] = locked'[ask'[b].intent] \ {b}
      BY <3>2, <3>4
    <3> QED
      BY <3>1, <3>3, <3>4 DEF Asked
  <2> QED
    BY <1>2, <2>1, <2>2 DEF Controls!IInv, Controls!TypeOK, Controls!Mine, Steps
<1>9. Controls!RowsAreHeld'
  <2>1. \A b \in Askers : step'[b] # "new" => ask'[b] # Controls!NoAsk
    BY <1>1, <1>2
  <2>2. \A i \in Controlled : \A b \in locked'[i] :
          Controls!Working(b)' /\ Controls!ByIdea(b)' /\ ask'[b].intent = i
    BY <1>2, <1>5 DEF Controls!Working, Controls!ByIdea
  <2>3. \A b \in Askers : Controls!Working(b)' /\ Controls!ByIdea(b)' =>
          \A d \in Controls!Inserted' : Controls!SameRow(b, d)' => b = d
    BY <1>2, <1>4 DEF Controls!IInv, Controls!RowsAreHeld, Controls!Working, Controls!ByIdea,
       Controls!SameRow, Controls!Inserted
  <2> QED
    BY <1>2, <1>3, <2>1, <2>2, <2>3 DEF Controls!RowsAreHeld, Controls!Nobody
<1>10. Controls!CheckStands'
  BY <1>2 DEF Controls!IInv, Controls!CheckStands, Controls!ByIdea, Controls!Pending
<1>11. Controls!KeysAreFree'
  <2>1. ASSUME NEW b \in Controls!Inserted', NEW c \in commands
        PROVE  ~(c.intent = ask'[b].intent /\ c.key = ask'[b].key)
    BY <2>1, <1>2, <1>4 DEF Controls!IInv, Controls!KeysAreFree, Controls!Inserted
  <2>2. ASSUME NEW b \in Controls!Inserted', NEW d \in Controls!Inserted',
               ask'[b].intent = ask'[d].intent, ask'[b].key = ask'[d].key
        PROVE  b = d
    BY <2>2, <1>2, <1>4 DEF Controls!IInv, Controls!KeysAreFree, Controls!Inserted, Controls!SameRow
  <2> QED
    BY <2>1, <2>2 DEF Controls!KeysAreFree, Controls!SameRow
<1>12. Controls!OnePendingByIdea'
  BY <1>2 DEF Controls!IInv, Controls!OnePendingByIdea, Controls!Pending, Controls!Mine
<1>13. Controls!AnswersNameTheirCommand'
  BY <1>2 DEF Controls!IInv, Controls!AnswersNameTheirCommand, Controls!Mine
<1> QED
  BY <1>8, <1>9, <1>10, <1>11, <1>12, <1>13 DEF Controls!IInv

(* A request that ends lets its rows go.                                   *)
LEMMA Unlocks ==
  ASSUME Controls!IInv, NEW a \in Askers, locked' = [i \in Controlled |-> locked[i] \ {a}]
  PROVE  /\ locked' \in [Controlled -> SUBSET Askers]
         /\ \A i \in Controlled : \A b \in Askers \ {a} : b \in locked'[i] <=> b \in locked[i]
         /\ \A i \in Controlled : a \notin locked'[i]
  BY DEF Controls!IInv, Controls!TypeOK

\* A request for a command that is refused lets its row go.
LEMMA Refuses ==
  ASSUME Controls!IInv, NEW a \in Askers, Controls!Refuse(a)
  PROVE  Controls!IInv'
<1>1. /\ UNCHANGED <<state, commands>> /\ step' = [step EXCEPT ![a] = "new"]
      /\ ask' = [ask EXCEPT ![a] = Controls!NoAsk] /\ locked' = [i \in Controlled |-> locked[i] \ {a}]
  BY DEF Controls!Refuse, Controls!Ends
<1>2. MovesTo(a, "new", Controls!NoAsk)
  BY <1>1, Unlocks DEF MovesTo
<1> QED
  BY <1>2, RequestMoves DEF Steps, MayAsk

(* A request goes on as it is, with its rows.                              *)
LEMMA GoesOn ==
  ASSUME Controls!IInv, NEW a \in Askers, Controls!Working(a), NEW s \in {"check", "insert", "commit"},
         step' = [step EXCEPT ![a] = s], UNCHANGED <<state, commands, locked, ask>>,
         s \in {"insert", "commit"} /\ ask[a].by = "idea" =>
           \A c \in commands : c.intent = ask[a].intent => ~Controls!Pending(c),
         s = "commit" =>
           /\ \A c \in commands : ~(c.intent = ask[a].intent /\ c.key = ask[a].key)
           /\ locked[ask[a].intent] \subseteq {a}
           /\ \A b \in Controls!Inserted \ {a} : ~(ask[b].intent = ask[a].intent /\ ask[b].key = ask[a].key)
  PROVE  Controls!IInv'
<1>1. /\ ask = [b \in Askers |-> ask[b]] /\ ask[a] # Controls!NoAsk /\ Asked(ask[a])
      /\ ask[a].intent \in Controlled
      /\ locked \in [Controlled -> SUBSET Askers]
  BY DEF Controls!IInv, Controls!RowsAreHeld, Controls!TypeOK, Controls!Working, Controls!Mine, Asked,
     Controls!Commands
<1>2. ask' = [ask EXCEPT ![a] = ask[a]]
  BY <1>1
<1>3. \A i \in Controlled : a \in locked[i] => locked[i] = {a} /\ ask[a].intent = i
  BY DEF Controls!IInv, Controls!RowsAreHeld, Controls!Nobody
<1>4. \A b \in Askers : Controls!Working(b) /\ ask[b].by = "idea" => b \in locked[ask[b].intent]
  <2> SUFFICES ASSUME NEW b \in Askers, Controls!Working(b), ask[b].by = "idea"
               PROVE  locked[ask[b].intent] = {b}
    OBVIOUS
  <2>1. ask[b] # Controls!NoAsk
    BY DEF Controls!NoAsk
  <2> QED
    BY <2>1 DEF Controls!IInv, Controls!TypeOK, Controls!Working
<1>5. \A i \in Controlled : a \in locked[i] <=> ask[a].by = "idea" /\ ask[a].intent = i
  BY <1>3, <1>4 DEF Controls!IInv, Controls!RowsAreHeld, Controls!ByIdea
<1>6. ask[a].by = "idea" => \A b \in Controls!Inserted : ask[b].intent = ask[a].intent => a = b
  BY DEF Controls!IInv, Controls!RowsAreHeld, Controls!ByIdea, Controls!SameRow
<1>7. s = "commit" =>
        \A b \in Askers \ {a} : step[b] \in {"look", "check", "insert", "commit"} /\ ask[b].by = "idea" =>
          ask[b].intent # ask[a].intent
  BY <1>4 DEF Controls!Working
<1>8. s \in Steps /\ s \in {"look", "check", "insert", "commit"}
      /\ \A i \in Controlled : \A b \in Askers \ {a} : b \in locked'[i] <=> b \in locked[i]
  BY DEF Steps
<1>9. \A i \in Controlled : a \in locked'[i] => locked'[i] = {a} /\ ask[a].intent = i
  BY <1>3
<1>10. \A i \in Controlled : a \in locked'[i] <=>
         s \in {"look", "check", "insert", "commit"} /\ ask[a].by = "idea" /\ ask[a].intent = i
  BY <1>5, <1>8
<1>11. MovesTo(a, s, ask[a])
  BY <1>1, <1>2, <1>8, <1>9, <1>10 DEF MovesTo
<1>12. MayAsk(a, s, ask[a])
  BY <1>1, <1>6, <1>7, <1>8 DEF MayAsk
<1> QED
  BY <1>8, <1>11, <1>12, RequestMoves

\* A request that names its intent takes no lock.
LEMMA AsksByIntent ==
  ASSUME Controls!IInv, NEW a \in Askers, NEW i \in Controlled, NEW k \in Keys, NEW c \in Controls!Contents,
         Controls!AskByIntent(a, i, k, c)
  PROVE  Controls!IInv'
<1> DEFINE q == [by |-> "intent", intent |-> i, key |-> k, content |-> c]
<1>1. Asked(q) /\ q.by = "intent"
  BY DEF Asked, Controls!Commands
<1>2. \A j \in Controlled : a \notin locked[j]
  BY DEF Controls!AskByIntent, Controls!IInv, Controls!RowsAreHeld, Controls!Working
<1>3. /\ UNCHANGED <<state, commands, locked>> /\ step' = [step EXCEPT ![a] = "look"]
      /\ ask' = [ask EXCEPT ![a] = q] /\ locked \in [Controlled -> SUBSET Askers]
  BY DEF Controls!AskByIntent, Controls!IInv, Controls!TypeOK
<1>4. "look" \in Steps /\ q # Controls!NoAsk
  BY DEF Steps, Controls!NoAsk
<1> HIDE DEF q
<1>5. \A j \in Controlled : /\ \A b \in Askers \ {a} : b \in locked'[j] <=> b \in locked[j]
                           /\ a \notin locked'[j]
  BY <1>2, <1>3
<1>6. MovesTo(a, "look", q)
  BY <1>1, <1>3, <1>5 DEF MovesTo
<1>7. MayAsk(a, "look", q)
  BY <1>1, <1>4 DEF MayAsk
<1> QED
  BY <1>4, <1>6, <1>7, RequestMoves

\* A request by idea takes the row of its intent first.
LEMMA AsksByIdea ==
  ASSUME Controls!IInv, NEW a \in Askers, NEW k \in Keys, NEW c \in Controls!Contents,
         Controls!AskByIdea(a, k, c)
  PROVE  Controls!IInv'
<1>1. PICK i \in Controlled :
        /\ ask' = [ask EXCEPT ![a] = [by |-> "idea", intent |-> i, key |-> k, content |-> c]]
        /\ locked' = [locked EXCEPT ![i] = {a}]
        /\ Controls!FreeFor(a, i) /\ ~Controls!Shared(i)
  BY DEF Controls!AskByIdea
<1> DEFINE q == [by |-> "idea", intent |-> i, key |-> k, content |-> c]
<1>2. Asked(q) /\ q.by = "idea" /\ q.intent = i
  BY DEF Asked, Controls!Commands
<1>3. \A j \in Controlled : a \notin locked[j]
  BY DEF Controls!AskByIdea, Controls!IInv, Controls!RowsAreHeld, Controls!Working
<1>4. /\ UNCHANGED <<state, commands>> /\ step' = [step EXCEPT ![a] = "look"]
      /\ ask' = [ask EXCEPT ![a] = q]
      /\ locked \in [Controlled -> SUBSET Askers] /\ locked[i] = {}
  <2>1. locked[i] \subseteq {a} /\ a \notin locked[i]
    BY <1>1, <1>3 DEF Controls!FreeFor
  <2>2. locked[i] = {}
    BY <2>1
  <2> QED
    BY <1>1, <2>2 DEF Controls!AskByIdea, Controls!IInv, Controls!TypeOK
<1>5. /\ locked'[i] = {a} /\ \A j \in Controlled \ {i} : locked'[j] = locked[j]
      /\ locked' \in [Controlled -> SUBSET Askers]
  BY <1>1, <1>4
<1>6. \A b \in Controls!Inserted : ask[b].intent # i
  BY <1>1 DEF Controls!Shared
<1>7. "look" \in Steps /\ q # Controls!NoAsk
  BY DEF Steps, Controls!NoAsk
<1> HIDE DEF q
<1>8. /\ \A j \in Controlled : \A b \in Askers \ {a} : b \in locked'[j] <=> b \in locked[j]
      /\ \A j \in Controlled : a \in locked'[j] => locked'[j] = {a} /\ q.intent = j
      /\ \A j \in Controlled : a \in locked'[j] <=> q.by = "idea" /\ q.intent = j
  BY <1>2, <1>3, <1>4, <1>5
<1>9. MovesTo(a, "look", q)
  BY <1>4, <1>5, <1>8 DEF MovesTo
<1>10. MayAsk(a, "look", q)
  BY <1>2, <1>6, <1>7 DEF MayAsk
<1> QED
  BY <1>7, <1>9, <1>10, RequestMoves

\* The look at the key answers the request, refuses it or sends it on.
LEMMA LooksUp ==
  ASSUME Controls!IInv, NEW a \in Askers, Controls!LookUp(a)
  PROVE  Controls!IInv'
<1>1. Controls!Working(a) /\ ask[a] # Controls!NoAsk /\ ask = [b \in Askers |-> ask[b]]
  BY DEF Controls!LookUp, Controls!Working, Controls!IInv, Controls!RowsAreHeld
<1>2. CASE step' = [step EXCEPT ![a] = "check"] /\ UNCHANGED <<state, commands, locked, ask>>
  BY <1>1, <1>2, GoesOn
<1>3. CASE Controls!Refuse(a)
  BY <1>3, Refuses
<1>4. ASSUME NEW c \in commands, c.intent = ask[a].intent, c.key = ask[a].key,
             c.content = ask[a].content, Controls!Ends(a, "replayed"), UNCHANGED <<state, commands, ask>>
      PROVE  Controls!IInv'
  <2>1. /\ step' = [step EXCEPT ![a] = "replayed"] /\ ask' = [ask EXCEPT ![a] = ask[a]]
        /\ locked' = [i \in Controlled |-> locked[i] \ {a}] /\ UNCHANGED <<state, commands>>
    BY <1>1, <1>4 DEF Controls!Ends
  <2>2. Asked(ask[a])
    BY <1>1 DEF Controls!IInv, Controls!TypeOK, Controls!Mine, Asked
  <2>3. [intent |-> ask[a].intent, key |-> ask[a].key, content |-> ask[a].content] \in commands
    BY <1>4 DEF Controls!IInv, Controls!TypeOK, Controls!Commands
  <2>4. MovesTo(a, "replayed", ask[a])
    BY <2>1, Unlocks DEF MovesTo
  <2>5. MayAsk(a, "replayed", ask[a])
    BY <1>1, <2>2, <2>3 DEF MayAsk
  <2> QED
    BY <2>4, <2>5, RequestMoves DEF Steps
<1> QED
  BY <1>2, <1>3, <1>4 DEF Controls!LookUp, Controls!SameContent

\* The look for a pending action and the insert see the rows as they are; who asks by idea holds
\* the intent meanwhile.
LEMMA ChecksAndInserts ==
  ASSUME Controls!IInv, NEW a \in Askers, Controls!Check(a) \/ Controls!Insert(a)
  PROVE  Controls!IInv'
<1>1. CASE Controls!Refuse(a)
  BY <1>1, Refuses
<1>2. CASE Controls!Check(a) /\ ~Controls!Refuse(a)
  BY <1>2, GoesOn DEF Controls!Check, Controls!Working
<1>3. CASE Controls!Insert(a) /\ ~Controls!Refuse(a)
  <2>1. ask[a].by = "idea" => \A c \in commands : c.intent = ask[a].intent => ~Controls!Pending(c)
    BY <1>3 DEF Controls!Insert, Controls!IInv, Controls!CheckStands, Controls!ByIdea
  <2>2. /\ \A c \in commands : ~(c.intent = ask[a].intent /\ c.key = ask[a].key)
        /\ \A b \in Controls!Inserted : ~(ask[b].intent = ask[a].intent /\ ask[b].key = ask[a].key)
    BY <1>3 DEF Controls!Insert, Controls!Mine
  <2> QED
    BY <1>3, <2>1, <2>2, GoesOn DEF Controls!Insert, Controls!Working, Controls!FreeFor
<1> QED
  BY <1>1, <1>2, <1>3

\* The commit of a command: nobody else by idea has passed the look for a pending action, and
\* nobody has the key.
LEMMA CommitsCommand ==
  ASSUME Controls!IInv, NEW a \in Askers, Controls!CommitCommand(a)
  PROVE  Controls!IInv'
<1> DEFINE n == Controls!Mine(a)
<1>1. /\ step[a] = "commit" /\ commands' = commands \cup {n} /\ UNCHANGED <<state, ask>>
      /\ step' = [step EXCEPT ![a] = "created"] /\ locked' = [i \in Controlled |-> locked[i] \ {a}]
  BY DEF Controls!CommitCommand, Controls!Ends
<1>2. /\ a \in Controls!Inserted /\ Controls!Working(a) /\ ask[a] # Controls!NoAsk
      /\ n \in Controls!Commands /\ ask[a].by \in {"idea", "intent"}
      /\ n.intent = ask[a].intent /\ n.key = ask[a].key /\ n.content = ask[a].content
  BY <1>1 DEF Controls!Inserted, Controls!Working, Controls!IInv, Controls!TypeOK,
     Controls!RowsAreHeld, Controls!Mine
<1> HIDE DEF n
<1>3. /\ step'[a] = "created" /\ \A b \in Askers \ {a} : step'[b] = step[b]
      /\ step' \in [Askers -> Steps] /\ Controls!Inserted' = Controls!Inserted \ {a}
  BY <1>1 DEF Controls!IInv, Controls!TypeOK, Controls!Inserted, Steps
<1>4. /\ locked' \in [Controlled -> SUBSET Askers]
      /\ \A i \in Controlled : \A b \in Askers \ {a} : b \in locked'[i] <=> b \in locked[i]
      /\ \A i \in Controlled : a \notin locked'[i]
      /\ \A i \in Controlled : locked'[i] = {} \/ \E b \in Askers : locked'[i] = {b}
  <2>1. \A i \in Controlled : locked[i] = {} \/ \E b \in Askers : locked[i] = {b}
    BY DEF Controls!IInv, Controls!RowsAreHeld, Controls!Nobody
  <2>2. \A i \in Controlled : locked'[i] = locked[i] \ {a}
    BY <1>1
  <2> QED
    BY <1>1, <2>1, <2>2, Unlocks
<1>5. \A b \in Askers : Controls!Working(b)' => b # a /\ Controls!Working(b)
  BY <1>3 DEF Controls!Working
<1>6. Controls!KeysAreFree'
  <2>1. ASSUME NEW b \in Controls!Inserted', NEW c \in commands'
        PROVE  ~(c.intent = ask[b].intent /\ c.key = ask[b].key)
    BY <2>1, <1>1, <1>2, <1>3 DEF Controls!IInv, Controls!KeysAreFree, Controls!SameRow
  <2> QED
    BY <2>1, <1>1, <1>3 DEF Controls!IInv, Controls!KeysAreFree, Controls!SameRow
<1>7. Controls!TypeOK'
  <2>1. \A c \in commands : ~(c.intent = n.intent /\ c.key = n.key)
    BY <1>2 DEF Controls!IInv, Controls!KeysAreFree
  <2>2. \A c, d \in commands' : c.intent = d.intent /\ c.key = d.key => c = d
    BY <2>1, <1>1 DEF Controls!IInv, Controls!TypeOK
  <2>3. \A i \in Controlled : Controls!Cardinality(locked'[i]) <= 1
    BY <1>4, OneHolder
  <2>4. ASSUME NEW b \in Askers, ask[b] # Controls!NoAsk, Controls!Working(b)'
        PROVE  locked'[ask[b].intent] = IF ask[b].by = "idea" THEN {b} ELSE locked'[ask[b].intent] \ {b}
    <3>1. /\ ask[b].intent \in Controlled /\ b # a /\ ask[b].by \in {"idea", "intent"}
          /\ locked[ask[b].intent] = IF ask[b].by = "idea" THEN {b} ELSE locked[ask[b].intent] \ {b}
      BY <2>4, <1>5 DEF Controls!IInv, Controls!TypeOK, Controls!Working, Controls!Mine, Controls!Commands
    <3>2. locked'[ask[b].intent] = locked[ask[b].intent] \ {a}
      BY <3>1, <1>1
    <3>3. CASE ask[b].by = "idea"
      BY <3>1, <3>2, <3>3
    <3>4. CASE ask[b].by = "intent"
      <4>1. locked[ask[b].intent] = locked[ask[b].intent] \ {b}
        BY <3>1, <3>4
      <4> QED
        BY <3>1, <3>2, <3>4, <4>1
    <3> QED
      BY <3>1, <3>3, <3>4
  <2> QED
    <3>1. commands' \subseteq Controls!Commands
      BY <1>1, <1>2 DEF Controls!IInv, Controls!TypeOK
    <3>2. ASSUME NEW b \in Askers
          PROVE  ask'[b] = Controls!NoAsk \/
                   /\ ask'[b].by \in {"idea", "intent"} /\ Controls!Mine(b)' \in Controls!Commands
                   /\ step'[b] \in {"look", "check", "insert", "commit"} =>
                        locked'[ask'[b].intent] = IF ask'[b].by = "idea" THEN {b} ELSE
                                                  locked'[ask'[b].intent] \ {b}
      <4>1. ask'[b] = ask[b] /\ Controls!Mine(b)' = Controls!Mine(b)
        BY <1>1 DEF Controls!Mine
      <4>2. ask[b] # Controls!NoAsk => ask[b].by \in {"idea", "intent"} /\ Controls!Mine(b) \in Controls!Commands
        BY DEF Controls!IInv, Controls!TypeOK
      <4> QED
        BY <4>1, <4>2, <2>4 DEF Controls!Working
    <3> QED
      BY <1>1, <1>3, <1>4, <2>2, <2>3, <3>1, <3>2 DEF Controls!IInv, Controls!TypeOK, Steps
<1>8. Controls!RowsAreHeld'
  <2>1. \A i \in Controlled : \A b \in locked'[i] :
          Controls!Working(b)' /\ Controls!ByIdea(b)' /\ ask'[b].intent = i
    <3> SUFFICES ASSUME NEW i \in Controlled, NEW b \in locked'[i]
                 PROVE  b \in locked[i] /\ step'[b] = step[b]
      BY <1>1 DEF Controls!IInv, Controls!RowsAreHeld, Controls!Working, Controls!ByIdea
    <3> QED
      BY <1>3, <1>4
  <2>2. \A b \in Askers : Controls!Working(b)' /\ Controls!ByIdea(b)' =>
          \A d \in Controls!Inserted' : Controls!SameRow(b, d)' => b = d
    BY <1>1, <1>3, <1>5 DEF Controls!IInv, Controls!RowsAreHeld, Controls!ByIdea, Controls!SameRow
  <2>3. \A b \in Askers : step'[b] # "new" => ask[b] # Controls!NoAsk
    BY <1>2, <1>3 DEF Controls!IInv, Controls!RowsAreHeld
  <2> QED
    BY <1>1, <1>4, <2>1, <2>2, <2>3 DEF Controls!IInv, Controls!RowsAreHeld, Controls!Nobody
<1>9. Controls!CheckStands'
  <2> SUFFICES ASSUME NEW b \in Askers \ {a}, step[b] \in {"insert", "commit"}, Controls!ByIdea(b)
               PROVE  /\ ask[b].intent # n.intent
                      /\ \A c \in commands : c.intent = ask[b].intent => ~Controls!Pending(c)
    BY <1>1, <1>3 DEF Controls!CheckStands, Controls!ByIdea, Controls!Pending
  <2>1. Controls!Working(b)
    BY DEF Controls!Working
  <2> QED
    BY <2>1, <1>2 DEF Controls!IInv, Controls!CheckStands, Controls!RowsAreHeld, Controls!SameRow
<1>10. Controls!AnswersNameTheirCommand'
  BY <1>1, <1>3 DEF Controls!IInv, Controls!AnswersNameTheirCommand, Controls!Mine, n
<1>11. Controls!OnePendingByIdea'
  <2>1. ask[a].by = "idea" =>
          \A b \in Askers \ {a} : step[b] = "created" /\ ask[b].intent = ask[a].intent =>
            ~Controls!Pending(Controls!Mine(b))
    <3> SUFFICES ASSUME ask[a].by = "idea", NEW b \in Askers, step[b] = "created",
                        ask[b].intent = ask[a].intent
                 PROVE  ~Controls!Pending(Controls!Mine(b))
      OBVIOUS
    <3>1. Controls!Mine(b) \in commands /\ Controls!Mine(b).intent = ask[a].intent
      BY DEF Controls!IInv, Controls!AnswersNameTheirCommand, Controls!Mine
    <3> QED
      BY <3>1, <1>1 DEF Controls!IInv, Controls!CheckStands, Controls!ByIdea
  <2>2. \A b : Controls!Mine(b)' = Controls!Mine(b)
    BY <1>1 DEF Controls!Mine
  <2> SUFFICES ASSUME NEW b \in Askers, NEW d \in Askers, step'[b] = "created", step'[d] = "created",
                      ask[b].by = "idea", ask[d].by = "idea", ask[b].intent = ask[d].intent,
                      Controls!Pending(Controls!Mine(b)), Controls!Pending(Controls!Mine(d))
               PROVE  b = d
    BY <2>2, <1>1 DEF Controls!OnePendingByIdea, Controls!Pending
  <2> QED
    BY <2>1, <1>3 DEF Controls!IInv, Controls!OnePendingByIdea
<1> QED
  BY <1>6, <1>7, <1>8, <1>9, <1>10, <1>11 DEF Controls!IInv

\* Every step of the commands preserves their invariant.
LEMMA ControlsNext == Controls!IInv /\ [Controls!Next]_controlsVars => Controls!IInv'
<1> SUFFICES ASSUME Controls!IInv, [Controls!Next]_controlsVars PROVE Controls!IInv'
  OBVIOUS
<1>1. CASE UNCHANGED <<commands, locked, step, ask>>
           /\ state' \in [Controlled -> {"PROTECTION_PENDING", "PROTECTED", "MANAGING", "CLOSED"}]
  <2>1. Controls!TypeOK' /\ Controls!RowsAreHeld'
    <3>1. \A b : Controls!Mine(b)' = Controls!Mine(b)
      BY <1>1 DEF Controls!Mine
    <3>2. \A i \in Controlled : Controls!Cardinality(locked'[i]) <= 1
      BY <1>1 DEF Controls!IInv, Controls!TypeOK
    <3>3. Controls!TypeOK'
      BY <1>1, <3>1, <3>2 DEF Controls!IInv, Controls!TypeOK
    <3> QED
      BY <3>3, <1>1 DEF Controls!IInv, Controls!RowsAreHeld, Controls!Working, Controls!ByIdea,
         Controls!SameRow, Controls!Inserted
  <2> QED
    BY <2>1, <1>1 DEF Controls!IInv, Controls!CheckStands, Controls!KeysAreFree, Controls!Inserted,
       Controls!SameRow, Controls!ByIdea, Controls!Pending, Controls!OnePendingByIdea, Controls!Mine,
       Controls!AnswersNameTheirCommand
<1>2. ASSUME NEW i \in Controlled, Controls!Progress(i) PROVE Controls!IInv'
  BY <1>1, <1>2 DEF Controls!Progress, Controls!IInv, Controls!TypeOK
<1>3. CASE UNCHANGED controlsVars
  BY <1>1, <1>3 DEF controlsVars, Controls!IInv, Controls!TypeOK
<1>4. ASSUME NEW a \in Askers, NEW i \in Controlled, NEW k \in Keys, NEW c \in Controls!Contents,
             Controls!AskByIntent(a, i, k, c)
      PROVE  Controls!IInv'
  BY <1>4, AsksByIntent
<1>5. ASSUME NEW a \in Askers, NEW k \in Keys, NEW c \in Controls!Contents, Controls!AskByIdea(a, k, c)
      PROVE  Controls!IInv'
  BY <1>5, AsksByIdea
<1>6. ASSUME NEW a \in Askers,
             \/ Controls!LookUp(a) \/ Controls!Check(a) \/ Controls!Insert(a)
             \/ Controls!CommitCommand(a) \/ Controls!Abort(a)
      PROVE  Controls!IInv'
  BY <1>6, LooksUp, ChecksAndInserts, CommitsCommand, Refuses DEF Controls!Abort
<1> QED
  BY <1>2, <1>3, <1>4, <1>5, <1>6 DEF Controls!Next

\* The invariant of the commands holds in every behavior.
LEMMA ControlsAlways == AllSpec => []Controls!IInv
<1>1. AllInit => Controls!IInv
  BY ControlsInit DEF AllInit
<1>2. Controls!IInv /\ [AllNext]_<<part, vars, controlsVars, activationVars, lighterVars>> => Controls!IInv'
  <2>1. [AllNext]_<<part, vars, controlsVars, activationVars, lighterVars>> => [Controls!Next]_controlsVars
    BY DEF AllNext
  <2> QED
    BY <2>1, ControlsNext
<1> QED
  BY <1>1, <1>2, PTL DEF AllSpec

\* Two requests by idea never both create a provider action for one intent, and an answered
\* request finds the command it asked for under its key (request_manual_trade_control).
THEOREM OneCommand == AllSpec => []OneCommandByIdea
<1>1. Controls!IInv => OneCommandByIdea
  BY DEF Controls!IInv, OneCommandByIdea
<1> QED
  BY <1>1, ControlsAlways, PTL

(* ------------------------ provider transactions ------------------------ *)
LEMMA LighterInit == Lighter!Init => Lighter!IInv
<1> SUFFICES ASSUME Lighter!Init PROVE Lighter!IInv
  OBVIOUS
<1>1. Lighter!TypeOK
  BY BoundsAssumption DEF Lighter!Init, Lighter!TypeOK, Lighter!Unreserved, Lighter!Nonces, Lighter!Active
<1>2. Lighter!NoCall \in Lighter!Calls
  BY BoundsAssumption DEF Lighter!NoCall, Lighter!Calls, Lighter!Nonces
<1>3. Lighter!Called
  BY <1>2 DEF Lighter!Init, Lighter!Called
<1>4. Lighter!Attempted /\ Lighter!Transacted /\ Lighter!Prepared /\ Lighter!FactsStand
  BY DEF Lighter!Init, Lighter!Attempted, Lighter!Transacted, Lighter!Prepared, Lighter!FactsStand
<1>5. Lighter!Closed
  BY DEF Lighter!Init, Lighter!Closed, Lighter!Unreserved
<1> QED
  BY <1>1, <1>3, <1>4, <1>5 DEF Lighter!IInv

(* A call that names its action and its request, or the facts it has found. *)
LEMMA CallIs ==
  ASSUME NEW a, NEW r, NEW n, NEW f
  PROVE  /\ [Lighter!NoCall EXCEPT !.action = a, !.request = r] \in
              [action : {a}, request : {r}, nonce : {0}, ack : {Lighter!None}, found : {FALSE}]
         /\ [Lighter!NoCall EXCEPT !.action = a, !.nonce = n, !.found = f] \in
              [action : {a}, request : {Lighter!None}, nonce : {n}, ack : {Lighter!None}, found : {f}]
<1> DEFINE u == [Lighter!NoCall EXCEPT !.action = a]
           v == [u EXCEPT !.nonce = n]
<1>1. u \in [action : {a}, request : {Lighter!None}, nonce : {0}, ack : {Lighter!None}, found : {FALSE}]
  BY DEF Lighter!NoCall
<1>2. [Lighter!NoCall EXCEPT !.action = a, !.request = r] = [u EXCEPT !.request = r]
  BY DEF Lighter!NoCall
<1>3. [Lighter!NoCall EXCEPT !.action = a, !.nonce = n, !.found = f] = [v EXCEPT !.found = f]
  BY DEF Lighter!NoCall
<1> HIDE DEF u
<1>4. [u EXCEPT !.request = r] \in
        [action : {a}, request : {r}, nonce : {0}, ack : {Lighter!None}, found : {FALSE}]
  BY <1>1
<1>5. v \in [action : {a}, request : {Lighter!None}, nonce : {n}, ack : {Lighter!None}, found : {FALSE}]
  BY <1>1
<1> HIDE DEF v
<1>6. [v EXCEPT !.found = f] \in
        [action : {a}, request : {Lighter!None}, nonce : {n}, ack : {Lighter!None}, found : {f}]
  BY <1>5
<1> QED
  BY <1>2, <1>3, <1>4, <1>6

(* A caller moves to stage g with call w.                                  *)
CallerMoves(c, g, w) == turn' = [turn EXCEPT ![c] = g] /\ call' = [call EXCEPT ![c] = w]

\* A caller that moves leaves the other callers where they are.
LEMMA CallerMoved ==
  ASSUME Lighter!IInv, NEW c \in Callers, NEW g \in {"idle", "ask", "prepared", "send", "ack", "facts"},
         NEW w \in Lighter!Calls, CallerMoves(c, g, w),
         g # "idle" => w.action \in Lighter!Actions,
         g \in {"ask", "prepared", "send", "ack"} => w.request \in Requests
  PROVE  /\ turn'[c] = g /\ call'[c] = w
         /\ \A d \in Callers \ {c} : turn'[d] = turn[d] /\ call'[d] = call[d]
         /\ turn' \in [Callers -> {"idle", "ask", "prepared", "send", "ack", "facts"}]
         /\ Lighter!Called'
  BY DEF Lighter!IInv, Lighter!TypeOK, Lighter!Called, CallerMoves

\* An idle caller has no call.
LEMMA NoCallTyped ==
  Lighter!NoCall \in Lighter!Calls
  BY BoundsAssumption DEF Lighter!NoCall, Lighter!Calls, Lighter!Nonces

(* A caller that neither prepares nor sends nor has an answer and whose    *)
(* facts stand leaves the rest alone.                                      *)
LEMMA Bystander ==
  ASSUME Lighter!IInv, NEW c \in Callers, NEW g \in {"idle", "ask", "facts"},
         NEW w \in Lighter!Calls, CallerMoves(c, g, w),
         UNCHANGED <<binding, lane, next, taken, wire>>,
         g # "idle" => w.action \in Lighter!Actions,
         g = "ask" => w.request \in Requests,
         g = "facts" => /\ lane[w.action].state # "none" /\ w.nonce <= next
                        /\ w.found => next > lane[w.action].nonce
  PROVE  Lighter!IInv'
<1>1. /\ turn'[c] = g /\ call'[c] = w
      /\ \A d \in Callers \ {c} : turn'[d] = turn[d] /\ call'[d] = call[d]
      /\ turn' \in [Callers -> {"idle", "ask", "prepared", "send", "ack", "facts"}]
      /\ Lighter!Called'
  BY CallerMoved
<1>2. Lighter!TypeOK'
  BY <1>1 DEF Lighter!IInv, Lighter!TypeOK, Lighter!Active
<1>3. \A a : Lighter!Attempts(a)' = Lighter!Attempts(a) \ {c}
  BY <1>1 DEF Lighter!Attempts
<1>4. Lighter!Attempted'
  <2> SUFFICES ASSUME NEW d \in Callers, turn'[d] \in {"send", "ack"}
               PROVE  d # c /\ turn'[d] = turn[d] /\ call'[d] = call[d]
    BY <1>3 DEF Lighter!IInv, Lighter!Attempted, Lighter!Armed
  <2> QED
    BY <1>1
<1>5. Lighter!Transacted' /\ Lighter!Closed'
  BY DEF Lighter!IInv, Lighter!Transacted, Lighter!Closed, Lighter!Armed
<1>6. Lighter!Prepared'
  BY <1>1 DEF Lighter!IInv, Lighter!Prepared, Lighter!Armed, Lighter!Bindable, Lighter!Active
<1>7. Lighter!FactsStand'
  BY <1>1 DEF Lighter!IInv, Lighter!FactsStand
<1> QED
  BY <1>1, <1>2, <1>4, <1>5, <1>6, <1>7 DEF Lighter!IInv

\* A caller asks for a transaction.
LEMMA Asks ==
  ASSUME Lighter!IInv, NEW c \in Callers, NEW a \in Lighter!Actions, NEW r \in Requests, Lighter!Ask(c, a, r)
  PROVE  Lighter!IInv'
<1> DEFINE w == [Lighter!NoCall EXCEPT !.action = a, !.request = r]
<1>1. w \in Lighter!Calls /\ w.action = a /\ w.request = r
  <2>1. w \in [action : {a}, request : {r}, nonce : {0}, ack : {Lighter!None}, found : {FALSE}]
    BY CallIs
  <2>2. 0 \in Lighter!Nonces
    BY BoundsAssumption DEF Lighter!Nonces
  <2> HIDE DEF w
  <2> QED
    BY <2>1, <2>2 DEF Lighter!Calls
<1>2. CallerMoves(c, "ask", w) /\ UNCHANGED <<binding, lane, next, taken, wire>>
  BY DEF Lighter!Ask, Lighter!To, Lighter!Rows, Lighter!Provider, CallerMoves
<1> HIDE DEF w
<1> QED
  BY <1>1, <1>2, Bystander

\* A caller that gives up changes nothing but itself.
LEMMA LeavesAlone ==
  ASSUME Lighter!IInv, NEW c \in Callers, Lighter!Leave(c), UNCHANGED <<binding, lane, next, taken, wire>>
  PROVE  Lighter!IInv'
  BY NoCallTyped, Bystander DEF Lighter!Leave, Lighter!To, CallerMoves

\* A caller reads the provider facts about an action.
LEMMA Fetches ==
  ASSUME Lighter!IInv, NEW c \in Callers, NEW a \in Lighter!Actions, Lighter!Fetch(c, a)
  PROVE  Lighter!IInv'
<1>1. PICK f \in {FALSE, \E t \in taken : t.action = a /\ t.nonce = lane[a].nonce} :
      \E n \in 0..next :
       call' = [call EXCEPT ![c] = [Lighter!NoCall EXCEPT !.action = a, !.nonce = n, !.found = f]]
  BY DEF Lighter!Fetch
<1>2. PICK n \in 0..next :
       call' = [call EXCEPT ![c] = [Lighter!NoCall EXCEPT !.action = a, !.nonce = n, !.found = f]]
  BY <1>1
<1> DEFINE w == [Lighter!NoCall EXCEPT !.action = a, !.nonce = n, !.found = f]
<1>3. w \in Lighter!Calls /\ w.action = a /\ w.nonce = n /\ w.found = f
  <2>1. n \in Lighter!Nonces
    BY <1>2, BoundsAssumption DEF Lighter!IInv, Lighter!TypeOK, Lighter!Nonces
  <2>2. w \in [action : {a}, request : {Lighter!None}, nonce : {n}, ack : {Lighter!None}, found : {f}]
    BY CallIs
  <2> HIDE DEF w
  <2> QED
    BY <2>1, <2>2, <1>1 DEF Lighter!Calls
<1>4. f => next > lane[a].nonce
  BY <1>1 DEF Lighter!IInv, Lighter!Transacted
<1>5. lane[a].state # "none" /\ CallerMoves(c, "facts", w) /\ UNCHANGED <<binding, lane, next, taken, wire>>
  BY <1>2 DEF Lighter!Fetch, Lighter!To, Lighter!Rows, Lighter!Provider, CallerMoves
<1> HIDE DEF w
<1> QED
  BY <1>2, <1>3, <1>4, <1>5, Bystander

\* A caller finds its action bound to the same request, or binds and reserves it.
LEMMA Prepares ==
  ASSUME Lighter!IInv, NEW c \in Callers, Lighter!Prepare(c)
  PROVE  Lighter!IInv'
<1> DEFINE a == call[c].action
<1>1. /\ a \in Lighter!Actions /\ call[c] \in Lighter!Calls /\ call[c].request \in Requests
      /\ lane[a].nonce \in Lighter!Nonces
  BY DEF Lighter!IInv, Lighter!Called, Lighter!Prepare, Lighter!TypeOK
<1>2. PICK n \in Lighter!Nonces :
        /\ call' = [call EXCEPT ![c].nonce = n]
        /\ \/ lane[a].state = "RESERVED" /\ n = lane[a].nonce
           \/ lane[a].state = "none" /\ Lighter!Reservable(n)
  <2>1. CASE Lighter!Own(a).state = "RESERVED"
    BY <2>1, <1>1 DEF Lighter!Prepare, Lighter!Own
  <2>2. CASE lane[a].state = "none"
    <3>1. PICK n \in 0..next : Lighter!Reservable(n) /\ call' = [call EXCEPT ![c].nonce = n]
      BY <2>2 DEF Lighter!Prepare, Lighter!Own
    <3>2. n \in Lighter!Nonces
      BY <3>1, BoundsAssumption DEF Lighter!IInv, Lighter!TypeOK, Lighter!Nonces
    <3> QED
      BY <2>2, <3>1, <3>2
  <2> QED
    BY <2>1, <2>2 DEF Lighter!Prepare, Lighter!Own
<1> DEFINE w == [call[c] EXCEPT !.nonce = n]
<1>3. w \in Lighter!Calls /\ w.action = a /\ w.request = call[c].request /\ w.nonce = n
  BY <1>1 DEF Lighter!Calls
<1>4. CallerMoves(c, "prepared", w) /\ UNCHANGED <<binding, lane, next, taken, wire>>
  <2>1. call' = [call EXCEPT ![c] = w]
    BY <1>2
  <2> QED
    BY <2>1 DEF Lighter!Prepare, Lighter!To, Lighter!Rows, Lighter!Provider, CallerMoves
<1> HIDE DEF w
<1>5. /\ turn'[c] = "prepared" /\ call'[c] = w
      /\ \A d \in Callers \ {c} : turn'[d] = turn[d] /\ call'[d] = call[d]
      /\ turn' \in [Callers -> {"idle", "ask", "prepared", "send", "ack", "facts"}]
      /\ Lighter!Called'
  BY <1>1, <1>3, <1>4, CallerMoved
<1>6. turn[c] = "ask" /\ Lighter!LocksFree /\ Lighter!Bindable(a, call[c].request)
  BY DEF Lighter!Prepare
<1>7. Lighter!TypeOK'
  BY <1>4, <1>5 DEF Lighter!IInv, Lighter!TypeOK, Lighter!Active
<1>8. Lighter!Attempted'
  <2>1. \A b : Lighter!Attempts(b)' = Lighter!Attempts(b)
    BY <1>5, <1>6 DEF Lighter!Attempts
  <2> SUFFICES ASSUME NEW d \in Callers, turn'[d] \in {"send", "ack"}
               PROVE  d # c /\ turn'[d] = turn[d] /\ call'[d] = call[d]
    BY <1>4, <2>1 DEF Lighter!IInv, Lighter!Attempted, Lighter!Armed
  <2> QED
    BY <1>5
<1>9. Lighter!Transacted' /\ Lighter!Closed'
  BY <1>4 DEF Lighter!IInv, Lighter!Transacted, Lighter!Closed, Lighter!Armed
<1>10. Lighter!FactsStand'
  BY <1>4, <1>5 DEF Lighter!IInv, Lighter!FactsStand
<1>11. Lighter!Prepared'
  <2>1. \A d \in Callers : turn'[d] = "prepared" => d = c
    BY <1>5, <1>6 DEF Lighter!LocksFree
  <2>2. ~Lighter!Armed(a)
    BY <1>2 DEF Lighter!Armed
  <2>3. \A b \in Lighter!Actions : Lighter!Active(b) => b = a
    BY <1>1, <1>2 DEF Lighter!Reservable, Lighter!IInv, Lighter!TypeOK, Lighter!Active
  <2>4. lane[a].state = "RESERVED" => n = lane[a].nonce
    BY <1>2
  <2> QED
    BY <1>3, <1>4, <1>5, <1>6, <2>1, <2>2, <2>3, <2>4
    DEF Lighter!Prepared, Lighter!Armed, Lighter!Bindable, Lighter!Active
<1> QED
  BY <1>5, <1>7, <1>8, <1>9, <1>10, <1>11 DEF Lighter!IInv

\* The commit of SUBMITTING arms one caller: no lane was armed for the action before.
LEMMA CommitsPrepared ==
  ASSUME Lighter!IInv, NEW c \in Callers, Lighter!CommitPrepared(c)
  PROVE  Lighter!IInv'
<1> DEFINE a == call[c].action
           n == call[c].nonce
           r == call[c].request
<1>1. a \in Lighter!Actions /\ call[c] \in Lighter!Calls /\ r \in Requests /\ n \in Lighter!Nonces
  BY DEF Lighter!IInv, Lighter!Called, Lighter!CommitPrepared, Lighter!Calls
<1>2. CallerMoves(c, "send", call[c]) /\ UNCHANGED <<call, next, taken, wire>>
  BY DEF Lighter!CommitPrepared, Lighter!To, Lighter!Provider, CallerMoves, Lighter!IInv, Lighter!Called
<1>3. /\ turn'[c] = "send" /\ call'[c] = call[c]
      /\ \A d \in Callers \ {c} : turn'[d] = turn[d] /\ call'[d] = call[d]
      /\ turn' \in [Callers -> {"idle", "ask", "prepared", "send", "ack", "facts"}]
      /\ Lighter!Called'
  BY <1>1, <1>2, CallerMoved
<1>4. /\ turn[c] = "prepared" /\ ~Lighter!Armed(a) /\ Lighter!Bindable(a, r)
      /\ (lane[a].state = "RESERVED" => n = lane[a].nonce)
      /\ \A d \in Callers : turn[d] = "prepared" => d = c
      /\ \A b \in Lighter!Actions : Lighter!Active(b) => b = a
  BY DEF Lighter!CommitPrepared, Lighter!IInv, Lighter!Prepared
<1>5. /\ binding' = [binding EXCEPT ![a] = r]
      /\ lane' = [lane EXCEPT ![a] = [nonce |-> n, state |-> "SUBMITTING"]]
  BY DEF Lighter!CommitPrepared
<1>6. /\ binding'[a] = r /\ lane'[a].state = "SUBMITTING" /\ lane'[a].nonce = n
      /\ \A b \in Lighter!Actions \ {a} : binding'[b] = binding[b] /\ lane'[b] = lane[b]
      /\ binding' \in [Lighter!Actions -> Requests \cup {Lighter!None}]
      /\ lane' \in [Lighter!Actions -> [nonce : Lighter!Nonces,
                                       state : {"none", "RESERVED", "SUBMITTING", "CONSUMED"}]]
  BY <1>1, <1>5 DEF Lighter!IInv, Lighter!TypeOK
<1>7. \A t \in taken \cup wire : t.action \in Lighter!Actions /\ t.action # a
  BY <1>4 DEF Lighter!IInv, Lighter!TypeOK, Lighter!Transacted, Lighter!Transactions
<1>8. \A d \in Callers : turn[d] \in {"send", "ack"} => call[d].action \in Lighter!Actions /\ call[d].action # a
  BY <1>4 DEF Lighter!IInv, Lighter!Called, Lighter!Attempted
<1>9. Lighter!TypeOK'
  BY <1>2, <1>3, <1>4, <1>6 DEF Lighter!IInv, Lighter!TypeOK, Lighter!Active
<1>10. Lighter!Attempted'
  <2> SUFFICES ASSUME NEW d \in Callers, turn'[d] \in {"send", "ack"}
               PROVE  /\ Lighter!Armed(call[d].action)' /\ Lighter!Attempts(call[d].action)' = {d}
                      /\ call[d].request = binding'[call[d].action]
                      /\ call[d].nonce = lane'[call[d].action].nonce
                      /\ turn'[d] = "send" \/ call[d].ack = "refused" =>
                           \A t \in taken \cup wire : t.action # call[d].action
                      /\ turn'[d] = "ack" /\ call[d].ack = "ok" => next > call[d].nonce
    BY <1>2 DEF Lighter!Attempted, Lighter!Armed, Lighter!Attempts
  <2>1. CASE d = c
    BY <2>1, <1>2, <1>3, <1>6, <1>7, <1>8 DEF Lighter!Armed, Lighter!Attempts
  <2>2. CASE d # c
    <3>1. turn'[d] = turn[d] /\ call[d].action \in Lighter!Actions \ {a}
      BY <2>2, <1>3, <1>8
    <3>2. Lighter!Attempts(call[d].action)' = Lighter!Attempts(call[d].action)
      BY <3>1, <1>2, <1>3, <1>4 DEF Lighter!Attempts
    <3> QED
      BY <3>1, <3>2, <1>2, <1>6 DEF Lighter!IInv, Lighter!Attempted, Lighter!Armed
  <2> QED
    BY <2>1, <2>2
<1>11. Lighter!Transacted'
  BY <1>2, <1>6, <1>7 DEF Lighter!IInv, Lighter!Transacted, Lighter!Armed
<1>12. Lighter!Prepared'
  BY <1>3, <1>4 DEF Lighter!Prepared
<1>13. Lighter!FactsStand'
  <2> SUFFICES ASSUME NEW d \in Callers, turn[d] = "facts", d # c
               PROVE  /\ lane'[call[d].action].state # "none" /\ call[d].nonce <= next
                      /\ call[d].found => next > lane'[call[d].action].nonce
    BY <1>2, <1>3 DEF Lighter!FactsStand
  <2>1. /\ call[d].action \in Lighter!Actions
        /\ lane[call[d].action].state # "none" /\ call[d].nonce <= next
        /\ call[d].found => next > lane[call[d].action].nonce
    BY DEF Lighter!IInv, Lighter!Called, Lighter!FactsStand
  <2>2. lane[a].state \in {"none", "RESERVED"}
    BY <1>1, <1>4 DEF Lighter!Armed, Lighter!IInv, Lighter!TypeOK
  <2> QED
    BY <2>1, <2>2, <1>4, <1>6
<1>14. Lighter!Closed'
  BY <1>2, <1>6 DEF Lighter!IInv, Lighter!Closed
<1> QED
  BY <1>3, <1>9, <1>10, <1>11, <1>12, <1>13, <1>14 DEF Lighter!IInv

(* A caller that has sent its transaction goes on with the answer k, or    *)
(* leaves without one; the provider takes or delays what it was sent.      *)
Sent(c, k) == CallerMoves(c, "ack", [call[c] EXCEPT !.ack = k])

\* A transaction is sent: the provider takes it, keeps it under way, refuses it, or nothing is
\* known.
LEMMA SendMoves ==
  ASSUME Lighter!IInv, NEW c \in Callers, turn[c] = "send", UNCHANGED <<binding, lane>>,
         NEW k \in {"ok", "refused", "unclear"},
         Sent(c, k) \/ CallerMoves(c, "idle", Lighter!NoCall),
         next' \in Lighter!Nonces, next' >= next,
         taken \subseteq taken', taken' \subseteq taken \cup {Lighter!Tx(c)},
         wire \subseteq wire', wire' \subseteq wire \cup {Lighter!Tx(c)},
         taken' # taken => next <= call[c].nonce /\ next' > call[c].nonce,
         k = "ok" => next' > call[c].nonce,
         k = "refused" => UNCHANGED <<taken, wire>>
  PROVE  Lighter!IInv'
<1> DEFINE a == call[c].action
           w == [call[c] EXCEPT !.ack = k]
           t == Lighter!Tx(c)
<1>1. /\ a \in Lighter!Actions /\ call[c] \in Lighter!Calls /\ call[c].request \in Requests
      /\ call[c].nonce \in Lighter!Nonces /\ next \in Lighter!Nonces /\ Lighter!Nonces \subseteq Int
  BY BoundsAssumption DEF Lighter!IInv, Lighter!Called, Lighter!TypeOK, Lighter!Calls, Lighter!Nonces
<1>2. /\ w \in Lighter!Calls /\ w.action = a /\ w.request = call[c].request
      /\ w.nonce = call[c].nonce /\ w.ack = k
  BY <1>1 DEF Lighter!Calls
<1>3. t.action = a /\ t.request = call[c].request /\ t.nonce = call[c].nonce /\ t \in Lighter!Transactions
      /\ taken' \subseteq taken \cup {t} /\ wire' \subseteq wire \cup {t}
  BY <1>1 DEF Lighter!Tx, Lighter!Transactions
<1> HIDE DEF w, t
<1>4. PICK g \in {"idle", "ack"} :
        /\ turn'[c] = g /\ (g = "ack" => call'[c] = w)
        /\ \A d \in Callers \ {c} : turn'[d] = turn[d] /\ call'[d] = call[d]
        /\ turn' \in [Callers -> {"idle", "ask", "prepared", "send", "ack", "facts"}]
        /\ Lighter!Called'
  <2>1. CASE Sent(c, k)
    <3>1. CallerMoves(c, "ack", w)
      BY <2>1 DEF Sent, w
    <3> QED
      BY <3>1, <1>1, <1>2, CallerMoved
  <2>2. CASE CallerMoves(c, "idle", Lighter!NoCall)
    BY <2>2, NoCallTyped, CallerMoved
  <2> QED
    BY <2>1, <2>2
<1>5. /\ Lighter!Armed(a) /\ Lighter!Attempts(a) = {c}
      /\ call[c].request = binding[a] /\ call[c].nonce = lane[a].nonce
      /\ \A u \in taken \cup wire : u.action # a
  BY DEF Lighter!IInv, Lighter!Attempted
<1>6. Lighter!TypeOK'
  BY <1>3, <1>4 DEF Lighter!IInv, Lighter!TypeOK, Lighter!Active
<1>7. Lighter!Attempted'
  <2> SUFFICES ASSUME NEW d \in Callers, turn'[d] \in {"send", "ack"}
               PROVE  \A b : b = call'[d].action =>
                      /\ Lighter!Armed(b) /\ Lighter!Attempts(b)' = {d}
                      /\ call'[d].request = binding[b]
                      /\ call'[d].nonce = lane[b].nonce
                      /\ turn'[d] = "send" \/ call'[d].ack = "refused" =>
                           \A u \in taken' \cup wire' : u.action # b
                      /\ turn'[d] = "ack" /\ call'[d].ack = "ok" => next' > call'[d].nonce
    BY DEF Lighter!Attempted, Lighter!Armed, Lighter!Attempts
  <2>1. CASE d = c
    <3>1. call'[d] = w /\ turn'[d] = "ack"
      BY <2>1, <1>4
    <3>2. Lighter!Attempts(a)' = {c}
      BY <2>1, <3>1, <1>2, <1>4, <1>5 DEF Lighter!Attempts
    <3> QED
      BY <2>1, <3>1, <3>2, <1>2, <1>5
  <2>2. CASE d # c
    <3>1. turn[d] \in {"send", "ack"} /\ call'[d] = call[d] /\ turn'[d] = turn[d]
      BY <2>2, <1>4
    <3>2. call[d].action # a
      BY <2>2, <3>1, <1>5 DEF Lighter!Attempts
    <3>3. Lighter!Attempts(call[d].action)' = Lighter!Attempts(call[d].action)
      BY <3>2, <1>2, <1>4 DEF Lighter!Attempts
    <3>4. call[d].nonce \in Int
      BY <1>1 DEF Lighter!IInv, Lighter!Called, Lighter!Calls
    <3> QED
      BY <3>1, <3>2, <3>3, <3>4, <1>1, <1>3 DEF Lighter!IInv, Lighter!Attempted
  <2> QED
    BY <2>1, <2>2
<1>8. \A u \in taken : u.nonce \in Int /\ u.nonce < next
  BY <1>1 DEF Lighter!IInv, Lighter!TypeOK, Lighter!Transacted, Lighter!Transactions
<1>9. Lighter!Transacted'
  <2>1. \A u \in taken' \cup wire' :
          Lighter!Armed(u.action) /\ u.request = binding[u.action] /\ u.nonce = lane[u.action].nonce
    BY <1>3, <1>5 DEF Lighter!IInv, Lighter!Transacted
  <2>2. \A u \in taken' : u.nonce < next'
    BY <1>1, <1>3, <1>8
  <2>3. \A u, v \in taken' : u.nonce = v.nonce => u = v
    <3>1. CASE taken' = taken
      BY <3>1 DEF Lighter!IInv, Lighter!Transacted
    <3>2. CASE taken' # taken
      <4>1. \A u \in taken : u.nonce # t.nonce
        BY <3>2, <1>1, <1>3, <1>8
      <4> QED
        BY <4>1, <1>3 DEF Lighter!IInv, Lighter!Transacted
    <3> QED
      BY <3>1, <3>2
  <2> QED
    BY <2>1, <2>2, <2>3 DEF Lighter!Transacted, Lighter!Armed
<1>10. Lighter!Prepared'
  BY <1>4 DEF Lighter!IInv, Lighter!Prepared, Lighter!Armed, Lighter!Bindable, Lighter!Active
<1>11. Lighter!FactsStand' /\ Lighter!Closed'
  <2>1. \A b \in Lighter!Actions : lane[b].nonce \in Int
    BY <1>1 DEF Lighter!IInv, Lighter!TypeOK
  <2>2. \A d \in Callers : call[d].nonce \in Int
    BY <1>1 DEF Lighter!IInv, Lighter!Called, Lighter!Calls
  <2>3. Lighter!Closed'
    BY <2>1, <1>1 DEF Lighter!IInv, Lighter!Closed
  <2>4. ASSUME NEW d \in Callers, turn'[d] = "facts"
        PROVE  LET b == call'[d].action IN
               /\ lane[b].state # "none" /\ call'[d].nonce <= next'
               /\ call'[d].found => next' > lane[b].nonce
    <3>1. turn[d] = "facts" /\ call'[d] = call[d]
      BY <2>4, <1>4
    <3>2. call[d].action \in Lighter!Actions
      BY <3>1 DEF Lighter!IInv, Lighter!Called
    <3>3. /\ lane[call[d].action].state # "none" /\ call[d].nonce <= next
          /\ call[d].found => next > lane[call[d].action].nonce
      BY <3>1 DEF Lighter!IInv, Lighter!FactsStand
    <3>4. /\ call[d].nonce \in Int /\ lane[call[d].action].nonce \in Int
          /\ next \in Int /\ next' \in Int
      BY <2>1, <2>2, <3>2, <1>1
    <3> QED
      BY <3>1, <3>3, <3>4
  <2>5. Lighter!FactsStand'
    BY <2>4 DEF Lighter!FactsStand
  <2> QED
    BY <2>3, <2>5
<1> QED
  BY <1>4, <1>6, <1>7, <1>9, <1>10, <1>11 DEF Lighter!IInv

\* Every outcome of a send preserves the invariant.
LEMMA Sends ==
  ASSUME Lighter!IInv, NEW c \in Callers,
         Lighter!SendTaken(c) \/ Lighter!SendRefused(c) \/ Lighter!SendDelayed(c)
  PROVE  Lighter!IInv'
<1>1. ASSUME NEW k, Lighter!Answer(c, k) PROVE Sent(c, k)
  BY <1>1 DEF Lighter!IInv, Lighter!Called, Lighter!Answer, Lighter!To, Sent, CallerMoves
<1>2. ASSUME Lighter!Leave(c) PROVE CallerMoves(c, "idle", Lighter!NoCall)
  BY <1>2 DEF Lighter!Leave, Lighter!To, CallerMoves
<1>3. next \in Lighter!Nonces /\ next >= next /\ MaxNonce \in Nat /\ call[c].nonce \in Lighter!Nonces
  BY BoundsAssumption DEF Lighter!IInv, Lighter!TypeOK, Lighter!Called, Lighter!Calls, Lighter!Nonces
<1>4. Lighter!Tx(c).nonce = call[c].nonce
  BY DEF Lighter!Tx
<1>5. CASE Lighter!SendTaken(c)
  <2>1. /\ turn[c] = "send" /\ UNCHANGED <<binding, lane, wire>>
        /\ next <= call[c].nonce /\ call[c].nonce < MaxNonce
        /\ next' = call[c].nonce + 1 /\ taken' = taken \cup {Lighter!Tx(c)}
    BY <1>3, <1>4, <1>5 DEF Lighter!SendTaken, Lighter!Takes, Lighter!Rows, Lighter!Nonces
  <2>2. next' \in Lighter!Nonces /\ next' >= next /\ next' > call[c].nonce
    BY <2>1, <1>3 DEF Lighter!Nonces
  <2>3. PICK k \in {"ok", "unclear"} : Sent(c, k) \/ CallerMoves(c, "idle", Lighter!NoCall)
    BY <1>1, <1>2, <1>5 DEF Lighter!SendTaken
  <2> QED
    BY <2>1, <2>2, <2>3, SendMoves
<1>6. CASE Lighter!SendRefused(c)
  <2>1. turn[c] = "send" /\ UNCHANGED <<binding, lane, wire, next, taken>>
    BY <1>6 DEF Lighter!SendRefused, Lighter!Rows, Lighter!Provider
  <2>2. PICK k \in {"refused", "unclear"} : Sent(c, k) \/ CallerMoves(c, "idle", Lighter!NoCall)
    BY <1>1, <1>2, <1>6 DEF Lighter!SendRefused
  <2> QED
    BY <2>1, <2>2, <1>3, SendMoves
<1>7. CASE Lighter!SendDelayed(c)
  <2>1. /\ turn[c] = "send" /\ UNCHANGED <<binding, lane, next, taken>>
        /\ wire' = wire \cup {Lighter!Tx(c)}
    BY <1>7 DEF Lighter!SendDelayed, Lighter!Rows
  <2>2. Sent(c, "unclear") \/ CallerMoves(c, "idle", Lighter!NoCall)
    BY <1>1, <1>2, <1>7 DEF Lighter!SendDelayed
  <2> QED
    BY <2>1, <2>2, <1>3, SendMoves
<1> QED
  BY <1>5, <1>6, <1>7

(* What is under way arrives, or the owner uses the key elsewhere.         *)
LEMMA ProviderMoves ==
  ASSUME Lighter!IInv, UNCHANGED <<binding, lane, turn, call>>,
         next' \in Lighter!Nonces, next' >= next, wire' \subseteq wire,
         \/ taken' = taken
         \/ \E t \in wire : t.nonce >= next /\ next' > t.nonce /\ taken' = taken \cup {t}
  PROVE  Lighter!IInv'
<1>1. next \in Lighter!Nonces /\ Lighter!Nonces \subseteq Int
  BY BoundsAssumption DEF Lighter!IInv, Lighter!TypeOK, Lighter!Nonces
<1>2. taken' \cup wire' \subseteq taken \cup wire /\ taken' \subseteq Lighter!Transactions
  BY DEF Lighter!IInv, Lighter!TypeOK
<1>3. Lighter!TypeOK' /\ Lighter!Called'
  BY <1>2 DEF Lighter!IInv, Lighter!TypeOK, Lighter!Called, Lighter!Active
<1>4. \A d \in Callers : call[d].nonce \in Int
  BY <1>1 DEF Lighter!IInv, Lighter!Called, Lighter!Calls
<1>5. \A b \in Lighter!Actions : lane[b].nonce \in Int
  BY <1>1 DEF Lighter!IInv, Lighter!TypeOK
<1>6. Lighter!Attempted'
  <2>1. \A b : Lighter!Attempts(b)' = Lighter!Attempts(b)
    BY DEF Lighter!Attempts
  <2> SUFFICES ASSUME NEW d \in Callers, turn[d] \in {"send", "ack"}
               PROVE  LET b == call[d].action IN
                      /\ Lighter!Armed(b) /\ Lighter!Attempts(b) = {d}
                      /\ call[d].request = binding[b] /\ call[d].nonce = lane[b].nonce
                      /\ turn[d] = "send" \/ call[d].ack = "refused" =>
                           \A t \in taken' \cup wire' : t.action # b
                      /\ turn[d] = "ack" /\ call[d].ack = "ok" => next' > call[d].nonce
    BY <2>1 DEF Lighter!Attempted, Lighter!Armed
  <2> DEFINE b == call[d].action
  <2>2. /\ Lighter!Armed(b) /\ Lighter!Attempts(b) = {d}
        /\ call[d].request = binding[b] /\ call[d].nonce = lane[b].nonce
        /\ (turn[d] = "send" \/ call[d].ack = "refused" => \A t \in taken \cup wire : t.action # b)
        /\ (turn[d] = "ack" /\ call[d].ack = "ok" => next > call[d].nonce)
    BY DEF Lighter!IInv, Lighter!Attempted
  <2>3. next > call[d].nonce => next' > call[d].nonce
    <3>1. call[d].nonce \in Int /\ next \in Int /\ next' \in Int
      BY <1>1, <1>4
    <3> QED
      BY <3>1
  <2> QED
    BY <2>2, <2>3, <1>2
<1>7. Lighter!Transacted'
  <2>1. \A u \in taken \cup wire : u.nonce \in Int
    BY <1>1 DEF Lighter!IInv, Lighter!TypeOK, Lighter!Transactions
  <2>2. \A u \in taken' : u.nonce < next'
    BY <2>1, <1>1 DEF Lighter!IInv, Lighter!Transacted
  <2>3. \A u, v \in taken' : u.nonce = v.nonce => u = v
    <3>1. CASE taken' = taken
      BY <3>1 DEF Lighter!IInv, Lighter!Transacted
    <3>2. ASSUME NEW t \in wire, t.nonce >= next, taken' = taken \cup {t}
          PROVE  \A u, v \in taken' : u.nonce = v.nonce => u = v
      <4>1. \A u \in taken : u.nonce # t.nonce
        BY <3>2, <2>1, <1>1 DEF Lighter!IInv, Lighter!Transacted
      <4> QED
        BY <3>2, <4>1 DEF Lighter!IInv, Lighter!Transacted
    <3> QED
      BY <3>1, <3>2
  <2> QED
    BY <2>2, <2>3, <1>2 DEF Lighter!IInv, Lighter!Transacted, Lighter!Armed
<1>8. Lighter!Prepared'
  BY DEF Lighter!IInv, Lighter!Prepared, Lighter!Armed, Lighter!Bindable, Lighter!Active
<1>9. Lighter!FactsStand'
  BY <1>1, <1>4, <1>5 DEF Lighter!IInv, Lighter!FactsStand, Lighter!Called
<1>10. Lighter!Closed'
  BY <1>1, <1>5 DEF Lighter!IInv, Lighter!Closed
<1> QED
  BY <1>3, <1>6, <1>7, <1>8, <1>9, <1>10 DEF Lighter!IInv

\* What is under way arrives late or never, and the owner may use the key elsewhere.
LEMMA ProviderSteps ==
  ASSUME Lighter!IInv, Lighter!OutsideUse \/ \E t \in wire : Lighter!Arrives(t)
  PROVE  Lighter!IInv'
<1>1. next \in Lighter!Nonces /\ MaxNonce \in Nat
  BY BoundsAssumption DEF Lighter!IInv, Lighter!TypeOK
<1>2. CASE Lighter!OutsideUse
  BY <1>1, <1>2, ProviderMoves DEF Lighter!OutsideUse, Lighter!Rows, Lighter!Nonces
<1>3. ASSUME NEW t \in wire, Lighter!Arrives(t) PROVE Lighter!IInv'
  <2>1. t.nonce \in Lighter!Nonces
    BY DEF Lighter!IInv, Lighter!TypeOK, Lighter!Transactions
  <2>2. UNCHANGED <<binding, lane, turn, call>> /\ wire' \subseteq wire
    BY <1>3 DEF Lighter!Arrives, Lighter!Rows
  <2>3. CASE Lighter!Takes(t)
    BY <2>1, <2>2, <2>3, <1>1, ProviderMoves DEF Lighter!Takes, Lighter!Nonces
  <2>4. CASE UNCHANGED <<next, taken>>
    BY <2>2, <2>4, <1>1, ProviderMoves DEF Lighter!Nonces
  <2> QED
    BY <2>3, <2>4, <1>3 DEF Lighter!Arrives
<1> QED
  BY <1>2, <1>3

(* An action in the hands of a caller is closed or given back.             *)
LEMMA Concludes ==
  ASSUME Lighter!IInv, NEW c \in Callers, Lighter!LocksFree, turn[c] \in {"ack", "facts"},
         NEW a \in Lighter!Actions, NEW s \in {"CONSUMED", "RESERVED"},
         Lighter!Moves(a, s), Lighter!Leave(c), UNCHANGED <<next, taken, wire>>,
         lane[a].state # "none",
         s = "CONSUMED" => next > lane[a].nonce,
         s = "RESERVED" => /\ lane[a].state = "SUBMITTING" /\ call[c].action = a /\ turn[c] = "ack"
                           /\ \A t \in taken \cup wire : t.action # a
  PROVE  Lighter!IInv'
<1>1. CallerMoves(c, "idle", Lighter!NoCall)
  BY DEF Lighter!Leave, Lighter!To, CallerMoves
<1>2. /\ turn'[c] = "idle"
      /\ \A d \in Callers \ {c} : turn'[d] = turn[d] /\ call'[d] = call[d]
      /\ turn' \in [Callers -> {"idle", "ask", "prepared", "send", "ack", "facts"}]
      /\ Lighter!Called'
  BY <1>1, NoCallTyped, CallerMoved
<1>3. lane \in [Lighter!Actions -> [nonce : Lighter!Nonces,
                                   state : {"none", "RESERVED", "SUBMITTING", "CONSUMED"}]]
  BY DEF Lighter!IInv, Lighter!TypeOK
<1>4. /\ lane'[a].state = s /\ lane'[a].nonce = lane[a].nonce
      /\ \A b \in Lighter!Actions \ {a} : lane'[b] = lane[b]
      /\ binding' = binding
      /\ lane' \in [Lighter!Actions -> [nonce : Lighter!Nonces,
                                        state : {"none", "RESERVED", "SUBMITTING", "CONSUMED"}]]
  BY <1>3 DEF Lighter!Moves
<1>5. Lighter!TypeOK'
  <2>1. \A b \in Lighter!Actions : Lighter!Active(b)' => Lighter!Active(b)
    BY <1>4 DEF Lighter!Active
  <2> QED
    BY <2>1, <1>2, <1>4 DEF Lighter!IInv, Lighter!TypeOK
<1>6. Lighter!Attempted'
  <2> SUFFICES ASSUME NEW d \in Callers \ {c}, turn[d] \in {"send", "ack"}
               PROVE  /\ lane'[call[d].action].state \in {"SUBMITTING", "CONSUMED"}
                      /\ Lighter!Attempts(call[d].action)' = {d}
                      /\ call[d].request = binding[call[d].action]
                      /\ call[d].nonce = lane'[call[d].action].nonce
                      /\ turn[d] = "send" \/ call[d].ack = "refused" =>
                           \A t \in taken \cup wire : t.action # call[d].action
                      /\ turn[d] = "ack" /\ call[d].ack = "ok" => next > call[d].nonce
    <3>1. \A d \in Callers : turn'[d] \in {"send", "ack"} =>
            d # c /\ turn'[d] = turn[d] /\ call'[d] = call[d]
      BY <1>2
    <3> QED
      BY <3>1, <1>4 DEF Lighter!Attempted, Lighter!Armed, Lighter!Attempts
  <2>1. /\ Lighter!Armed(call[d].action) /\ Lighter!Attempts(call[d].action) = {d}
        /\ call[d].request = binding[call[d].action]
        /\ call[d].nonce = lane[call[d].action].nonce
        /\ turn[d] = "send" \/ call[d].ack = "refused" =>
             \A t \in taken \cup wire : t.action # call[d].action
        /\ turn[d] = "ack" /\ call[d].ack = "ok" => next > call[d].nonce
        /\ call[d].action \in Lighter!Actions
    BY DEF Lighter!IInv, Lighter!Attempted, Lighter!Called
  <2>2. Lighter!Attempts(call[d].action)' = {d}
    BY <2>1, <1>2 DEF Lighter!Attempts
  <2>3. s = "RESERVED" => call[d].action # a
    BY <2>1 DEF Lighter!Attempts
  <2>4. /\ lane'[call[d].action].state \in {"SUBMITTING", "CONSUMED"}
        /\ lane'[call[d].action].nonce = lane[call[d].action].nonce
    BY <2>1, <2>3, <1>4 DEF Lighter!Armed
  <2> QED
    BY <2>1, <2>2, <2>4
<1>7. Lighter!Transacted'
  <2>1. \A t \in taken \cup wire : t.action \in Lighter!Actions
    BY DEF Lighter!IInv, Lighter!TypeOK, Lighter!Transactions
  <2> QED
    BY <2>1, <1>4 DEF Lighter!IInv, Lighter!Transacted, Lighter!Armed
<1>8. Lighter!Prepared'
  BY <1>2 DEF Lighter!LocksFree, Lighter!Prepared
<1>9. Lighter!FactsStand'
  BY <1>2, <1>4 DEF Lighter!IInv, Lighter!FactsStand, Lighter!Called
<1>10. Lighter!Closed'
  BY <1>4 DEF Lighter!IInv, Lighter!Closed
<1> QED
  BY <1>2, <1>5, <1>6, <1>7, <1>8, <1>9, <1>10 DEF Lighter!IInv

\* The answer of the provider, clear or not, or the facts found about it, are written to the lane.
LEMMA TakesAnswer ==
  ASSUME Lighter!IInv, NEW c \in Callers, Lighter!TakeAnswer(c) \/ Lighter!Reconcile(c)
  PROVE  Lighter!IInv'
<1> DEFINE a == call[c].action
           k == call[c].ack
<1>1. CASE Lighter!TakeAnswer(c)
  <2>1. /\ turn[c] = "ack" /\ Lighter!LocksFree /\ Lighter!Leave(c) /\ UNCHANGED <<next, taken, wire>>
        /\ a \in Lighter!Actions
    BY <1>1 DEF Lighter!TakeAnswer, Lighter!Provider, Lighter!IInv, Lighter!Called
  <2>2. /\ Lighter!Armed(a) /\ call[c].nonce = lane[a].nonce
        /\ k = "refused" => \A t \in taken \cup wire : t.action # a
        /\ k = "ok" => next > call[c].nonce
    BY <2>1 DEF Lighter!IInv, Lighter!Attempted
  <2>3. CASE k = "ok" /\ lane[a].state # "none"
    <3>1. Lighter!Moves(a, "CONSUMED")
      BY <2>3, <1>1 DEF Lighter!TakeAnswer, Lighter!ProvenRefusal
    <3> QED
      BY <2>1, <2>2, <2>3, <3>1, Concludes
  <2>4. CASE k = "refused" /\ lane[a].state = "SUBMITTING"
    <3>1. Lighter!Moves(a, "RESERVED")
      BY <2>4, <1>1 DEF Lighter!TakeAnswer, Lighter!ProvenRefusal
    <3> QED
      BY <2>1, <2>2, <2>4, <3>1, Concludes
  <2>5. CASE UNCHANGED <<binding, lane>>
    BY <2>1, <2>5, LeavesAlone
  <2>6. UNCHANGED <<binding, lane>> \/ (k = "ok" /\ lane[a].state # "none")
          \/ (k = "refused" /\ lane[a].state = "SUBMITTING")
    BY <1>1 DEF Lighter!TakeAnswer, Lighter!ProvenRefusal, Lighter!Rows
  <2> QED
    BY <2>3, <2>4, <2>5, <2>6
<1>2. CASE Lighter!Reconcile(c)
  <2>1. /\ turn[c] = "facts" /\ Lighter!LocksFree /\ Lighter!Leave(c) /\ UNCHANGED <<next, taken, wire>>
        /\ a \in Lighter!Actions
    BY <1>2 DEF Lighter!Reconcile, Lighter!Provider, Lighter!IInv, Lighter!Called
  <2>2. /\ lane[a].state # "none" /\ call[c].nonce <= next
        /\ call[c].found => next > lane[a].nonce
    BY <2>1 DEF Lighter!IInv, Lighter!FactsStand
  <2>3. CASE UNCHANGED <<binding, lane>>
    BY <2>1, <2>3, LeavesAlone
  <2>4. CASE Lighter!Moves(a, "CONSUMED") /\ Lighter!Outcome(c) # "AMBIGUOUS"
    <3>1. call[c].found \/ call[c].nonce > lane[a].nonce
      BY <2>4 DEF Lighter!Outcome
    <3>2. call[c].nonce \in Int /\ lane[a].nonce \in Int /\ next \in Int
      BY <2>1, BoundsAssumption
      DEF Lighter!IInv, Lighter!TypeOK, Lighter!Called, Lighter!Calls, Lighter!Nonces
    <3> QED
      BY <2>1, <2>2, <2>4, <3>1, <3>2, Concludes
  <2> QED
    BY <2>3, <2>4, <1>2 DEF Lighter!Reconcile, Lighter!Rows
<1> QED
  BY <1>1, <1>2

\* Every step of the provider transactions preserves their invariant.
LEMMA LighterNext == Lighter!IInv /\ [Lighter!Next]_lighterVars => Lighter!IInv'
<1> SUFFICES ASSUME Lighter!IInv, [Lighter!Next]_lighterVars PROVE Lighter!IInv'
  OBVIOUS
<1>1. CASE UNCHANGED lighterVars
  BY <1>1 DEF lighterVars, Lighter!IInv, Lighter!TypeOK, Lighter!Called, Lighter!Attempted,
     Lighter!Transacted, Lighter!Prepared, Lighter!FactsStand, Lighter!Closed, Lighter!Attempts,
     Lighter!Armed, Lighter!Active, Lighter!Bindable
<1>2. ASSUME NEW c \in Callers, NEW a \in Lighter!Actions,
             Lighter!Fetch(c, a) \/ \E r \in Requests : Lighter!Ask(c, a, r)
      PROVE  Lighter!IInv'
  BY <1>2, Fetches, Asks
<1>3. ASSUME NEW c \in Callers, Lighter!Prepare(c) \/ Lighter!CommitPrepared(c)
      PROVE  Lighter!IInv'
  BY <1>3, Prepares, CommitsPrepared
<1>4. ASSUME NEW c \in Callers, Lighter!Fails(c) PROVE Lighter!IInv'
  BY <1>4, LeavesAlone DEF Lighter!Fails, Lighter!Rows, Lighter!Provider
<1> QED
  BY <1>1, <1>2, <1>3, <1>4, Sends, TakesAnswer, ProviderSteps DEF Lighter!Next

\* The invariant of the provider transactions implies what the runs check.
LEMMA LighterTells == Lighter!IInv => OneTransactionPerAction /\ NoBlindResend
<1> SUFFICES ASSUME Lighter!IInv PROVE OneTransactionPerAction /\ NoBlindResend
  OBVIOUS
<1>1. \A t, u \in taken : t.action = u.action => t = u
  <2>1. \A t, u \in taken : t.action = u.action => t.request = u.request /\ t.nonce = u.nonce
    BY DEF Lighter!IInv, Lighter!Transacted
  <2> QED
    BY <2>1 DEF Lighter!IInv, Lighter!Transacted
<1>2. OneTransactionPerAction
  BY <1>1 DEF Lighter!IInv, Lighter!Transacted, Lighter!Closed, OneTransactionPerAction,
     Lighter!OneTransactionPerAction
<1>3. NoBlindResend
  BY DEF Lighter!IInv, Lighter!Attempted, Lighter!Attempts, NoBlindResend, Lighter!NoBlindResend
<1> QED
  BY <1>2, <1>3

\* The invariant of the provider transactions holds in every behavior.
LEMMA LighterAlways == AllSpec => []Lighter!IInv
<1>1. AllInit => Lighter!IInv
  BY LighterInit DEF AllInit
<1>2. Lighter!IInv /\ [AllNext]_<<part, vars, controlsVars, activationVars, lighterVars>> => Lighter!IInv'
  <2>1. [AllNext]_<<part, vars, controlsVars, activationVars, lighterVars>> => [Lighter!Next]_lighterVars
    BY DEF AllNext
  <2> QED
    BY <2>1, LighterNext
<1> QED
  BY <1>1, <1>2, PTL DEF AllSpec

\* Whatever is lost, late, unclear or retried, the provider takes an action once, as the request
\* it was bound to, under a nonce of its own (lighter_replay.py).
THEOREM TakenOnce == AllSpec => []OneTransactionPerAction
<1>1. Lighter!IInv => OneTransactionPerAction
  BY LighterTells
<1> QED
  BY <1>1, LighterAlways, PTL

\* A caller sends an action only if the provider has neither taken it nor may still take it from
\* an earlier call.
THEOREM NeverResentBlindly == AllSpec => []NoBlindResend
<1>1. Lighter!IInv => NoBlindResend
  BY LighterTells
<1> QED
  BY <1>1, LighterAlways, PTL

(* ----------------- confirmations, and the types of all ----------------- *)
ActivationProofs == INSTANCE LiveActivationProofs WITH LiveKeys <- Keys

\* The confirmations of this composition are those of LiveActivation: its theorems hold here, as a
\* key is neither a preview nor the absence of a key.
LEMMA ActivationAlways == AllSpec => [](Activation!OneConfirmation /\ Activation!TypeOK)
<1>1. ActivationProofs!KeysApart BY NamesAssumption DEF ActivationProofs!KeysApart, ActivationProofs!None, None
<1>2. ActivationProofs!Spec => []ActivationProofs!OneConfirmation
  BY <1>1, ActivationProofs!ConfirmedOnce
<1>3. ActivationProofs!Spec => []ActivationProofs!TypeOK
  BY <1>1, ActivationProofs!ActivationTyped
<1>4. ActivationProofs!OneConfirmation => Activation!OneConfirmation
  BY DEF ActivationProofs!OneConfirmation, Activation!OneConfirmation, ActivationProofs!None, Activation!None
<1>5. ActivationProofs!TypeOK => Activation!TypeOK
  BY DEF ActivationProofs!TypeOK, Activation!TypeOK, ActivationProofs!None, Activation!None, ActivationProofs!Rows,
     Activation!Rows, ActivationProofs!LiveModes, Activation!LiveModes, ActivationProofs!Cardinality, Activation!Cardinality
<1>6. AllSpec => ActivationProofs!Spec
  <2>1. AllInit => ActivationProofs!Init
    BY DEF AllInit, Activation!Init, ActivationProofs!Init, ActivationProofs!NoRow, Activation!NoRow,
       ActivationProofs!NoConfirm, Activation!NoConfirm, ActivationProofs!None, Activation!None,
       ActivationProofs!Nobody, Activation!Nobody
  <2>2. Activation!Next => ActivationProofs!Next
    BY DEF Activation!Next, ActivationProofs!Next,
       Activation!ModeMoves, ActivationProofs!ModeMoves, Activation!Preview, ActivationProofs!Preview,
       Activation!LockKey, ActivationProofs!LockKey, Activation!Prior, ActivationProofs!Prior,
       Activation!LockRow, ActivationProofs!LockRow, Activation!ReadGates, ActivationProofs!ReadGates,
       Activation!CommitConfirmation, ActivationProofs!CommitConfirmation,
       Activation!Abandon, ActivationProofs!Abandon, Activation!Refuse, ActivationProofs!Refuse,
       Activation!LetGo, ActivationProofs!LetGo, Activation!Answer, ActivationProofs!Answer,
       Activation!Unused, ActivationProofs!Unused, Activation!Blocked, ActivationProofs!Blocked,
       ActivationProofs!NoRow, Activation!NoRow, ActivationProofs!LiveModes, Activation!LiveModes,
       ActivationProofs!NoConfirm, Activation!NoConfirm, ActivationProofs!None, Activation!None,
       ActivationProofs!Nobody, Activation!Nobody
  <2>3. [AllNext]_<<part, vars, controlsVars, activationVars, lighterVars>>
          => [ActivationProofs!Next]_ActivationProofs!vars
    BY <2>2 DEF AllNext, activationVars, ActivationProofs!vars
  <2> QED BY <2>1, <2>3, PTL DEF AllSpec, ActivationProofs!Spec
<1> QED BY <1>2, <1>3, <1>4, <1>5, <1>6, PTL

\* A key confirms one preview, a preview is confirmed under one key, and every answer is what the row
\* says, with requests for the same preview and the same key at once (confirm_live_activation).
THEOREM OneConfirmationAlways == AllSpec => []OneConfirmation
<1>1. Activation!OneConfirmation => OneConfirmation BY DEF OneConfirmation
<1> QED BY <1>1, ActivationAlways, PTL

\* The invariant of intents and their types hold in every behavior of the composition.
LEMMA IntentsTypedAlways == AllSpec => [](IInv /\ TypeOK)
<1>1. AllInit => IInv /\ TypeOK BY Initial, TypedInitially DEF AllInit
<1>2. [AllNext]_<<part, vars, controlsVars, activationVars, lighterVars>> => [Next]_vars BY DEF AllNext
<1>3. (IInv /\ TypeOK) /\ [AllNext]_<<part, vars, controlsVars, activationVars, lighterVars>>
        => (IInv /\ TypeOK)'
  BY <1>2, Step, StepTyped
<1> QED BY <1>1, <1>3, PTL DEF AllSpec

\* The rows, locks and requests of the four modules are well formed.
THEOREM CommandsTyped == AllSpec => []CommandsTypeOK
<1>1. Controls!IInv => Controls!TypeOK BY DEF Controls!IInv
<1>2. Lighter!IInv => Lighter!TypeOK BY DEF Lighter!IInv
<1>3. TypeOK /\ Controls!TypeOK /\ Activation!TypeOK /\ Lighter!TypeOK => CommandsTypeOK
  BY DEF CommandsTypeOK
<1> QED BY <1>1, <1>2, <1>3, IntentsTypedAlways, ControlsAlways, ActivationAlways, LighterAlways, PTL
===============================================================================
