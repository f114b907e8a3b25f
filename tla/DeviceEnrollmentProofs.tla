----------------------- MODULE DeviceEnrollmentProofs -----------------------
(***************************************************************************)
(* No two devices revoke each other, and a pairing code enrols once.  The  *)
(* argument: what a request has found active or live under a lock stays so *)
(* until it commits, since whoever would change it needs the lock.         *)
(* The types rest on it, and on what a request has read of a generation    *)
(* before it inserts the next: a revoked row stays revoked (second part).  *)
(***************************************************************************)
EXTENDS DeviceEnrollment, FiniteSetTheorems, NaturalsInduction, WellFoundedInduction, TLAPS

IsCred(w) == DOMAIN w = {"is", "key", "via", "by"}
CodesApart == NoCode \notin Codes

Shape ==
  /\ cred = [c \in Creds |-> cred[c]] /\ code = [c \in Codes |-> code[c]]
  /\ \A c \in Creds : IsCred(cred[c])
  /\ locks = [r \in Clients |-> locks[r]] /\ at = [r \in Clients |-> at[r]]
  /\ req = [r \in Clients |-> req[r]]

Exclusive == \A r, q \in Clients : r # q => locks[r] \cap locks[q] = {}

\* What a request that has locked L knows at statement g of what it asks, j.
Knows(L, g, j) ==
  /\ g \in {"new", "gate", "old", "current"} => L = {}
  /\ g \in {"gate", "known", "code", "find", "count"} => j.op = "pair"
  /\ g = "current" => j.op \in {"rotate", "lost", "self"}
  /\ g = "target" => j.op = "lost"
  /\ g = "old" => j.op = "code" /\ j.code \in Codes
  /\ j.op = "lost" /\ g \in {"target", "commit"} =>
       j.actor \in Creds /\ CredLock(j.actor) \in L /\ cred[j.actor].is = "active"
  /\ \/ j.op \in {"lost", "self", "rotate"} /\ g = "commit"
     \/ j.op = "rotate" /\ g = "insert"
     => CredLock(j.revokes) \in L
  /\ j.op = "rotate" /\ g \in {"current", "insert", "commit"} => j.new # j.revokes
  /\ j.op = "pair" /\ g \in {"find", "count", "insert", "commit"} =>
       j.code \in Codes /\ CodeLock(j.code) \in L /\ code[j.code] = Made
  /\ j.op = "code" /\ g = "commit" =>
       /\ j.code \in Codes /\ CodeLock(j.code) \in L /\ code[j.code] = Unmade
       /\ \A k \in Codes \ {j.code} : CodeLock(k) \in L => code[k] = Made

Good ==
  /\ \A c \in Creds : cred[c].is = "active" => cred[c].by = NoOne
  /\ \A c \in Creds : cred[c].via \in Codes \cup {NoCode}
  /\ \A c \in Codes : code[c] \in CodeRows
  /\ NoMutualRevocation /\ CodeEnrolsOnce

IInv == Shape /\ Exclusive /\ Good /\ \A r \in Clients : Knows(locks[r], at[r], req[r])

-----------------------------------------------------------------------------
LEMMA NoOneIsNoCred == NoOne \notin Creds
BY DEF NoOne, Creds, Gens

LEMMA NextGenIsOther == \A c \in Creds : <<c[1], c[2] + 1>> # c
<1> SUFFICES ASSUME NEW c \in Creds, <<c[1], c[2] + 1>> = c PROVE FALSE OBVIOUS
<1>1. c[2] \in Int BY DEF Creds, Gens
<1>2. c[2] = c[2] + 1 OBVIOUS
<1> QED BY <1>1, <1>2

LEMMA LiveIsMade == ASSUME NEW c \in Live, code[c] \in CodeRows PROVE code[c] = Made
BY DEF Live, CodeRows, Made

LEMMA CodesAreRows == Unmade \in CodeRows /\ Made \in CodeRows /\ Used \in CodeRows
BY DEF Unmade, Made, Used, CodeRows

LEMMA FreshCred ==
  ASSUME NEW k, NEW c
  PROVE  LET w == Fresh(k, c) IN IsCred(w) /\ w.is = "active" /\ w.via = c /\ w.by = NoOne
BY DEF Fresh, IsCred

LEMMA RevokedCred ==
  ASSUME NEW c, NEW by, IsCred(cred[c])
  PROVE  LET w == Revoked(c, by) IN
         IsCred(w) /\ w.is = "revoked" /\ w.via = cred[c].via /\ w.by = by
BY DEF Revoked, IsCred

LEMMA Initial == ASSUME CodesApart PROVE Init => IInv
<1> SUFFICES ASSUME Init PROVE IInv OBVIOUS
<1>1. \A c \in Creds : /\ IsCred(cred[c]) /\ cred[c].by = NoOne /\ cred[c].via = NoCode
  BY FreshCred DEF Init, Absent, IsCred
<1>2. Shape BY <1>1 DEF Init, Shape
<1>3. Exclusive BY DEF Init, Exclusive
<1>4. Good
  <2>1. \A c \in Codes : code[c] \in CodeRows BY CodesAreRows DEF Init
  <2> QED BY <1>1, <2>1, NoOneIsNoCred DEF Good, NoMutualRevocation, CodeEnrolsOnce
<1>5. \A r \in Clients : Knows(locks[r], at[r], req[r]) BY DEF Init, Knows, Idle
<1> QED BY <1>2, <1>3, <1>4, <1>5 DEF IInv

\* A request goes on to statement g with j, having locked L.
LEMMA Moves ==
  ASSUME IInv, NEW r \in Clients, NEW L, NEW g, NEW j,
         locks' = [locks EXCEPT ![r] = L], at' = [at EXCEPT ![r] = g], req' = [req EXCEPT ![r] = j],
         UNCHANGED <<cred, code>>, \A q \in Clients \ {r} : locks[q] \cap L = {},
         Knows(L, g, j)
  PROVE  IInv'
<1> USE DEF IInv
<1>1. /\ locks'[r] = L /\ at'[r] = g /\ req'[r] = j
      /\ \A q \in Clients \ {r} : locks'[q] = locks[q] /\ at'[q] = at[q] /\ req'[q] = req[q]
  BY DEF Shape
<1>2. Shape' BY DEF Shape
<1>3. Exclusive' BY <1>1 DEF Exclusive
<1>4. Good' BY DEF Good, NoMutualRevocation, CodeEnrolsOnce
<1>5. \A M, h, k : Knows(M, h, k) => Knows(M, h, k)' BY DEF Knows
<1>6. \A q \in Clients : Knows(locks[q], at[q], req[q])' BY <1>1, <1>5
<1> QED BY <1>2, <1>3, <1>4, <1>6

LEMMA Quits ==
  ASSUME IInv, NEW r \in Clients, Quit(r)
  PROVE  IInv'
<1>1. /\ locks' = [locks EXCEPT ![r] = {}] /\ at' = [at EXCEPT ![r] = "new"]
      /\ req' = [req EXCEPT ![r] = Idle] /\ UNCHANGED <<cred, code>>
  BY DEF Quit, End, To, Rows
<1>2. Knows({}, "new", Idle) BY DEF Knows, Idle
<1> QED BY <1>1, <1>2, Moves

LEMMA Asks ==
  ASSUME IInv, NEW r \in Clients, NEW j, NEW s, Ask(r, j, s),
         \/ s = "gate" /\ j.op = "pair"
         \/ /\ s = "current" /\ j.op \in {"rotate", "lost", "self"}
            /\ j.op = "rotate" => j.new # j.revokes
         \/ s = "old" /\ j.op = "code" /\ j.code \in Codes
  PROVE  IInv'
<1>1. locks[r] = {} BY DEF Ask, IInv, Knows
<1>2. /\ locks' = [locks EXCEPT ![r] = {}] /\ at' = [at EXCEPT ![r] = s]
      /\ req' = [req EXCEPT ![r] = j] /\ UNCHANGED <<cred, code>>
  BY <1>1 DEF Ask, To, IInv, Shape
<1>3. Knows({}, s, j) BY DEF Knows
<1> QED BY <1>2, <1>3, Moves

\* A request goes on with j and may lock things that are free.
LEMMA GoesOn ==
  ASSUME IInv, NEW r \in Clients, NEW things, NEW g, NEW j,
         Lock(r, things), FreeFor(r, things), To(r, g), req' = [req EXCEPT ![r] = j],
         UNCHANGED <<cred, code>>, Knows(locks[r] \cup things, g, j)
  PROVE  IInv'
<1>1. locks' = [locks EXCEPT ![r] = locks[r] \cup things] BY DEF Lock
<1>2. \A q \in Clients \ {r} : locks[q] \cap (locks[r] \cup things) = {}
  BY DEF IInv, Exclusive, FreeFor
<1> QED BY <1>1, <1>2, Moves DEF To

LEMMA GoesOnAsIs ==
  ASSUME IInv, NEW r \in Clients, NEW g, NEW j, To(r, g), req' = [req EXCEPT ![r] = j],
         UNCHANGED <<cred, code, locks>>, Knows(locks[r], g, j)
  PROVE  IInv'
<1>1. locks' = [locks EXCEPT ![r] = locks[r]] BY DEF IInv, Shape
<1>2. \A q \in Clients \ {r} : locks[q] \cap locks[r] = {} BY DEF IInv, Exclusive
<1> QED BY <1>1, <1>2, Moves DEF To

-----------------------------------------------------------------------------
LEMMA EntersGate ==
  ASSUME IInv, NEW r \in Clients, EnterGate(r)
  PROVE  IInv'
<1>1. CASE Quit(r) BY <1>1, Quits
<1>2. CASE /\ Lock(r, {Gate}) /\ To(r, "known") /\ FreeFor(r, {Gate})
           /\ \E j : j.op = "pair" /\ req' = [req EXCEPT ![r] = j]
           /\ UNCHANGED Rows
  <2>1. PICK j : j.op = "pair" /\ req' = [req EXCEPT ![r] = j] BY <1>2
  <2>2. Knows(locks[r] \cup {Gate}, "known", j) BY <2>1 DEF Knows
  <2> QED BY <1>2, <2>1, <2>2, GoesOn DEF Rows
<1>3. ASSUME ~Quit(r)
      PROVE  req' = [req EXCEPT ![r] =
               [op |-> "pair", device |-> req[r].device, code |-> req[r].code, key |-> req[r].key,
                known |-> {c \in Creds : c[1] = req[r].device /\ cred[c].is # "absent"}]]
  BY <1>3 DEF EnterGate
<1>4. ASSUME ~Quit(r)
      PROVE  Lock(r, {Gate}) /\ To(r, "known") /\ FreeFor(r, {Gate}) /\ UNCHANGED Rows
  BY <1>4 DEF EnterGate
<1>5. ASSUME ~Quit(r) PROVE \E j : j.op = "pair" /\ req' = [req EXCEPT ![r] = j]
  <2> DEFINE j == [op |-> "pair", device |-> req[r].device, code |-> req[r].code, key |-> req[r].key,
                   known |-> {c \in Creds : c[1] = req[r].device /\ cred[c].is # "absent"}]
  <2>1. j.op = "pair" OBVIOUS
  <2>2. req' = [req EXCEPT ![r] = j] BY <1>3, <1>5
  <2> HIDE DEF j
  <2> QED BY <2>1, <2>2
<1> QED BY <1>1, <1>2, <1>4, <1>5

LEMMA LocksKnown ==
  ASSUME IInv, NEW r \in Clients, LockKnown(r)
  PROVE  IInv'
<1> DEFINE things == {CredLock(c) : c \in req[r].known}
           next == Max({c[2] : c \in req[r].known} \cup {0}) + 1
           j == [op |-> "pair", code |-> req[r].code, key |-> req[r].key, new |-> <<req[r].device, next>>]
<1>1. CASE Quit(r) BY <1>1, Quits
<1>2. CASE ~Quit(r)
  <2>1. /\ Lock(r, things) /\ FreeFor(r, things) /\ To(r, "code") /\ UNCHANGED Rows
        /\ req' = [req EXCEPT ![r] = j]
    BY <1>2 DEF LockKnown
  <2>2. j.op = "pair" OBVIOUS
  <2> HIDE DEF j, things
  <2>3. Knows(locks[r] \cup things, "code", j) BY <2>2 DEF Knows
  <2> QED BY <2>1, <2>3, GoesOn DEF Rows
<1> QED BY <1>1, <1>2

LEMMA LocksCode ==
  ASSUME IInv, NEW r \in Clients, LockCode(r)
  PROVE  IInv'
<1> DEFINE things == {CodeLock(req[r].code)}
<1>1. CASE Quit(r) BY <1>1, Quits
<1>2. CASE ~Quit(r)
  <2>1. /\ Lock(r, things) /\ FreeFor(r, things) /\ To(r, "find") /\ UNCHANGED <<cred, code, req>>
        /\ req[r].code \in Live
    BY <1>2 DEF LockCode
  <2>2. req[r].op = "pair" BY DEF LockCode, IInv, Knows
  <2>5. req[r].code \in Codes /\ code[req[r].code] = Made
    BY <2>1, LiveIsMade DEF Live, IInv, Good
  <2>3. Knows(locks[r] \cup things, "find", req[r]) BY <2>2, <2>5 DEF Knows
  <2>4. req' = [req EXCEPT ![r] = req[r]] BY <2>1 DEF IInv, Shape
  <2> QED BY <2>1, <2>3, <2>4, GoesOn
<1> QED BY <1>1, <1>2

LEMMA FindsActive ==
  ASSUME IInv, NEW r \in Clients, FindActive(r)
  PROVE  IInv'
<1> DEFINE j == [op |-> "pair", code |-> req[r].code, key |-> req[r].key, new |-> req[r].new,
                 found |-> Active]
<1>1. To(r, "count") /\ UNCHANGED <<cred, code, locks>> /\ req' = [req EXCEPT ![r] = j]
  BY DEF FindActive
<1>2. j.op = "pair" /\ j.code = req[r].code OBVIOUS
<1> HIDE DEF j
<1>3. Knows(locks[r], "find", req[r]) BY DEF FindActive, IInv
<1>4. Knows(locks[r], "count", j) BY <1>2, <1>3 DEF Knows
<1> QED BY <1>1, <1>4, GoesOnAsIs

LEMMA CountsActive ==
  ASSUME IInv, NEW r \in Clients, CountActive(r)
  PROVE  IInv'
<1> DEFINE still == req[r].found \cap Active
           things == {CredLock(c) : c \in still}
           j == [op |-> "pair", code |-> req[r].code, key |-> req[r].key, new |-> req[r].new]
<1>1. CASE Quit(r) BY <1>1, Quits
<1>2. CASE ~Quit(r)
  <2>1. /\ Lock(r, things) /\ To(r, "insert") /\ UNCHANGED Rows /\ req' = [req EXCEPT ![r] = j]
        /\ FreeFor(r, {CredLock(c) : c \in req[r].found})
    BY <1>2 DEF CountActive
  <2>2. FreeFor(r, things) BY <2>1 DEF FreeFor
  <2>3. j.op = "pair" /\ j.code = req[r].code OBVIOUS
  <2> HIDE DEF j, things
  <2>4. Knows(locks[r], "count", req[r]) BY DEF CountActive, IInv
  <2>5. Knows(locks[r] \cup things, "insert", j) BY <2>3, <2>4 DEF Knows
  <2> QED BY <2>1, <2>2, <2>5, GoesOn DEF Rows
<1> QED BY <1>1, <1>2

LEMMA Inserts ==
  ASSUME IInv, NEW r \in Clients, InsertPaired(r) \/ InsertRotated(r)
  PROVE  IInv'
<1>1. CASE Quit(r) BY <1>1, Quits
<1>2. CASE ~Quit(r)
  <2>1. /\ To(r, "commit") /\ UNCHANGED <<cred, code, locks, req>>
        /\ at[r] = "insert" /\ req[r].op \in {"pair", "rotate"}
    BY <1>2 DEF InsertPaired, InsertRotated, Insert
  <2>2. Knows(locks[r], "insert", req[r]) BY <2>1 DEF IInv
  <2>3. Knows(locks[r], "commit", req[r]) BY <2>1, <2>2 DEF Knows
  <2>4. req' = [req EXCEPT ![r] = req[r]] BY <2>1 DEF IInv, Shape
  <2> QED BY <2>1, <2>3, <2>4, GoesOnAsIs
<1> QED BY <1>1, <1>2

LEMMA LocksCurrent ==
  ASSUME IInv, NEW r \in Clients, LockCurrent(r)
  PROVE  IInv'
<1> DEFINE j == req[r]
           c == IF j.op = "lost" THEN j.actor ELSE j.revokes
           g == CASE j.op = "rotate" -> "insert" [] j.op = "lost" -> "target" [] OTHER -> "commit"
<1>1. CASE Quit(r) BY <1>1, Quits
<1>2. CASE ~Quit(r)
  <2>1. /\ Lock(r, {CredLock(c)}) /\ FreeFor(r, {CredLock(c)}) /\ To(r, g)
        /\ UNCHANGED <<cred, code, req>> /\ c \in Active
    BY <1>2 DEF LockCurrent
  <2>2. j.op \in {"rotate", "lost", "self"} /\ (j.op = "rotate" => j.new # j.revokes)
    BY DEF LockCurrent, IInv, Knows
  <2>3. Knows(locks[r] \cup {CredLock(c)}, g, j) BY <2>1, <2>2 DEF Knows, Active
  <2>4. req' = [req EXCEPT ![r] = j] BY <2>1 DEF IInv, Shape
  <2> QED BY <2>1, <2>3, <2>4, GoesOn
<1> QED BY <1>1, <1>2

LEMMA LocksTarget ==
  ASSUME IInv, NEW r \in Clients, LockTarget(r)
  PROVE  IInv'
<1> DEFINE things == {CredLock(req[r].revokes)}
<1>1. CASE Quit(r) BY <1>1, Quits
<1>2. CASE ~Quit(r)
  <2>1. /\ Lock(r, things) /\ FreeFor(r, things) /\ To(r, "commit") /\ UNCHANGED <<cred, code, req>>
    BY <1>2 DEF LockTarget
  <2>2. Knows(locks[r], "target", req[r]) BY DEF LockTarget, IInv
  <2>3. Knows(locks[r] \cup things, "commit", req[r]) BY <2>2 DEF Knows
  <2>4. req' = [req EXCEPT ![r] = req[r]] BY <2>1 DEF IInv, Shape
  <2> QED BY <2>1, <2>3, <2>4, GoesOn
<1> QED BY <1>1, <1>2

LEMMA LocksOld ==
  ASSUME IInv, NEW r \in Clients, LockOld(r)
  PROVE  IInv'
<1> DEFINE j == req[r]
           mine == (j.old \cap Live) \cup {j.code}
           things == {CodeLock(c) : c \in mine}
<1>1. /\ Lock(r, things) /\ To(r, "commit") /\ UNCHANGED <<cred, code, req>>
      /\ code[j.code] = Unmade /\ \A q \in Clients \ {r} : CodeLock(j.code) \notin locks[q]
      /\ FreeFor(r, {CodeLock(c) : c \in j.old})
  BY DEF LockOld
<1>2. FreeFor(r, things) BY <1>1 DEF FreeFor
<1>3. Knows(locks[r], "old", j) BY DEF LockOld, IInv
<1>4. ASSUME NEW k \in Codes \ {j.code}, CodeLock(k) \in things PROVE code[k] = Made
  <2>1. PICK c \in mine : CodeLock(k) = CodeLock(c) BY <1>4
  <2>2. k = c BY <2>1 DEF CodeLock
  <2> QED BY <1>4, <2>2, LiveIsMade DEF Live, IInv, Good
<1>5. Knows(locks[r] \cup things, "commit", j) BY <1>1, <1>3, <1>4 DEF Knows
<1>6. req' = [req EXCEPT ![r] = j] BY <1>1 DEF IInv, Shape
<1> QED BY <1>1, <1>2, <1>5, <1>6, GoesOn

-----------------------------------------------------------------------------
\* A commit: it changes no active credential and no code but those it has locked.
LEMMA Commits ==
  ASSUME IInv, NEW r \in Clients, End(r),
         \A c \in Creds : cred[c].is = "active" /\ CredLock(c) \notin locks[r] => cred'[c].is = "active",
         \A k \in Codes : CodeLock(k) \notin locks[r] => code'[k] = code[k],
         cred' = [c \in Creds |-> cred'[c]], code' = [k \in Codes |-> code'[k]],
         \A c \in Creds : IsCred(cred'[c]), Good'
  PROVE  IInv'
<1>1. /\ locks' = [locks EXCEPT ![r] = {}] /\ at' = [at EXCEPT ![r] = "new"]
      /\ req' = [req EXCEPT ![r] = Idle]
  BY DEF End, To
<1>2. /\ locks'[r] = {} /\ at'[r] = "new" /\ req'[r] = Idle
      /\ \A q \in Clients \ {r} : locks'[q] = locks[q] /\ at'[q] = at[q] /\ req'[q] = req[q]
  BY <1>1 DEF IInv, Shape
<1>3. Shape' BY <1>1 DEF IInv, Shape
<1>4. Exclusive' BY <1>2 DEF IInv, Exclusive
<1>5. ASSUME NEW q \in Clients PROVE Knows(locks[q], at[q], req[q])'
  <2>1. CASE q = r BY <1>2, <2>1 DEF Knows, Idle
  <2>2. CASE q # r
    <3>1. Knows(locks[q], at[q], req[q]) /\ \A x \in locks[q] : x \notin locks[r]
      BY <2>2 DEF IInv, Exclusive
    <3> QED BY <1>2, <2>2, <3>1 DEF Knows
  <2> QED BY <2>1, <2>2
<1> QED BY <1>3, <1>4, <1>5 DEF IInv

\* An enrolment uses the code it holds, which is one that was just made.
LEMMA UsesCode ==
  ASSUME IInv, NEW r \in Clients, CommitPair(r)
  PROVE  LET k == req[r].code IN
         /\ k \in Codes /\ CodeLock(k) \in locks[r] /\ code[k] = Made
         /\ code' = [code EXCEPT ![k] = Used]
<1> DEFINE k == req[r].code
<1>1. k \in Codes /\ CodeLock(k) \in locks[r] /\ code[k] = Made BY DEF CommitPair, IInv, Knows
<1>2. code' = [code EXCEPT ![k] = [Made EXCEPT !.uses = @ + 1]]
  BY <1>1 DEF CommitPair, IInv, Shape
<1>3. [Made EXCEPT !.uses = @ + 1] = Used BY DEF Made, Used
<1> QED BY <1>1, <1>2, <1>3

\* A new code supersedes those it has locked, none of which was used.
LEMMA MakesCode ==
  ASSUME IInv, NEW r \in Clients, CommitCode(r)
  PROVE  /\ \A c \in Codes : code[c] = Used => code'[c] = Used
         /\ \A c \in Codes : code'[c] \in CodeRows
         /\ \A c \in Codes : CodeLock(c) \notin locks[r] => code'[c] = code[c]
         /\ code' = [c \in Codes |-> code'[c]]
<1> DEFINE k == req[r].code
           Over == [Made EXCEPT !.until = "over"]
<1>1. code' = [c \in Codes |-> CASE c = k -> Made
                                 [] CodeLock(c) \in locks[r] /\ c # k ->
                                      [code[c] EXCEPT !.until = "over"]
                                 [] OTHER -> code[c]]
  BY DEF CommitCode
<1>2. /\ k \in Codes /\ CodeLock(k) \in locks[r] /\ code[k] = Unmade
      /\ \A x \in Codes \ {k} : CodeLock(x) \in locks[r] => code[x] = Made
  BY DEF CommitCode, IInv, Knows
<1>3. Made # Used /\ Unmade # Used /\ Over \in CodeRows BY DEF Made, Unmade, Used, CodeRows
<1>4. \A x \in Codes : code'[x] \in {Made, Over, code[x]} BY <1>1, <1>2
<1>5. \A c \in Codes : code'[c] \in CodeRows BY <1>3, <1>4, CodesAreRows DEF IInv, Good
<1> HIDE DEF Over
<1>6. \A c \in Codes : code[c] = Used => code'[c] = Used
  <2> SUFFICES ASSUME NEW c \in Codes, code[c] = Used PROVE code'[c] = Used OBVIOUS
  <2>1. c # k /\ CodeLock(c) \notin locks[r] BY <1>2, <1>3
  <2> QED BY <1>1, <2>1
<1>7. \A c \in Codes : CodeLock(c) \notin locks[r] => code'[c] = code[c] BY <1>1, <1>2
<1> QED BY <1>1, <1>5, <1>6, <1>7

LEMMA CommitsPair ==
  ASSUME CodesApart, IInv, NEW r \in Clients, CommitPair(r)
  PROVE  IInv'
<1> DEFINE new == req[r].new
           k == req[r].code
<1>1. /\ cred' = [cred EXCEPT ![new] = Fresh(req[r].key, k)] /\ code' = [code EXCEPT ![k] = Used]
      /\ End(r)
  BY UsesCode DEF CommitPair
<1>2. k \in Codes /\ CodeLock(k) \in locks[r] /\ code[k] = Made BY UsesCode
<1>3. /\ \A c \in Creds \ {new} : cred'[c] = cred[c]
      /\ \A c \in Creds : c = new => cred'[c] = Fresh(req[r].key, k)
      /\ code'[k] = Used /\ \A x \in Codes \ {k} : code'[x] = code[x]
      /\ cred' = [c \in Creds |-> cred'[c]] /\ code' = [x \in Codes |-> code'[x]]
  BY <1>1, <1>2 DEF IInv, Shape
<1>4. \A c \in Creds : c = new => /\ IsCred(cred'[c]) /\ cred'[c].is = "active" /\ cred'[c].via = k
                                  /\ cred'[c].by = NoOne
  BY <1>3, FreshCred
<1>5. \A c \in Creds : cred[c].via # k
  <2>1. Made # Used BY DEF Made, Used
  <2> QED BY <1>2, <2>1 DEF IInv, Good, CodeEnrolsOnce, CodesApart
<1>6. \A c \in Creds : cred'[c].is = "active" => cred'[c].by = NoOne BY <1>3, <1>4 DEF IInv, Good
<1>7. NoMutualRevocation' BY <1>3, <1>4, NoOneIsNoCred DEF IInv, Good, NoMutualRevocation
<1>8. CodeEnrolsOnce'
  <2>1. ASSUME NEW c \in Creds, NEW d \in Creds, cred'[c].via = cred'[d].via, cred'[c].via # NoCode
        PROVE  c = d
    BY <1>3, <1>4, <1>5, <2>1 DEF IInv, Good, CodeEnrolsOnce
  <2>2. ASSUME NEW c \in Creds, cred'[c].via # NoCode PROVE code'[cred'[c].via] = Used
    <3>1. CASE c = new BY <1>3, <1>4, <3>1
    <3>2. CASE c # new
      <4>1. cred'[c].via = cred[c].via /\ cred[c].via \in Codes \ {k}
        BY <1>3, <1>5, <2>2, <3>2 DEF IInv, Good
      <4> QED BY <1>3, <2>2, <4>1 DEF IInv, Good, CodeEnrolsOnce
    <3> QED BY <3>1, <3>2
  <2> QED BY <2>1, <2>2 DEF CodeEnrolsOnce
<1>11. \A c \in Creds : cred'[c].via \in Codes \cup {NoCode} BY <1>2, <1>3, <1>4 DEF IInv, Good
<1>9. \A c \in Creds : IsCred(cred'[c]) BY <1>3, <1>4 DEF IInv, Shape
<1>12. \A c \in Codes : code'[c] \in CodeRows BY <1>3, CodesAreRows DEF IInv, Good
<1>10. Good' BY <1>6, <1>7, <1>8, <1>11, <1>12 DEF Good
<1> QED BY <1>1, <1>2, <1>3, <1>4, <1>9, <1>10, Commits

LEMMA CommitsRevocation ==
  ASSUME IInv, NEW r \in Clients, CommitRevocation(r)
  PROVE  IInv'
<1> DEFINE j == req[r]
           by == IF j.op = "lost" THEN j.actor ELSE j.revokes
<1>1. /\ at[r] = "commit" /\ j.op \in {"rotate", "lost", "self"} /\ End(r) /\ code' = code
      /\ cred' = [c \in Creds |-> CASE c = j.revokes -> Revoked(c, IF j.op = "lost" THEN j.actor ELSE c)
                                    [] j.op = "rotate" /\ c = j.new -> Fresh(j.key, NoCode)
                                    [] OTHER -> cred[c]]
  BY DEF CommitRevocation
<1>2. /\ CredLock(j.revokes) \in locks[r]
      /\ j.op = "lost" => j.actor \in Creds /\ cred[j.actor].is = "active"
      /\ j.op = "rotate" => j.new # j.revokes
  BY <1>1 DEF IInv, Knows
<1>3. /\ cred' = [c \in Creds |-> cred'[c]]
      /\ \A c \in Creds : c = j.revokes => cred'[c] = Revoked(c, by)
      /\ \A c \in Creds : c # j.revokes => \/ cred'[c] = cred[c]
                                           \/ j.op = "rotate" /\ cred'[c] = Fresh(j.key, NoCode)
  <2> DEFINE new == Fresh(j.key, NoCode)
             old(c) == Revoked(c, IF j.op = "lost" THEN j.actor ELSE c)
  <2>1. cred' = [c \in Creds |-> CASE c = j.revokes -> old(c)
                                    [] j.op = "rotate" /\ c = j.new -> new
                                    [] OTHER -> cred[c]]
    BY <1>1
  <2>2. \A c \in Creds : c = j.revokes => old(c) = Revoked(c, by) OBVIOUS
  <2> HIDE DEF new, old
  <2>3. cred' = [c \in Creds |-> cred'[c]] BY <2>1
  <2>4. \A c \in Creds : cred'[c] = CASE c = j.revokes -> old(c)
                                      [] j.op = "rotate" /\ c = j.new -> new
                                      [] OTHER -> cred[c]
    BY <2>1
  <2>5. \A c \in Creds : c = j.revokes => cred'[c] = old(c)
    BY <1>2, <2>4
  <2>6. \A c \in Creds : c # j.revokes => cred'[c] = cred[c] \/ (j.op = "rotate" /\ cred'[c] = new)
    BY <2>4
  <2> QED BY <2>2, <2>3, <2>5, <2>6 DEF new
<1>4. \A c \in Creds : c = j.revokes =>
        IsCred(cred'[c]) /\ cred'[c].is = "revoked" /\ cred'[c].via = cred[c].via /\ cred'[c].by = by
  BY <1>3, RevokedCred DEF IInv, Shape
<1>5. \A c \in Creds : c # j.revokes =>
        \/ cred'[c] = cred[c]
        \/ /\ j.op = "rotate" /\ IsCred(cred'[c]) /\ cred'[c].is = "active" /\ cred'[c].via = NoCode
           /\ cred'[c].by = NoOne
  BY <1>3, FreshCred
<1> HIDE DEF j, by
<1>6. \A c \in Creds : cred'[c].is = "active" => cred'[c].by = NoOne
  BY <1>4, <1>5 DEF IInv, Good
<1>7. ASSUME NEW c \in Creds, c = j.revokes, NEW d \in Creds, cred'[c].by = d, cred'[d].by = c
      PROVE  c = d
  <2>1. d = by BY <1>4, <1>7
  <2>2. CASE j.op # "lost" BY <1>7, <2>1, <2>2 DEF by
  <2>3. CASE j.op = "lost" /\ d # c
    <3>1. cred[d].by = NoOne BY <1>2, <2>1, <2>3 DEF by, IInv, Good
    <3>2. cred'[d] = cred[d] BY <1>5, <1>7, <2>3
    <3> QED BY <1>7, <3>1, <3>2, NoOneIsNoCred
  <2> QED BY <2>2, <2>3
<1>8. NoMutualRevocation'
  <2>1. ASSUME NEW c \in Creds, NEW d \in Creds, cred'[c].by = d, cred'[d].by = c,
               c # j.revokes, d # j.revokes
        PROVE  c = d
    BY <1>5, <2>1, NoOneIsNoCred DEF IInv, Good, NoMutualRevocation
  <2> QED BY <1>7, <2>1 DEF NoMutualRevocation
<1>9. \A c \in Creds : cred'[c].via = cred[c].via \/ cred'[c].via = NoCode BY <1>4, <1>5
<1>10. CodeEnrolsOnce' BY <1>1, <1>9 DEF IInv, Good, CodeEnrolsOnce
<1>11. \A c \in Creds : IsCred(cred'[c]) BY <1>4, <1>5 DEF IInv, Shape
<1>12. \A c \in Creds : cred[c].is = "active" /\ CredLock(c) \notin locks[r] => cred'[c].is = "active"
  BY <1>2, <1>5
<1>13. code' = [k \in Codes |-> code'[k]] BY <1>1 DEF IInv, Shape
<1>14. \A c \in Creds : cred'[c].via \in Codes \cup {NoCode} BY <1>9 DEF IInv, Good
<1>16. \A c \in Codes : code'[c] \in CodeRows BY <1>1 DEF IInv, Good
<1>15. Good' BY <1>6, <1>8, <1>10, <1>14, <1>16 DEF Good
<1> QED BY <1>1, <1>3, <1>11, <1>12, <1>13, <1>15, Commits

LEMMA CommitsCode ==
  ASSUME IInv, NEW r \in Clients, CommitCode(r)
  PROVE  IInv'
<1>1. End(r) /\ cred' = cred BY DEF CommitCode
<1>2. Good' BY <1>1, MakesCode DEF IInv, Good, NoMutualRevocation, CodeEnrolsOnce
<1> QED BY <1>1, <1>2, MakesCode, Commits DEF IInv, Shape

-----------------------------------------------------------------------------
LEMMA Starts ==
  ASSUME IInv, NEW r \in Clients,
         \/ \E d \in Devices, c \in Codes, k \in EnrolKeys : AskPair(r, d, c, k)
         \/ \E c \in Creds, k \in EnrolKeys : AskRotate(r, c, k)
         \/ \E c, d \in Creds : AskRevokeLost(r, c, d)
         \/ \E c \in Creds : AskRevoke(r, c)
         \/ \E c \in Codes : AskProvision(r, c)
  PROVE  IInv'
<1>1. ASSUME NEW d, NEW c, NEW k, AskPair(r, d, c, k) PROVE IInv'
  BY <1>1, Asks DEF AskPair
<1>2. ASSUME NEW c \in Creds, NEW k, AskRotate(r, c, k) PROVE IInv'
  BY <1>2, NextGenIsOther, Asks DEF AskRotate
<1>3. ASSUME NEW c, NEW d, AskRevokeLost(r, c, d) PROVE IInv' BY <1>3, Asks DEF AskRevokeLost
<1>4. ASSUME NEW c, AskRevoke(r, c) PROVE IInv' BY <1>4, Asks DEF AskRevoke
<1>5. ASSUME NEW c \in Codes, AskProvision(r, c) PROVE IInv' BY <1>5, Asks DEF AskProvision
<1> QED BY <1>1, <1>2, <1>3, <1>4, <1>5

LEMMA Step ==
  ASSUME CodesApart, IInv, [Next]_vars
  PROVE  IInv'
<1>1. CASE UNCHANGED vars
  <2>1. Shape' /\ Exclusive' BY <1>1 DEF vars, IInv, Shape, Exclusive
  <2>2. Good' BY <1>1 DEF vars, IInv, Good, NoMutualRevocation, CodeEnrolsOnce
  <2>3. \A r \in Clients : Knows(locks[r], at[r], req[r])' BY <1>1 DEF vars, IInv, Knows
  <2> QED BY <2>1, <2>2, <2>3 DEF IInv
<1>2. ASSUME NEW r \in Clients,
             \/ EnterGate(r) \/ LockKnown(r) \/ LockCode(r) \/ FindActive(r) \/ CountActive(r)
             \/ InsertPaired(r) \/ InsertRotated(r) \/ LockCurrent(r) \/ LockTarget(r) \/ LockOld(r)
      PROVE  IInv'
  BY <1>2, EntersGate, LocksKnown, LocksCode, FindsActive, CountsActive, Inserts, LocksCurrent,
     LocksTarget, LocksOld
<1>3. ASSUME NEW r \in Clients, CommitPair(r) \/ CommitRevocation(r) \/ CommitCode(r) \/ Abort(r)
      PROVE  IInv'
  BY <1>3, CommitsPair, CommitsRevocation, CommitsCode, Quits DEF Abort
<1>4. CASE Next BY <1>2, <1>3, <1>4, Starts DEF Next
<1> QED BY <1>1, <1>4

LEMMA Consequences == IInv => NoMutualRevocation /\ CodeEnrolsOnce
BY DEF IInv, Good

\* Of two devices that report each other lost, with requests for any number of others under way,
\* at most one revokes the other (revoke_lost_device).
THEOREM NeverEachOther == ASSUME CodesApart PROVE Spec => []NoMutualRevocation
<1> QED BY Initial, Step, Consequences, PTL DEF Spec

\* A pairing code enrols one device, and none once a newer code superseded it
\* (pair_device, device_enrollment.py:237).
THEOREM CodesEnrolOnce == ASSUME CodesApart PROVE Spec => []CodeEnrolsOnce
<1> QED BY Initial, Step, Consequences, PTL DEF Spec
-----------------------------------------------------------------------------
\* The rows are well formed.  A generation follows its device's last one, which is revoked by then:
\* what a request has read of it before it inserts stays true, since no row is ever unrevoked.
Before(c) == <<c[1], c[2] - 1>>
Row == [is : {"absent", "active", "revoked"}, key : EnrolKeys \cup {NoKey},
        via : Codes \cup {NoCode}, by : Creds \cup {NoOne}]
Closed(c) == c[2] > 1 => cred[Before(c)].is = "revoked"
Unused(k) == k # NoKey => \A c \in Creds : cred[c].key # k
RowsOK ==
  /\ \A c \in Creds : cred[c] \in Row
  /\ \A c, d \in Creds : cred[c].key = cred[d].key /\ cred[c].key # NoKey => c = d
  /\ \A c \in Creds : cred[c].is # "absent" => Closed(c)
  /\ code \in [Codes -> CodeRows]

\* What a request at statement g that asks j names, and what it has read of the rows.
Choosing == {"code", "find", "count", "insert", "commit"}
Asked(g, j) ==
  /\ g = "new" => j = Idle
  /\ g # "new" => j.op \in {"pair", "rotate", "lost", "self", "code"}
  /\ g \in {"gate", "known"} => j.device \in Devices /\ j.code \in Codes /\ j.key \in EnrolKeys
  /\ j.op = "pair" /\ g \in Choosing => j.new \in Creds /\ j.code \in Codes /\ j.key \in EnrolKeys
  /\ j.op \in {"rotate", "lost", "self"} => j.revokes \in Creds
  /\ j.op = "rotate" => j.new \in Creds /\ j.key \in EnrolKeys /\ Before(j.new) = j.revokes
Inserted(g, j) == g = "commit" /\ j.op \in {"pair", "rotate"}
Relies(g, j) ==
  /\ g = "known" => \A c \in j.known : c \in Creds /\ c[1] = j.device /\ cred[c].is # "absent"
  /\ j.op = "pair" /\ g \in Choosing => Closed(j.new)
  /\ \/ j.op \in {"lost", "self", "rotate"} /\ g = "commit"
     \/ j.op = "rotate" /\ g = "insert"
     => cred[j.revokes].is = "active"
  /\ Inserted(g, j) => cred[j.new].is = "absent" /\ Unused(j.key)
Others(r, j) == \A q \in Clients \ {r} : Draft(q) => req[q].new[1] # j.new[1] /\ req[q].key # j.key
Apart == \A r \in Clients : Draft(r) => Others(r, req[r])

Typed == RowsOK /\ Apart /\ \A r \in Clients : Asked(at[r], req[r]) /\ Relies(at[r], req[r])

MaxGenIsNat == MaxGen \in Nat

\* Every set of numbers that is not empty has a least one.
LEMMA LeastOf ==
  ASSUME NEW T, T \subseteq Nat, T # {}
  PROVE  \E x \in T : \A y \in T : x <= y
<1>1. PICK x \in T : \A y \in T : <<y, x>> \notin OpToRel(<, Nat)
  BY NatLessThanWellFounded, WFMin
<1>2. \A y \in T : ~(y < x) BY <1>1 DEF OpToRel
<1> QED BY <1>2

\* A set of generations has a last one.
LEMMA LastGen ==
  ASSUME MaxGenIsNat, NEW S, S \subseteq 0..MaxGen, S # {}
  PROVE  Max(S) \in S /\ \A x \in S : Max(S) >= x
<1> DEFINE T == {n \in Nat : \E x \in S : n = MaxGen - x}
<1>1. \A x \in S : x \in Nat /\ MaxGen - x \in Nat BY DEF MaxGenIsNat
<1>2. T # {} BY <1>1
<1>3. PICK n \in T : \A k \in T : n <= k BY <1>2, LeastOf
<1>4. PICK x \in S : n = MaxGen - x BY <1>3
<1>5. ASSUME NEW y \in S PROVE x >= y
  <2>1. MaxGen - y \in T BY <1>1
  <2> QED BY <1>1, <1>3, <1>4, <2>1 DEF MaxGenIsNat
<1> QED BY <1>5 DEF Max

\* Credentials are pairs; the one before another generation than the first is a credential.
LEMMA CredPairs ==
  ASSUME MaxGenIsNat, NEW c \in Creds
  PROVE  /\ c = <<c[1], c[2]>> /\ c[1] \in Devices /\ c[2] \in Nat /\ c[2] >= 1 /\ c[2] <= MaxGen
         /\ Before(c) # c
         /\ c[2] > 1 => Before(c) \in Creds
<1>1. c = <<c[1], c[2]>> /\ c[1] \in Devices /\ c[2] \in 1..MaxGen BY DEF Creds, Gens
<1>2. c[2] \in Nat /\ c[2] >= 1 /\ c[2] <= MaxGen BY <1>1 DEF MaxGenIsNat
<1>3. c[2] > 1 => c[2] - 1 \in Gens BY <1>2 DEF Gens, MaxGenIsNat
<1>4. Before(c)[2] = c[2] - 1 BY DEF Before
<1>5. Before(c) # c BY <1>2, <1>4
<1> QED BY <1>1, <1>2, <1>3, <1>5 DEF Before, Creds

LEMMA NextGen ==
  ASSUME MaxGenIsNat, NEW c \in Creds, c[2] < MaxGen
  PROVE  LET new == <<c[1], c[2] + 1>> IN new \in Creds /\ Before(new) = c
<1> DEFINE new == <<c[1], c[2] + 1>>
<1>1. new[1] = c[1] /\ new[2] = c[2] + 1 OBVIOUS
<1>2. c = <<c[1], c[2]>> /\ c[1] \in Devices /\ c[2] \in Nat /\ c[2] >= 1 BY CredPairs
<1>3. c[2] + 1 \in Gens /\ (c[2] + 1) - 1 = c[2] BY <1>2 DEF Gens, MaxGenIsNat
<1> QED BY <1>1, <1>2, <1>3 DEF Before, Creds

\* A fresh and a revoked row are rows.
LEMMA NewRows ==
  /\ \A k \in EnrolKeys, c \in Codes \cup {NoCode} :
       Fresh(k, c) \in Row /\ Fresh(k, c).is = "active" /\ Fresh(k, c).key = k
  /\ \A c \in Creds, by \in Creds : cred[c] \in Row =>
       Revoked(c, by) \in Row /\ Revoked(c, by).is = "revoked" /\ Revoked(c, by).key = cred[c].key
BY DEF Row, Fresh, Revoked

-----------------------------------------------------------------------------
\* A request goes on to statement g with j.
LEMMA MovesTyped ==
  ASSUME IInv, Typed, NEW r \in Clients, NEW g, NEW j,
         at' = [at EXCEPT ![r] = g], req' = [req EXCEPT ![r] = j], UNCHANGED <<cred, code>>,
         Asked(g, j), Relies(g, j), Inserted(g, j) => Others(r, j)
  PROVE  Typed'
<1>1. /\ at'[r] = g /\ req'[r] = j
      /\ \A q \in Clients \ {r} : at'[q] = at[q] /\ req'[q] = req[q]
  BY DEF IInv, Shape
<1>2. RowsOK' BY DEF Typed, RowsOK, Closed
<1>3. \A h, k : Relies(h, k) => Relies(h, k)' BY DEF Relies, Closed, Unused
<1>4. \A q \in Clients : Asked(at[q], req[q])' /\ Relies(at[q], req[q])'
  BY <1>1, <1>3 DEF Typed, Asked
<1>5. /\ Draft(r)' = Inserted(g, j)
      /\ \A q \in Clients \ {r} : Draft(q)' = Draft(q)
  BY <1>1 DEF Draft, Inserted
<1>6. ASSUME NEW p \in Clients, Draft(p)', NEW q \in Clients \ {p}, Draft(q)'
      PROVE  req'[q].new[1] # req'[p].new[1] /\ req'[q].key # req'[p].key
  <2>1. CASE p = r BY <1>1, <1>5, <1>6, <2>1 DEF Others
  <2>2. CASE q = r BY <1>1, <1>5, <1>6, <2>2 DEF Others
  <2>3. CASE p # r /\ q # r BY <1>1, <1>5, <1>6, <2>3 DEF Typed, Apart, Others
  <2> QED BY <2>1, <2>2, <2>3
<1>7. Apart' BY <1>6 DEF Apart, Others
<1> QED BY <1>2, <1>4, <1>7 DEF Typed

LEMMA QuitsTyped ==
  ASSUME IInv, Typed, NEW r \in Clients, Quit(r)
  PROVE  Typed'
<1>1. /\ at' = [at EXCEPT ![r] = "new"] /\ req' = [req EXCEPT ![r] = Idle] /\ UNCHANGED <<cred, code>>
  BY DEF Quit, End, To, Rows
<1>2. Asked("new", Idle) /\ Relies("new", Idle) /\ ~Inserted("new", Idle)
  BY DEF Asked, Relies, Idle, Inserted, Choosing
<1> QED BY <1>1, <1>2, MovesTyped

\* A request goes on with what it asked.
LEMMA GoesOnTyped ==
  ASSUME IInv, Typed, NEW r \in Clients, NEW g, To(r, g), UNCHANGED <<cred, code, req>>,
         Asked(g, req[r]), Relies(g, req[r]), Inserted(g, req[r]) => Others(r, req[r])
  PROVE  Typed'
<1>1. req' = [req EXCEPT ![r] = req[r]] BY DEF IInv, Shape
<1> QED BY <1>1, MovesTyped DEF To

\* A commit: rows stay what they were but for those of the request that ends.
LEMMA CommitsTyped ==
  ASSUME MaxGenIsNat, IInv, Typed, NEW r \in Clients, End(r), RowsOK',
         \A c \in Creds : cred[c].is = "revoked" => cred'[c].is = "revoked",
         \A c \in Creds : cred[c].is # "absent" => cred'[c].is # "absent",
         \A c \in Creds : cred[c].is = "active" /\ CredLock(c) \notin locks[r] => cred'[c].is = "active",
         \A q \in Clients \ {r} : Draft(q) =>
           /\ cred'[req[q].new].is = "absent"
           /\ req[q].key # NoKey => \A c \in Creds : cred'[c].key # req[q].key
  PROVE  Typed'
<1>1. at' = [at EXCEPT ![r] = "new"] /\ req' = [req EXCEPT ![r] = Idle]
  BY DEF End, To
<1>2. /\ at'[r] = "new" /\ req'[r] = Idle
      /\ \A q \in Clients \ {r} : at'[q] = at[q] /\ req'[q] = req[q]
  BY <1>1 DEF IInv, Shape
<1>3. ~Draft(r)' /\ \A q \in Clients \ {r} : Draft(q)' = Draft(q)
  BY <1>2 DEF Draft
<1>4. Apart'
  <2>1. ASSUME NEW p \in Clients, Draft(p)', NEW q \in Clients \ {p}, Draft(q)'
        PROVE  req'[q].new[1] # req'[p].new[1] /\ req'[q].key # req'[p].key
    BY <1>2, <1>3, <2>1 DEF Typed, Apart, Others
  <2> QED BY <2>1 DEF Apart, Others
<1>5. ASSUME NEW q \in Clients \ {r} PROVE Relies(at[q], req[q])'
  <2> DEFINE j == req[q]
             g == at[q]
  <2>1. Asked(g, j) /\ Relies(g, j) /\ Knows(locks[q], g, j) BY DEF Typed, IInv
  <2>2. g' = g /\ j' = j BY <1>2
  <2>3. g = "known" => \A c \in j.known : c \in Creds /\ c[1] = j.device /\ cred'[c].is # "absent"
    BY <2>1 DEF Relies
  <2>4. j.op = "pair" /\ g \in Choosing => (j.new[2] > 1 => cred'[Before(j.new)].is = "revoked")
    <3> SUFFICES ASSUME j.op = "pair", g \in Choosing, j.new[2] > 1
                 PROVE  cred'[Before(j.new)].is = "revoked"
      OBVIOUS
    <3>1. j.new \in Creds /\ Closed(j.new) BY <2>1 DEF Asked, Relies
    <3>2. Before(j.new) \in Creds BY <3>1, CredPairs
    <3> QED BY <3>1, <3>2 DEF Closed
  <2>5. \/ j.op \in {"lost", "self", "rotate"} /\ g = "commit"
        \/ j.op = "rotate" /\ g = "insert"
        => cred'[j.revokes].is = "active"
    <3> SUFFICES ASSUME \/ j.op \in {"lost", "self", "rotate"} /\ g = "commit"
                        \/ j.op = "rotate" /\ g = "insert"
                 PROVE  cred'[j.revokes].is = "active"
      OBVIOUS
    <3>1. j.revokes \in Creds /\ cred[j.revokes].is = "active" BY <2>1 DEF Asked, Relies
    <3>2. CredLock(j.revokes) \in locks[q] BY <2>1 DEF Knows
    <3>3. CredLock(j.revokes) \notin locks[r] BY <3>2 DEF IInv, Exclusive
    <3> QED BY <3>1, <3>3
  <2>6. Inserted(g, j) => cred'[j.new].is = "absent" /\ Unused(j.key)'
    <3> SUFFICES ASSUME Inserted(g, j) PROVE cred'[j.new].is = "absent" /\ Unused(j.key)'
      OBVIOUS
    <3>1. Draft(q) BY DEF Inserted, Draft
    <3>2. /\ cred'[req[q].new].is = "absent"
          /\ req[q].key # NoKey => \A c \in Creds : cred'[c].key # req[q].key
      BY <3>1
    <3>3. req'[q] = req[q] BY <1>2
    <3> QED BY <3>2, <3>3 DEF Unused
  <2> QED BY <2>2, <2>3, <2>4, <2>5, <2>6 DEF Relies, Closed, Inserted, Unused
<1>6. Asked(at[r], req[r])' /\ Relies(at[r], req[r])'
  BY <1>2 DEF Asked, Relies, Idle, Inserted, Choosing
<1>7. \A q \in Clients \ {r} : Asked(at[q], req[q])' BY <1>2 DEF Typed, Asked
<1> QED BY <1>4, <1>5, <1>6, <1>7 DEF Typed
-----------------------------------------------------------------------------
\* A new request.
LEMMA AsksTyped ==
  ASSUME IInv, Typed, NEW r \in Clients, NEW j, NEW s, s \in {"gate", "current", "old"}, Ask(r, j, s),
         Asked(s, j)
  PROVE  Typed'
<1>1. /\ at' = [at EXCEPT ![r] = s] /\ req' = [req EXCEPT ![r] = j] /\ UNCHANGED <<cred, code>>
  BY DEF Ask, To
<1>2. Relies(s, j) /\ ~Inserted(s, j) BY DEF Relies, Inserted, Choosing
<1> QED BY <1>1, <1>2, MovesTyped

LEMMA StartsTyped ==
  ASSUME MaxGenIsNat, IInv, Typed, NEW r \in Clients,
         \/ \E d \in Devices, c \in Codes, k \in EnrolKeys : AskPair(r, d, c, k)
         \/ \E c \in Creds, k \in EnrolKeys : AskRotate(r, c, k)
         \/ \E c, d \in Creds : AskRevokeLost(r, c, d)
         \/ \E c \in Creds : AskRevoke(r, c)
         \/ \E c \in Codes : AskProvision(r, c)
  PROVE  Typed'
<1>1. ASSUME NEW d \in Devices, NEW c \in Codes, NEW k \in EnrolKeys, AskPair(r, d, c, k)
      PROVE  Typed'
  <2> DEFINE j == [op |-> "pair", device |-> d, code |-> c, key |-> k]
  <2>1. Asked("gate", j) BY DEF Asked, Choosing
  <2> QED BY <1>1, <2>1, AsksTyped DEF AskPair
<1>2. ASSUME NEW c \in Creds, NEW k \in EnrolKeys, AskRotate(r, c, k) PROVE Typed'
  <2> DEFINE new == <<c[1], c[2] + 1>>
             j == [op |-> "rotate", revokes |-> c, key |-> k, new |-> new]
  <2>1. new \in Creds /\ Before(new) = c BY <1>2, NextGen DEF AskRotate
  <2>2. Asked("current", j)
    <3> HIDE DEF new
    <3> QED BY <2>1 DEF Asked, Choosing
  <2> QED BY <1>2, <2>2, AsksTyped DEF AskRotate
<1>3. ASSUME NEW c \in Creds, NEW d \in Creds, AskRevokeLost(r, c, d) PROVE Typed'
  <2> DEFINE j == [op |-> "lost", actor |-> c, revokes |-> d]
  <2>1. Asked("current", j) BY DEF Asked, Choosing
  <2> QED BY <1>3, <2>1, AsksTyped DEF AskRevokeLost
<1>4. ASSUME NEW c \in Creds, AskRevoke(r, c) PROVE Typed'
  <2> DEFINE j == [op |-> "self", revokes |-> c]
  <2>1. Asked("current", j) BY DEF Asked, Choosing
  <2> QED BY <1>4, <2>1, AsksTyped DEF AskRevoke
<1>5. ASSUME NEW c \in Codes, AskProvision(r, c) PROVE Typed'
  <2> DEFINE j == [op |-> "code", code |-> c, old |-> Live]
  <2>1. Asked("old", j) BY DEF Asked, Choosing
  <2> QED BY <1>5, <2>1, AsksTyped DEF AskProvision
<1> QED BY <1>1, <1>2, <1>3, <1>4, <1>5

LEMMA EntersGateTyped ==
  ASSUME IInv, Typed, NEW r \in Clients, EnterGate(r)
  PROVE  Typed'
<1> DEFINE known == {c \in Creds : c[1] = req[r].device /\ cred[c].is # "absent"}
           j == [op |-> "pair", device |-> req[r].device, code |-> req[r].code, key |-> req[r].key,
                 known |-> known]
<1>1. CASE Quit(r) BY <1>1, QuitsTyped
<1>2. CASE ~Quit(r)
  <2>1. at' = [at EXCEPT ![r] = "known"] /\ UNCHANGED <<cred, code>> /\ req' = [req EXCEPT ![r] = j]
    BY <1>2 DEF EnterGate, To, Rows
  <2>2. Asked("gate", req[r]) BY DEF EnterGate, Typed
  <2>3. \A c \in known : c \in Creds /\ c[1] = req[r].device /\ cred[c].is # "absent" OBVIOUS
  <2> HIDE DEF known
  <2>4. j.op = "pair" /\ j.device = req[r].device /\ j.code = req[r].code /\ j.key = req[r].key
        /\ j.known = known
    OBVIOUS
  <2> HIDE DEF j
  <2>5. Asked("known", j) /\ Relies("known", j) /\ ~Inserted("known", j)
    BY <2>2, <2>3, <2>4 DEF Asked, Relies, Inserted, Choosing
  <2> QED BY <2>1, <2>5, MovesTyped
<1> QED BY <1>1, <1>2

\* The generation after the known ones: they are revoked when none of them is active.
LEMMA LocksKnownTyped ==
  ASSUME MaxGenIsNat, IInv, Typed, NEW r \in Clients, LockKnown(r)
  PROVE  Typed'
<1> DEFINE known == req[r].known
           gens == {c[2] : c \in known} \cup {0}
           last == Max(gens)
           new == <<req[r].device, last + 1>>
           j == [op |-> "pair", code |-> req[r].code, key |-> req[r].key, new |-> new]
<1>1. CASE Quit(r) BY <1>1, QuitsTyped
<1>2. CASE ~Quit(r)
  <2>1. /\ at' = [at EXCEPT ![r] = "code"] /\ UNCHANGED <<cred, code>> /\ req' = [req EXCEPT ![r] = j]
        /\ known \cap Active = {} /\ last + 1 \in Gens
    BY <1>2 DEF LockKnown, To, Rows
  <2>2. Asked("known", req[r]) /\ Relies("known", req[r]) BY DEF LockKnown, Typed
  <2>3. \A c \in known : c \in Creds /\ c[1] = req[r].device /\ cred[c].is = "revoked"
    <3>1. \A c \in known : c \in Creds /\ c[1] = req[r].device /\ cred[c].is # "absent"
      BY <2>2 DEF Relies
    <3>2. \A c \in known : cred[c].is # "active" BY <2>1, <3>1 DEF Active
    <3>3. \A c \in Creds : cred[c].is \in {"absent", "active", "revoked"} BY DEF Typed, RowsOK, Row
    <3> QED BY <3>1, <3>2, <3>3
  <2>4. gens \subseteq 0..MaxGen /\ gens # {}
    <3>1. \A c \in known : c[2] \in 0..MaxGen BY <2>3, CredPairs DEF MaxGenIsNat
    <3> QED BY <3>1 DEF MaxGenIsNat
  <2>5. last \in gens
    <3> HIDE DEF gens
    <3> QED BY <2>4, LastGen
  <2>6. new \in Creds /\ new[1] = req[r].device /\ new[2] = last + 1
    <3>1. req[r].device \in Devices BY <2>2 DEF Asked
    <3> HIDE DEF last
    <3> QED BY <2>1, <3>1 DEF Creds
  <2>7. last \in Nat BY <2>4, <2>5 DEF MaxGenIsNat
  <2>8. new[2] > 1 => cred[Before(new)].is = "revoked"
    <3> SUFFICES ASSUME new[2] > 1 PROVE cred[Before(new)].is = "revoked" OBVIOUS
    <3>1. last # 0 BY <2>6, <2>7
    <3>2. PICK c \in known : c[2] = last
      <4> HIDE DEF last
      <4> QED BY <2>5, <3>1
    <3>3. c = <<c[1], c[2]>> BY <2>3, CredPairs
    <3>4. (last + 1) - 1 = last BY <2>7
    <3>5. Before(new) = c BY <2>3, <2>6, <3>2, <3>3, <3>4 DEF Before
    <3> QED BY <2>3, <3>5
  <2> HIDE DEF new
  <2>9. j.op = "pair" /\ j.new = new /\ j.code = req[r].code /\ j.key = req[r].key OBVIOUS
  <2> HIDE DEF j
  <2>10. Asked("code", j) /\ Relies("code", j) /\ ~Inserted("code", j)
    BY <2>2, <2>6, <2>8, <2>9 DEF Asked, Relies, Closed, Inserted, Choosing
  <2> QED BY <2>1, <2>10, MovesTyped
<1> QED BY <1>1, <1>2

LEMMA LocksCodeTyped ==
  ASSUME IInv, Typed, NEW r \in Clients, LockCode(r)
  PROVE  Typed'
<1>1. CASE Quit(r) BY <1>1, QuitsTyped
<1>2. CASE ~Quit(r)
  <2>1. To(r, "find") /\ UNCHANGED <<cred, code, req>> BY <1>2 DEF LockCode
  <2>2. Asked("code", req[r]) /\ Relies("code", req[r]) /\ req[r].op = "pair"
    BY DEF LockCode, Typed, IInv, Knows
  <2>3. Asked("find", req[r]) /\ Relies("find", req[r]) /\ ~Inserted("find", req[r])
    BY <2>2 DEF Asked, Relies, Inserted, Choosing
  <2> QED BY <2>1, <2>3, GoesOnTyped
<1> QED BY <1>1, <1>2

LEMMA CountsTyped ==
  ASSUME IInv, Typed, NEW r \in Clients, FindActive(r) \/ CountActive(r)
  PROVE  Typed'
<1>1. CASE Quit(r) BY <1>1, QuitsTyped
<1>2. CASE ~Quit(r)
  <2>1. PICK g, j :
          /\ g \in {"count", "insert"}
          /\ at' = [at EXCEPT ![r] = g] /\ UNCHANGED <<cred, code>> /\ req' = [req EXCEPT ![r] = j]
          /\ j.op = "pair" /\ j.new = req[r].new /\ j.code = req[r].code /\ j.key = req[r].key
    <3>1. ASSUME FindActive(r)
          PROVE  \E j : /\ at' = [at EXCEPT ![r] = "count"] /\ UNCHANGED <<cred, code>>
                        /\ req' = [req EXCEPT ![r] = j]
                        /\ j.op = "pair" /\ j.new = req[r].new /\ j.code = req[r].code /\ j.key = req[r].key
      <4> WITNESS [op |-> "pair", code |-> req[r].code, key |-> req[r].key, new |-> req[r].new,
                   found |-> Active]
      <4> QED BY <3>1 DEF FindActive, To
    <3>2. ASSUME CountActive(r)
          PROVE  \E j : /\ at' = [at EXCEPT ![r] = "insert"] /\ UNCHANGED <<cred, code>>
                        /\ req' = [req EXCEPT ![r] = j]
                        /\ j.op = "pair" /\ j.new = req[r].new /\ j.code = req[r].code /\ j.key = req[r].key
      <4> WITNESS [op |-> "pair", code |-> req[r].code, key |-> req[r].key, new |-> req[r].new]
      <4> QED BY <1>2, <3>2 DEF CountActive, To, Rows
    <3> QED BY <3>1, <3>2
  <2>2. at[r] \in {"find", "count"} /\ Asked(at[r], req[r]) /\ Relies(at[r], req[r])
        /\ req[r].op = "pair"
    BY DEF FindActive, CountActive, Typed, IInv, Knows
  <2>3. Asked(g, j) /\ Relies(g, j) /\ ~Inserted(g, j)
    BY <2>1, <2>2 DEF Asked, Relies, Inserted, Choosing, Closed
  <2> QED BY <2>1, <2>3, MovesTyped
<1> QED BY <1>1, <1>2

\* An insert goes through only when no committed row and no other draft stands in the way.
LEMMA InsertsTyped ==
  ASSUME IInv, Typed, NEW r \in Clients, InsertPaired(r) \/ InsertRotated(r)
  PROVE  Typed'
<1> DEFINE j == req[r]
<1>1. CASE Quit(r) BY <1>1, QuitsTyped
<1>2. CASE ~Quit(r)
  <2>1. /\ To(r, "commit") /\ UNCHANGED <<cred, code, locks, req>>
        /\ at[r] = "insert" /\ j.op \in {"pair", "rotate"}
        /\ cred[j.new].is = "absent" /\ j.key \notin UsedKeys
        /\ \A q \in Clients \ {r} : Draft(q) => req[q].new[1] # j.new[1] /\ req[q].key # j.key
    BY <1>2 DEF InsertPaired, InsertRotated, Insert
  <2>2. Asked("insert", j) /\ Relies("insert", j) BY <2>1 DEF Typed
  <2>3. Unused(j.key) BY <2>1 DEF Unused, UsedKeys
  <2>4. Asked("commit", j) BY <2>1, <2>2 DEF Asked, Choosing
  <2>5. Relies("commit", j) BY <2>1, <2>2, <2>3 DEF Relies, Choosing
  <2>6. Others(r, j) BY <2>1 DEF Others
  <2> QED BY <2>1, <2>4, <2>5, <2>6, GoesOnTyped
<1> QED BY <1>1, <1>2

LEMMA LocksCurrentTyped ==
  ASSUME IInv, Typed, NEW r \in Clients, LockCurrent(r)
  PROVE  Typed'
<1> DEFINE j == req[r]
           c == IF j.op = "lost" THEN j.actor ELSE j.revokes
           g == CASE j.op = "rotate" -> "insert" [] j.op = "lost" -> "target" [] OTHER -> "commit"
<1>1. CASE Quit(r) BY <1>1, QuitsTyped
<1>2. CASE ~Quit(r)
  <2>1. To(r, g) /\ UNCHANGED <<cred, code, req>> /\ c \in Active BY <1>2 DEF LockCurrent
  <2>2. j.op \in {"rotate", "lost", "self"} /\ Asked("current", j)
    BY DEF LockCurrent, IInv, Knows, Typed
  <2>3. Asked(g, j) /\ Relies(g, j) /\ ~Inserted(g, j)
    BY <2>1, <2>2 DEF Asked, Relies, Inserted, Choosing, Active
  <2> QED BY <2>1, <2>3, GoesOnTyped
<1> QED BY <1>1, <1>2

LEMMA LocksOthersTyped ==
  ASSUME IInv, Typed, NEW r \in Clients, LockTarget(r) \/ LockOld(r)
  PROVE  Typed'
<1> DEFINE j == req[r]
<1>1. CASE Quit(r) BY <1>1, QuitsTyped
<1>2. CASE ~Quit(r)
  <2>1. /\ To(r, "commit") /\ UNCHANGED <<cred, code, req>>
        /\ \/ at[r] = "target" /\ j.op = "lost" /\ cred[j.revokes].is = "active"
           \/ at[r] = "old" /\ j.op = "code"
    BY <1>2 DEF LockTarget, LockOld, IInv, Knows, Active
  <2>2. Asked(at[r], j) BY DEF Typed
  <2>3. Asked("commit", j) /\ Relies("commit", j) /\ ~Inserted("commit", j)
    BY <2>1, <2>2 DEF Asked, Relies, Inserted, Choosing
  <2> QED BY <2>1, <2>3, GoesOnTyped
<1> QED BY <1>1, <1>2
-----------------------------------------------------------------------------
\* A device's new credential is committed: there was none, and the one before it is revoked.
LEMMA CommitsPairTyped ==
  ASSUME MaxGenIsNat, IInv, Typed, NEW r \in Clients, CommitPair(r)
  PROVE  Typed'
<1> DEFINE new == req[r].new
           key == req[r].key
           k == req[r].code
<1>1. /\ cred' = [cred EXCEPT ![new] = Fresh(key, k)] /\ code' = [code EXCEPT ![k] = Used]
      /\ End(r) /\ Draft(r)
  BY UsesCode DEF CommitPair, Draft
<1>2. /\ new \in Creds /\ k \in Codes /\ key \in EnrolKeys
      /\ Closed(new) /\ cred[new].is = "absent" /\ Unused(key)
  <2>1. at[r] = "commit" /\ req[r].op = "pair" /\ Asked(at[r], req[r]) /\ Relies(at[r], req[r])
    BY DEF CommitPair, Typed
  <2> QED BY <2>1 DEF Asked, Relies, Inserted, Choosing
<1>3. cred'[new] = Fresh(key, k) /\ \A c \in Creds \ {new} : cred'[c] = cred[c]
  BY <1>1, <1>2 DEF IInv, Shape
<1>4. cred'[new] \in Row /\ cred'[new].is = "active" /\ cred'[new].key = key
  BY <1>2, <1>3, NewRows
<1> HIDE DEF new, key, k
<1>5. \A c \in Creds : cred'[c] \in Row BY <1>3, <1>4 DEF Typed, RowsOK
<1>6. \A c, d \in Creds : cred'[c].key = cred'[d].key /\ cred'[c].key # NoKey => c = d
  <2>1. ASSUME NEW c \in Creds, c # new, cred[c].key = key, key # NoKey PROVE FALSE
    BY <1>2, <2>1 DEF Unused
  <2> QED BY <1>3, <1>4, <2>1 DEF Typed, RowsOK
<1>7. ASSUME NEW c \in Creds, cred'[c].is # "absent" PROVE Closed(c)'
  <2> SUFFICES ASSUME c[2] > 1 PROVE cred'[Before(c)].is = "revoked" BY DEF Closed
  <2>1. Before(c) \in Creds BY CredPairs
  <2>2. cred[Before(c)].is = "revoked" BY <1>2, <1>3, <1>7 DEF Closed, Typed, RowsOK
  <2>3. Before(c) # new BY <1>2, <2>2
  <2> QED BY <1>3, <2>1, <2>2, <2>3
<1>8. code' \in [Codes -> CodeRows]
  BY <1>1, CodesAreRows DEF Typed, RowsOK, k
<1>9. RowsOK' BY <1>5, <1>6, <1>7, <1>8 DEF RowsOK, Row
<1>10. ASSUME NEW q \in Clients \ {r}, Draft(q)
       PROVE  /\ cred'[req[q].new].is = "absent"
              /\ req[q].key # NoKey => \A c \in Creds : cred'[c].key # req[q].key
  <2>1. Asked(at[q], req[q]) /\ Relies(at[q], req[q]) /\ Inserted(at[q], req[q])
    BY <1>10 DEF Typed, Draft, Inserted
  <2>2. req[q].new \in Creds /\ cred[req[q].new].is = "absent" /\ Unused(req[q].key)
    BY <2>1 DEF Asked, Relies, Inserted, Choosing
  <2>3. req[q].new # new /\ req[q].key # key
    BY <1>1, <1>10 DEF Typed, Apart, Others, new, key
  <2> QED BY <1>3, <1>4, <2>2, <2>3 DEF Unused
<1>11. /\ \A c \in Creds : cred[c].is = "revoked" => cred'[c].is = "revoked"
       /\ \A c \in Creds : cred[c].is # "absent" => cred'[c].is # "absent"
       /\ \A c \in Creds : cred[c].is = "active" => cred'[c].is = "active"
  BY <1>2, <1>3
<1> QED BY <1>1, <1>9, <1>10, <1>11, CommitsTyped

\* A credential is revoked, and in a rotation the next one is committed with it.
LEMMA CommitsRevocationTyped ==
  ASSUME MaxGenIsNat, IInv, Typed, NEW r \in Clients, CommitRevocation(r)
  PROVE  Typed'
<1> DEFINE j == req[r]
           old == j.revokes
           new == j.new
           rotates == j.op = "rotate"
           by == IF j.op = "lost" THEN j.actor ELSE old
<1>1. /\ at[r] = "commit" /\ j.op \in {"rotate", "lost", "self"} /\ End(r) /\ code' = code
      /\ cred' = [c \in Creds |-> CASE c = old -> Revoked(c, IF j.op = "lost" THEN j.actor ELSE c)
                                    [] j.op = "rotate" /\ c = new -> Fresh(j.key, NoCode)
                                    [] OTHER -> cred[c]]
  BY DEF CommitRevocation
<1>2. Asked(at[r], j) /\ Relies(at[r], j) /\ Knows(locks[r], at[r], j) BY DEF Typed, IInv
<1>3. old \in Creds /\ by \in Creds /\ cred[old].is = "active" /\ CredLock(old) \in locks[r]
  BY <1>1, <1>2 DEF Asked, Relies, Knows
<1>4. rotates => /\ new \in Creds /\ Before(new) = old /\ new # old /\ j.key \in EnrolKeys
                 /\ cred[new].is = "absent" /\ Unused(j.key) /\ Draft(r)
  BY <1>1, <1>2 DEF Asked, Relies, Knows, Inserted, Draft
<1>5. /\ cred'[old] = Revoked(old, by)
      /\ rotates => cred'[new] = Fresh(j.key, NoCode)
      /\ \A c \in Creds : c # old /\ ~(rotates /\ c = new) => cred'[c] = cred[c]
  BY <1>1, <1>3, <1>4
<1>6. /\ cred'[old] \in Row /\ cred'[old].is = "revoked" /\ cred'[old].key = cred[old].key
      /\ rotates => cred'[new] \in Row /\ cred'[new].is = "active" /\ cred'[new].key = j.key
  BY <1>3, <1>4, <1>5, NewRows DEF Typed, RowsOK
<1> HIDE DEF old, new, by, rotates
<1>7. \A c \in Creds : cred'[c] \in Row
  <2> SUFFICES ASSUME NEW c \in Creds PROVE cred'[c] \in Row OBVIOUS
  <2>1. CASE c = old BY <1>6, <2>1
  <2>2. CASE c # old /\ rotates /\ c = new BY <1>6, <2>2
  <2>3. CASE c # old /\ ~(rotates /\ c = new) BY <1>5, <2>3 DEF Typed, RowsOK
  <2> QED BY <2>1, <2>2, <2>3
<1>8. \A c \in Creds : cred'[c].key = cred[c].key \/ (rotates /\ c = new /\ cred'[c].key = j.key)
  BY <1>5, <1>6
<1>9. \A c, d \in Creds : cred'[c].key = cred'[d].key /\ cred'[c].key # NoKey => c = d
  <2>1. rotates /\ j.key # NoKey => \A c \in Creds : cred[c].key # j.key BY <1>4 DEF Unused
  <2>2. \A c, d \in Creds : cred[c].key = cred[d].key /\ cred[c].key # NoKey => c = d
    BY DEF Typed, RowsOK
  <2> QED BY <1>8, <2>1, <2>2
<1>10. ASSUME NEW c \in Creds, cred'[c].is # "absent" PROVE Closed(c)'
  <2> SUFFICES ASSUME c[2] > 1 PROVE cred'[Before(c)].is = "revoked" BY DEF Closed
  <2>1. Before(c) \in Creds BY CredPairs
  <2>2. CASE rotates /\ c = new BY <1>4, <1>6, <2>2
  <2>3. CASE ~(rotates /\ c = new)
    <3>1. cred[c].is # "absent" BY <1>3, <1>5, <1>10, <2>3
    <3>2. cred[Before(c)].is = "revoked" BY <3>1 DEF Closed, Typed, RowsOK
    <3>3. Before(c) # old /\ ~(rotates /\ Before(c) = new) BY <1>3, <1>4, <3>2
    <3> QED BY <1>5, <2>1, <3>2, <3>3
  <2> QED BY <2>2, <2>3
<1>11. RowsOK' BY <1>1, <1>7, <1>9, <1>10 DEF Typed, RowsOK, Row
<1>12. ASSUME NEW q \in Clients \ {r}, Draft(q)
       PROVE  /\ cred'[req[q].new].is = "absent"
              /\ req[q].key # NoKey => \A c \in Creds : cred'[c].key # req[q].key
  <2>1. Asked(at[q], req[q]) /\ Relies(at[q], req[q]) /\ Inserted(at[q], req[q])
    BY <1>12 DEF Typed, Draft, Inserted
  <2>2. req[q].new \in Creds /\ cred[req[q].new].is = "absent" /\ Unused(req[q].key)
    BY <2>1 DEF Asked, Relies, Inserted, Choosing
  <2>3. rotates => req[q].new # new /\ req[q].key # j.key
    BY <1>4, <1>12 DEF Typed, Apart, Others, new
  <2>4. req[q].new # old BY <1>3, <2>2
  <2>5. cred'[req[q].new] = cred[req[q].new] BY <1>5, <2>2, <2>3, <2>4
  <2>6. req[q].key # NoKey => \A c \in Creds : cred'[c].key # req[q].key
    BY <1>8, <2>2, <2>3 DEF Unused
  <2> QED BY <2>2, <2>5, <2>6
<1>13. /\ \A c \in Creds : cred[c].is = "revoked" => cred'[c].is = "revoked"
       /\ \A c \in Creds : cred[c].is # "absent" => cred'[c].is # "absent"
       /\ \A c \in Creds : cred[c].is = "active" /\ CredLock(c) \notin locks[r] => cred'[c].is = "active"
  BY <1>3, <1>4, <1>5, <1>6
<1> QED BY <1>1, <1>11, <1>12, <1>13, CommitsTyped

LEMMA CommitsCodeTyped ==
  ASSUME MaxGenIsNat, IInv, Typed, NEW r \in Clients, CommitCode(r)
  PROVE  Typed'
<1>1. cred' = cred /\ End(r) BY DEF CommitCode
<1>2. code' \in [Codes -> CodeRows]
  BY MakesCode
<1>3. RowsOK' BY <1>1, <1>2 DEF Typed, RowsOK, Closed
<1>4. ASSUME NEW q \in Clients \ {r}, Draft(q)
      PROVE  /\ cred'[req[q].new].is = "absent"
             /\ req[q].key # NoKey => \A c \in Creds : cred'[c].key # req[q].key
  <2>1. Relies(at[q], req[q]) /\ Inserted(at[q], req[q]) BY <1>4 DEF Typed, Draft, Inserted
  <2> QED BY <1>1, <2>1 DEF Relies, Unused
<1> QED BY <1>1, <1>3, <1>4, CommitsTyped

LEMMA TypedInitially == ASSUME MaxGenIsNat PROVE Init => Typed
<1> SUFFICES ASSUME Init PROVE Typed OBVIOUS
<1>1. \A c \in Creds : /\ cred[c] \in Row /\ cred[c].key = NoKey
                       /\ cred[c].is # "absent" => c[2] = 1
  BY DEF Init, Row, Fresh, Absent
<1>2. RowsOK
  <2>1. code \in [Codes -> CodeRows] BY CodesAreRows DEF Init
  <2> QED BY <1>1, <2>1 DEF RowsOK, Closed
<1>3. Apart BY DEF Init, Apart, Draft
<1>4. \A r \in Clients : Asked(at[r], req[r]) /\ Relies(at[r], req[r])
  BY DEF Init, Asked, Relies, Idle, Inserted, Choosing
<1> QED BY <1>2, <1>3, <1>4 DEF Typed

LEMMA StepTyped ==
  ASSUME MaxGenIsNat, IInv, Typed, [Next]_vars
  PROVE  Typed'
<1>1. CASE UNCHANGED vars
  <2>1. RowsOK' BY <1>1 DEF vars, Typed, RowsOK, Closed
  <2>2. Apart' BY <1>1 DEF vars, Typed, Apart, Draft, Others
  <2>3. \A r \in Clients : Asked(at[r], req[r])' /\ Relies(at[r], req[r])'
    BY <1>1 DEF vars, Typed, Asked, Relies, Closed, Unused
  <2> QED BY <2>1, <2>2, <2>3 DEF Typed
<1>2. ASSUME NEW r \in Clients,
             \/ EnterGate(r) \/ LockKnown(r) \/ LockCode(r) \/ FindActive(r) \/ CountActive(r)
             \/ InsertPaired(r) \/ InsertRotated(r) \/ LockCurrent(r) \/ LockTarget(r) \/ LockOld(r)
      PROVE  Typed'
  BY <1>2, EntersGateTyped, LocksKnownTyped, LocksCodeTyped, CountsTyped, InsertsTyped,
     LocksCurrentTyped, LocksOthersTyped
<1>3. ASSUME NEW r \in Clients, CommitPair(r) \/ CommitRevocation(r) \/ CommitCode(r) \/ Abort(r)
      PROVE  Typed'
  BY <1>3, CommitsPairTyped, CommitsRevocationTyped, CommitsCodeTyped, QuitsTyped DEF Abort
<1>4. CASE Next BY <1>2, <1>3, <1>4, StartsTyped DEF Next
<1> QED BY <1>1, <1>4

LEMMA TypedMeans == IInv /\ Typed => TypeOK
<1> SUFFICES ASSUME IInv, Typed PROVE TypeOK OBVIOUS
<1>1. \A r \in Clients : at[r] = "new" <=> req[r] = Idle
  <2>1. \A r \in Clients : Asked(at[r], req[r]) BY DEF Typed
  <2>2. Idle.op = "none" BY DEF Idle
  <2> QED BY <2>1, <2>2 DEF Asked
<1>2. \A r, q \in Clients : locks[r] \cap locks[q] # {} => r = q BY DEF IInv, Exclusive
<1>3. \A c \in Creds : cred[c].is # "absent" /\ c[2] > 1 => cred[<<c[1], c[2] - 1>>].is = "revoked"
  BY DEF Typed, RowsOK, Closed, Before
<1> QED BY <1>1, <1>2, <1>3 DEF TypeOK, Typed, RowsOK, Row

\* Keys name one credential, generations follow each other without a gap and all but the newest of a
\* device are revoked, for any number of requests at once (pair_device, rotate_device_credential).
THEOREM EnrolmentTyped == ASSUME CodesApart, MaxGenIsNat PROVE Spec => []TypeOK
<1>1. Init => IInv /\ Typed BY Initial, TypedInitially
<1>2. (IInv /\ Typed) /\ [Next]_vars => (IInv /\ Typed)' BY Step, StepTyped
<1> QED BY <1>1, <1>2, TypedMeans, PTL DEF Spec
=============================================================================
