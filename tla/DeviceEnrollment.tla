--------------------------- MODULE DeviceEnrollment ---------------------------
(***************************************************************************)
(* The credentials of the owner's devices (device_enrollment.py), the      *)
(* pairing codes that issue them (device_pairing.py) and the requests that *)
(* rotate and revoke them (api/v1/device_enrollment.py).                   *)
(*                                                                         *)
(* Every request is one transaction at READ COMMITTED.  SELECT ... FOR     *)
(* UPDATE finds its rows in the snapshot it starts with, waits for those   *)
(* others have locked and drops the ones that no longer match: rows that   *)
(* appear meanwhile are not seen.  A code's life of minutes, the optional  *)
(* owner key and audit fields are left out.                                *)
(***************************************************************************)
EXTENDS Integers, FiniteSets, FiniteSetsExt

CONSTANTS
  Devices,
  Clients,     \* requests under way at once; each makes one after the other
  EnrolKeys,   \* idempotency keys
  Codes,       \* pairing codes
  Enrolled,    \* the devices enrolled at the start
  MaxDevices,  \* SIGNALAI_MAX_ACTIVE_DEVICES
  MaxGen       \* bound on generations

Gens == 1..MaxGen
Creds == Devices \X Gens
NoOne == <<"none", 0>>   \* no credential
NoCode == "no code"
NoKey == "no key"

VARIABLES
  cred,   \* device_credentials by device and generation, committed
  code,   \* device_pairing_sessions, committed
  locks,  \* what each request has locked
  at,     \* the statement each request is at
  req     \* what it asks and has read

vars == <<cred, code, locks, at, req>>

\* A code: whether expires_at is ahead, or the newer code has put it back to its own moment; and how
\* often it was used, of max_uses = 1.
Unmade == [until |-> "none", uses |-> 0]
Made == [until |-> "ahead", uses |-> 0]
Used == [until |-> "ahead", uses |-> 1]
CodeRows == [until : {"none", "ahead", "over"}, uses : 0..1]

Absent == [is |-> "absent", key |-> NoKey, via |-> NoCode, by |-> NoOne]
Fresh(k, c) == [is |-> "active", key |-> k, via |-> c, by |-> NoOne]
Idle == [op |-> "none"]

Init ==
  /\ cred = [c \in Creds |-> IF c[1] \in Enrolled /\ c[2] = 1 THEN Fresh(NoKey, NoCode) ELSE Absent]
  /\ code = [c \in Codes |-> Unmade]
  /\ locks = [r \in Clients |-> {}]
  /\ at = [r \in Clients |-> "new"] /\ req = [r \in Clients |-> Idle]

-----------------------------------------------------------------------------
Active == {c \in Creds : cred[c].is = "active"}
Live == {c \in Codes : code[c].until = "ahead" /\ code[c].uses < 1}
UsedKeys == {cred[c].key : c \in Creds} \ {NoKey}

\* Lockable things: the advisory lock of enrolments, rows of credentials and of codes.
Gate == <<"gate">>
CredLock(c) == <<"cred", c[1], c[2]>>
CodeLock(c) == <<"code", c>>
FreeFor(r, things) == \A q \in Clients \ {r} : locks[q] \cap things = {}
Lock(r, things) == locks' = [locks EXCEPT ![r] = @ \cup things]

Rows == <<cred, code>>
To(r, s) == at' = [at EXCEPT ![r] = s]
End(r) == /\ To(r, "new") /\ req' = [req EXCEPT ![r] = Idle]
          /\ locks' = [locks EXCEPT ![r] = {}]
\* An answer that changes nothing: a rejection, or what was asked is done already.
Quit(r) == End(r) /\ UNCHANGED Rows
Ask(r, j, s) == /\ at[r] = "new" /\ req' = [req EXCEPT ![r] = j] /\ To(r, s)
                /\ UNCHANGED <<cred, code, locks>>

\* Rows that other requests have inserted and not committed.
Draft(r) == at[r] = "commit" /\ req[r].op \in {"pair", "rotate"}
Revoking(c) == \E q \in Clients : at[q] = "commit" /\ req[q].op # "pair" /\ CredLock(c) \in locks[q]
                                  /\ req[q].revokes = c

\* The insert of the row new under key k: it waits for drafts and for revocations it depends on,
\* and the unique indexes refuse it if a committed row stands in the way.
Insert(r, new, k, revokes) ==
  LET standing == Active \ revokes IN
  /\ \A q \in Clients \ {r} : Draft(q) => req[q].new[1] # new[1] /\ req[q].key # k
  /\ \A c \in standing : c[1] = new[1] => ~Revoking(c)
  /\ IF cred[new].is # "absent" \/ k \in UsedKeys \/ \E c \in standing : c[1] = new[1]
     THEN Quit(r)
     ELSE To(r, "commit") /\ UNCHANGED <<cred, code, locks, req>>

-----------------------------------------------------------------------------
\* A device pairs with a code.
AskPair(r, d, c, k) ==
  c \in Live /\ Ask(r, [op |-> "pair", device |-> d, code |-> c, key |-> k], "gate")

\* Under the advisory lock the key is looked up and the device's rows are found.
EnterGate(r) ==
  /\ at[r] = "gate" /\ FreeFor(r, {Gate})
  /\ IF req[r].key \in UsedKeys
     THEN Quit(r)
     ELSE /\ Lock(r, {Gate}) /\ To(r, "known")
          /\ req' = [req EXCEPT ![r] = [op |-> "pair", device |-> @.device, code |-> @.code,
               key |-> @.key, known |-> {c \in Creds : c[1] = @.device /\ cred[c].is # "absent"}]]
          /\ UNCHANGED Rows

LockKnown(r) ==
  LET known == req[r].known
      next == Max({c[2] : c \in known} \cup {0}) + 1 IN
  /\ at[r] = "known" /\ FreeFor(r, {CredLock(c) : c \in known})
  /\ IF known \cap Active # {}
     THEN Quit(r)
     ELSE /\ next \in Gens
          /\ Lock(r, {CredLock(c) : c \in known}) /\ To(r, "code")
          /\ req' = [req EXCEPT ![r] = [op |-> "pair", code |-> @.code, key |-> @.key,
                                        new |-> <<@.device, next>>]]
          /\ UNCHANGED Rows

\* The code is locked; its expiry must be what it was when it let the request in, and a use left.
LockCodeByUses(r) ==  \* mutant: the expiry is not compared
  /\ at[r] = "code" /\ FreeFor(r, {CodeLock(req[r].code)})
  /\ IF code[req[r].code].uses < 1
     THEN Lock(r, {CodeLock(req[r].code)}) /\ To(r, "find") /\ UNCHANGED <<cred, code, req>>
     ELSE Quit(r)
LockCode(r) ==
  /\ at[r] = "code" /\ FreeFor(r, {CodeLock(req[r].code)})
  /\ IF req[r].code \in Live
     THEN Lock(r, {CodeLock(req[r].code)}) /\ To(r, "find") /\ UNCHANGED <<cred, code, req>>
     ELSE Quit(r)

\* The active credentials are found, locked and counted.
FindActive(r) ==
  /\ at[r] = "find" /\ To(r, "count")
  /\ req' = [req EXCEPT ![r] = [op |-> "pair", code |-> @.code, key |-> @.key, new |-> @.new,
                                found |-> Active]]
  /\ UNCHANGED <<cred, code, locks>>
CountActive(r) ==
  LET still == req[r].found \cap Active IN
  /\ at[r] = "count" /\ FreeFor(r, {CredLock(c) : c \in req[r].found})
  /\ IF Cardinality(still) >= MaxDevices
     THEN Quit(r)
     ELSE /\ Lock(r, {CredLock(c) : c \in still}) /\ To(r, "insert")
          /\ req' = [req EXCEPT ![r] = [op |-> "pair", code |-> @.code, key |-> @.key, new |-> @.new]]
          /\ UNCHANGED Rows

InsertPaired(r) == at[r] = "insert" /\ req[r].op = "pair" /\ Insert(r, req[r].new, req[r].key, {})

CommitPair(r) ==
  /\ at[r] = "commit" /\ req[r].op = "pair"
  /\ cred' = [cred EXCEPT ![req[r].new] = Fresh(req[r].key, req[r].code)]
  /\ code' = [code EXCEPT ![req[r].code].uses = @ + 1]
  /\ End(r)

-----------------------------------------------------------------------------
\* Requests of a device whose token the middleware, in a transaction of its own, found active.
AskRotate(r, c, k) ==
  /\ c \in Active /\ c[2] < MaxGen
  /\ Ask(r, [op |-> "rotate", revokes |-> c, key |-> k, new |-> <<c[1], c[2] + 1>>], "current")
AskRevokeLost(r, actor, target) ==
  /\ actor \in Active /\ cred[target].is # "absent"
  /\ Ask(r, [op |-> "lost", actor |-> actor, revokes |-> target], "current")
\* A device may give up its token whatever became of it.
AskRevoke(r, c) ==
  /\ cred[c].is # "absent"
  /\ Ask(r, [op |-> "self", revokes |-> c], "current")

LockCurrentOnly(r) ==  \* mutant: the actor's row is locked but not looked at
  LET j == req[r]
      c == IF j.op = "lost" THEN j.actor ELSE j.revokes IN
  /\ at[r] = "current" /\ FreeFor(r, {CredLock(c)})
  /\ IF j.op # "lost" /\ c \notin Active
     THEN Quit(r)
     ELSE /\ Lock(r, {CredLock(c)})
          /\ To(r, CASE j.op = "rotate" -> "insert" [] j.op = "lost" -> "target" [] OTHER -> "commit")
          /\ UNCHANGED <<cred, code, req>>

\* The row the request acts for, or on, is locked and must still be active.
LockCurrent(r) ==
  LET j == req[r]
      c == IF j.op = "lost" THEN j.actor ELSE j.revokes IN
  /\ at[r] = "current" /\ FreeFor(r, {CredLock(c)})
  /\ IF c \notin Active \/ (j.op = "rotate" /\ j.key \in UsedKeys)
     THEN Quit(r)
     ELSE /\ Lock(r, {CredLock(c)})
          /\ To(r, CASE j.op = "rotate" -> "insert" [] j.op = "lost" -> "target" [] OTHER -> "commit")
          /\ UNCHANGED <<cred, code, req>>
LockTarget(r) ==
  /\ at[r] = "target" /\ FreeFor(r, {CredLock(req[r].revokes)})
  /\ IF req[r].revokes = req[r].actor \/ req[r].revokes \notin Active
     THEN Quit(r)
     ELSE Lock(r, {CredLock(req[r].revokes)}) /\ To(r, "commit") /\ UNCHANGED <<cred, code, req>>

InsertRotated(r) ==
  at[r] = "insert" /\ req[r].op = "rotate" /\ Insert(r, req[r].new, req[r].key, {req[r].revokes})

\* mutant: the old credential stays active
RevokedInName(c, by) == [cred[c] EXCEPT !.by = by]
Revoked(c, by) == [cred[c] EXCEPT !.is = "revoked", !.by = by]
CommitRevocation(r) ==
  LET j == req[r] IN
  /\ at[r] = "commit" /\ j.op \in {"rotate", "lost", "self"}
  /\ cred' = [c \in Creds |->
       CASE c = j.revokes -> Revoked(c, IF j.op = "lost" THEN j.actor ELSE c)
         [] j.op = "rotate" /\ c = j.new -> Fresh(j.key, NoCode)
         [] OTHER -> cred[c]]
  /\ End(r) /\ UNCHANGED code

-----------------------------------------------------------------------------
\* A new code is made and supersedes the live ones, which are found and then locked.
AskProvision(r, c) == code[c] = Unmade /\ Ask(r, [op |-> "code", code |-> c, old |-> Live], "old")
LockOld(r) ==
  /\ at[r] = "old" /\ FreeFor(r, {CodeLock(c) : c \in req[r].old})
  /\ code[req[r].code] = Unmade /\ \A q \in Clients \ {r} : CodeLock(req[r].code) \notin locks[q]
  /\ Lock(r, {CodeLock(c) : c \in (req[r].old \cap Live) \cup {req[r].code}})
  /\ To(r, "commit") /\ UNCHANGED <<cred, code, req>>
CommitCode(r) ==
  /\ at[r] = "commit" /\ req[r].op = "code"
  /\ code' = [c \in Codes |-> CASE c = req[r].code -> Made
                                [] CodeLock(c) \in locks[r] /\ c # req[r].code ->
                                     [code[c] EXCEPT !.until = "over"]
                                [] OTHER -> code[c]]
  /\ End(r) /\ UNCHANGED cred

\* The client gives up, the process dies, or the database ends a deadlock: rolled back.
Abort(r) == at[r] # "new" /\ Quit(r)

Next == \E r \in Clients :
  \/ \E d \in Devices, c \in Codes, k \in EnrolKeys : AskPair(r, d, c, k)
  \/ EnterGate(r) \/ LockKnown(r) \/ LockCode(r) \/ FindActive(r) \/ CountActive(r)
  \/ InsertPaired(r) \/ CommitPair(r)
  \/ \E c \in Creds, k \in EnrolKeys : AskRotate(r, c, k)
  \/ \E c, d \in Creds : AskRevokeLost(r, c, d)
  \/ \E c \in Creds : AskRevoke(r, c)
  \/ LockCurrent(r) \/ LockTarget(r) \/ InsertRotated(r) \/ CommitRevocation(r)
  \/ \E c \in Codes : AskProvision(r, c)
  \/ LockOld(r) \/ CommitCode(r) \/ Abort(r)

Spec == Init /\ [][Next]_vars

-----------------------------------------------------------------------------
\* Rows are well formed: keys name one credential, generations follow each other without a gap and
\* all but the newest are revoked (the indexes of models/device.py); a lock has one owner at most.
TypeOK ==
  /\ \A c \in Creds : cred[c] \in [is : {"absent", "active", "revoked"}, key : EnrolKeys \cup {NoKey},
                                   via : Codes \cup {NoCode}, by : Creds \cup {NoOne}]
  /\ \A c, d \in Creds : cred[c].key = cred[d].key /\ cred[c].key # NoKey => c = d
  /\ \A c \in Creds : cred[c].is # "absent" /\ c[2] > 1 => cred[<<c[1], c[2] - 1>>].is = "revoked"
  /\ code \in [Codes -> CodeRows]
  /\ \A r, q \in Clients : locks[r] \cap locks[q] # {} => r = q
  /\ \A r \in Clients : at[r] = "new" <=> req[r] = Idle

\* A code enrols one device, once, and no newer code has superseded one that enrolled, before or
\* after: authenticate_pairing_session is only a first look, the lock of the row and the second
\* comparison decide, on both sides.
CodeEnrolsOnce ==
  /\ \A c, d \in Creds : cred[c].via = cred[d].via /\ cred[c].via # NoCode => c = d
  /\ \A c \in Creds : cred[c].via # NoCode => code[cred[c].via] = Used

\* A revoked device revokes nobody: two devices that report each other lost at once leave one of
\* the two active (revoke_lost_device locks its actor first).
NoMutualRevocation ==
  \A c, d \in Creds : cred[c].by = d /\ cred[d].by = c => c = d

\* "active device limit is reached": there are never more (device_enrollment.py:267).
AtMostLimit == Cardinality(Active) <= MaxDevices

\* "only the latest Telegram message can pair": at most one code is live (device_pairing.py:42).
OnlyLatestPairs == Cardinality(Live) <= 1
=============================================================================
