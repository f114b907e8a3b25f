-------------------------- MODULE ExecutionContract --------------------------
(***************************************************************************)
(* What the execution core promises about one intent, without broker,      *)
(* sessions, retries or crashes: the phases of its durable rows, the lots  *)
(* known to be held and the lots known to be covered by a stop.            *)
(***************************************************************************)
EXTENDS Integers

CONSTANT Planned

VARIABLES
  phase,    \* where the intent is
  held,     \* lots the core knows to be held
  covered   \* lots whose stop a read-back has confirmed

cvars == <<phase, held, covered>>

Init == phase = "pending" /\ held = 0 /\ covered = 0

\* before any order may exist at the broker; from "sent" one may
Send == phase = "pending" /\ phase' = "sent" /\ UNCHANGED <<held, covered>>

Drop == phase = "pending" /\ phase' = "dropped" /\ UNCHANGED <<held, covered>>

\* only an authoritative "no such order" leads back
FoundAbsent == phase = "sent" /\ phase' = "pending" /\ UNCHANGED <<held, covered>>

Know == phase = "sent" /\ phase' = "known" /\ UNCHANGED <<held, covered>>

Open ==
  /\ phase = "known" /\ phase' = "open"
  /\ held' \in 1 .. Planned
  /\ UNCHANGED covered

Grow ==
  /\ phase = "open" /\ held' \in held + 1 .. Planned
  /\ UNCHANGED <<phase, covered>>

\* a read-back covers everything held, never a part of it
Cover ==
  /\ phase = "open" /\ covered' = held
  /\ UNCHANGED <<phase, held>>

Guard ==
  /\ phase = "open" /\ phase' = "guarded" /\ covered' = held
  /\ UNCHANGED held

\* from here on the known exposure is what the emergency order sells
Emergency ==
  /\ phase = "open" /\ phase' = "closing"
  /\ UNCHANGED <<held, covered>>

Close == phase = "closing" /\ phase' = "closed" /\ UNCHANGED <<held, covered>>

Next ==
  \/ Send \/ Drop \/ FoundAbsent \/ Know
  \/ Open \/ Grow \/ Cover \/ Guard \/ Emergency \/ Close

Spec == Init /\ [][Next]_cvars
=============================================================================
