---------------------------- MODULE OwnerServices ----------------------------
(***************************************************************************)
(* Paper trading (PaperTrading), the notifications (NotificationOutbox),   *)
(* the enrolment of devices (DeviceEnrollment) and the exits of a paper    *)
(* trade (PaperExit) side by side.  They share no state here: every        *)
(* behavior is a behavior of one of the Parts.                             *)
(***************************************************************************)
EXTENDS PaperTrading

CONSTANTS
  Parts,                                                   \* those of the four that are looked at
  Emitters, Scheduler, News, MaxId,                        \* NotificationOutbox
  Devices, Clients, EnrolKeys, Codes, Enrolled, MaxDevices, MaxGen,      \* DeviceEnrollment
  Levels, Start, HourLen, MaxMinute, Horizon, MaxHold, Limit, HandoffAge,
  Policies, Forgotten, Venues, Outages                                   \* PaperExit

VARIABLES
  part,
  events, nextId, channel, phase, batch, sending, told, toggle,
  phone, stream, late, off, doubt, twice,                         \* NotificationOutbox
  cred, code, locks, at, req,                                     \* DeviceEnrollment
  path, paper, policy, venue, live                                \* PaperExit

Outbox == INSTANCE NotificationOutbox
Enrolment == INSTANCE DeviceEnrollment
Exit == INSTANCE PaperExit WITH trade <- paper

\* a code is told from the absence of one, the scheduler is one of the emitters
ASSUME ServicesAssumption ==
  /\ Parts \subseteq {"paper", "outbox", "devices", "exit"}
  /\ Enrolment!NoCode \notin Codes /\ Outbox!NoKey \notin News
  /\ Scheduler \in Emitters /\ MaxId \in Nat \ {0} /\ MaxEvents \in Nat \ {0} /\ MaxGen \in Nat

\* times are minutes, prices are whole quarters of the risk
ASSUME ExitAssumption ==
  /\ Levels \subseteq Int /\ Start \in Int
  /\ HourLen \in 1..MaxMinute /\ Limit \in Nat \ {0}
  /\ {MaxMinute, Horizon, MaxHold, HandoffAge} \subseteq Nat
  /\ Policies \subseteq {"legacy", "defensive", "conviction"} /\ Venues \subseteq {"forts", "crypto"}

outboxVars == <<events, nextId, channel, phase, batch, sending, told, toggle, phone, stream, late, off,
                doubt, twice>>
devicesVars == <<cred, code, locks, at, req>>
exitVars == <<path, paper, policy, venue, live>>

AllInit ==
  /\ part \in Parts
  /\ Init /\ Outbox!Init /\ Enrolment!Init
  /\ IF part = "exit" THEN Exit!Init
     ELSE path = <<>> /\ paper = 0 /\ policy = 0 /\ venue = 0 /\ live = 0

AllNext ==
  /\ UNCHANGED part
  /\ IF part = "paper" THEN Next ELSE UNCHANGED vars
  /\ IF part = "outbox" THEN Outbox!Next ELSE UNCHANGED outboxVars
  /\ IF part = "devices" THEN Enrolment!Next ELSE UNCHANGED devicesVars
  /\ IF part = "exit" THEN Exit!Next ELSE UNCHANGED exitVars

AllSpec == AllInit /\ [][AllNext]_<<part, vars, outboxVars, devicesVars, exitVars>>

-----------------------------------------------------------------------------
\* The type invariants of the four modules: rows, locks, sessions and trades are well formed.
ServicesTypeOK ==
  TypeOK /\ Outbox!TypeOK /\ Enrolment!TypeOK /\ (part = "exit" => Exit!TypeOK)

\* Properties of PaperExit, NotificationOutbox and DeviceEnrollment, where they are explained.
BarsComeAfter == part = "exit" => Exit!BarsComeAfter
ResultAddsUp == part = "exit" => Exit!ResultAddsUp
ReadersMissOnlyLate == Outbox!PhoneMissesOnlyLate /\ Outbox!TelegramMissesOnlyLate
PhoneMissesNothing == Outbox!PhoneMissesNothing
TelegramRepeatsOnlyDoubtful == Outbox!TelegramRepeatsOnlyDoubtful
TelegramDeliversOnce == Outbox!TelegramDeliversOnce
CodeEnrolsOnce == Enrolment!CodeEnrolsOnce
NoMutualRevocation == Enrolment!NoMutualRevocation
AtMostLimit == Enrolment!AtMostLimit
OnlyLatestPairs == Enrolment!OnlyLatestPairs
=============================================================================
