----------------------------- MODULE HealthProbe -----------------------------
(***************************************************************************)
(* The readiness cache of src/src/server/health.ts: readers never wait,    *)
(* one probe at a time asks every engine, and a credential change drops    *)
(* the snapshot and whatever the running probe will find.                  *)
(*                                                                         *)
(* A verdict is modelled by the version of the credential it was read      *)
(* from, so that an outdated verdict can be told from a current one.       *)
(* `None` stands for no snapshot, no probe, or no answer yet.              *)
(***************************************************************************)
EXTENDS Engines, Naturals, FiniteSets

CONSTANTS
  Unknown,    \* the verdict of a check that failed or did not answer in time
  MaxChanges  \* bound: credential changes per engine, and announcements

ASSUME HealthAssumption ==
  /\ None # Unknown
  /\ {None, Unknown} \cap Nat = {}
  /\ MaxChanges \in Nat \ {0}

VARIABLES
  version,    \* engine -> how often its credential has changed
  announced,  \* history: `version` at the last notifyCredentialChange()
  generation, \* health.ts: bumped by every announcement
  snapshot,   \* the published verdicts, or None
  aged,       \* the snapshot is older than PROBE_TTL_MS
  probe       \* the run behind inFlight, or None

healthVars == <<version, announced, generation, snapshot, aged, probe>>

Verdict == Nat \cup {Unknown}

HealthInit ==
  /\ version = [e \in Engine |-> 0]
  /\ announced = version
  /\ generation = 0
  /\ snapshot = None
  /\ aged = FALSE
  /\ probe = None

\* Mutant of OnCredentialChange: forgets that a probe may be running.
OnCredentialChangeDropsOnly ==
  /\ announced' = version'
  /\ snapshot' = None
  /\ aged' = FALSE
  /\ UNCHANGED <<generation, probe>>

\* The onCredentialChange listener.
OnCredentialChange ==
  /\ announced' = version'
  /\ generation' = generation + 1
  /\ snapshot' = None
  /\ aged' = FALSE
  /\ UNCHANGED probe

\* setCredential(), clearCredential() and a device-code login that concluded:
\* the credential is there, and the listeners hear of it in the same step.
AnnouncedChange(e) ==
  /\ generation < MaxChanges
  /\ version[e] < MaxChanges
  /\ version' = [version EXCEPT ![e] = @ + 1]
  /\ OnCredentialChange

\* A CLI that keeps its own credential writes or loses it: the end of a login
\* that is announced later, or a user at a terminal that nobody hears of.
SilentChange(e) ==
  /\ version[e] < MaxChanges
  /\ version' = [version EXCEPT ![e] = @ + 1]
  /\ UNCHANGED <<announced, generation, snapshot, aged, probe>>

\* The login behind an earlier silent change concludes.
LateAnnouncement ==
  /\ generation < MaxChanges
  /\ version # announced
  /\ version' = version
  /\ OnCredentialChange

\* engineHealth(): serve what is there, and start a probe if it is missing or
\* old and none is running.
Read ==
  /\ snapshot = None \/ aged
  /\ probe = None
  /\ probe' = [startedAt |-> generation, found |-> [e \in Engine |-> None]]
  /\ UNCHANGED <<version, announced, generation, snapshot, aged>>

\* checkStatus() of one engine answers.
ProbeAnswers(e) ==
  /\ probe # None
  /\ probe.found[e] = None
  /\ probe' = [probe EXCEPT !.found[e] = version[e]]
  /\ UNCHANGED <<version, announced, generation, snapshot, aged>>

\* It throws, or PROBE_TIMEOUT_MS passes first.
ProbeGivesUp(e) ==
  /\ probe # None
  /\ probe.found[e] = None
  /\ probe' = [probe EXCEPT !.found[e] = Unknown]
  /\ UNCHANGED <<version, announced, generation, snapshot, aged>>

\* Mutant of ProbeEnds: an overtaken probe leaves inFlight set.
ProbeEndsIfCurrent ==
  /\ probe # None
  /\ \A e \in Engine : probe.found[e] # None
  /\ probe.startedAt = generation
  /\ snapshot' = probe.found
  /\ aged' = FALSE
  /\ probe' = None
  /\ UNCHANGED <<version, announced, generation>>

\* All have answered: publish, unless a change was announced meanwhile.
ProbeEnds ==
  /\ probe # None
  /\ \A e \in Engine : probe.found[e] # None
  /\ IF probe.startedAt = generation
     THEN snapshot' = probe.found /\ aged' = FALSE
     ELSE UNCHANGED <<snapshot, aged>>
  /\ probe' = None
  /\ UNCHANGED <<version, announced, generation>>

\* PROBE_TTL_MS passes.
SnapshotAges ==
  /\ snapshot # None
  /\ ~aged
  /\ aged' = TRUE
  /\ UNCHANGED <<version, announced, generation, snapshot, probe>>

HealthNext ==
  \/ \E e \in Engine : AnnouncedChange(e)
  \/ \E e \in Engine : SilentChange(e)
  \/ LateAnnouncement
  \/ Read
  \/ \E e \in Engine : ProbeAnswers(e)
  \/ \E e \in Engine : ProbeGivesUp(e)
  \/ ProbeEnds
  \/ SnapshotAges

HealthSpec == HealthInit /\ [][HealthNext]_healthVars

\* Somebody keeps polling the endpoint and timers fire.  No engine owes an
\* answer: ProbeAnswers has no fairness of its own.
HealthFairness ==
  /\ WF_healthVars(Read)
  /\ \A e \in Engine : WF_healthVars(ProbeGivesUp(e))
  /\ WF_healthVars(ProbeEnds)
  /\ WF_healthVars(SnapshotAges)

FairHealthSpec == HealthSpec /\ HealthFairness

----------------------------------------------------------------------------
\* Types of the module state of health.ts.
HealthTypeOK ==
  /\ version \in [Engine -> Nat]
  /\ announced \in [Engine -> Nat]
  /\ generation \in Nat
  /\ snapshot \in [Engine -> Verdict] \cup {None}
  /\ aged \in BOOLEAN
  /\ probe \in [startedAt : Nat, found : [Engine -> Verdict \cup {None}]] \cup {None}

\* Readiness does not outlive the credential state it describes
\* (health.ts:119-124): no published verdict was read before the last announced
\* change, although the probe that read it may have begun long before.
NoVerdictFromBefore ==
  snapshot # None =>
    \A e \in Engine : snapshot[e] = Unknown \/ snapshot[e] >= announced[e]

\* A change nobody announced is noticed all the same, by age: once an engine's
\* credential is stable, a reader gets a verdict about it as it is.
DriftIsNoticed ==
  \A e \in Engine : version[e] = MaxChanges ~>
    (snapshot # None /\ snapshot[e] \in {MaxChanges, Unknown})
=============================================================================
