---------------------------- MODULE AuthSession ----------------------------
(***************************************************************************)
(* The remote login manager of src/src/auth/session-manager.ts: at most    *)
(* one login attempt per engine, while requests, CLI children, the TTL     *)
(* reaper and shutdown interleave at every `await`.                        *)
(*                                                                         *)
(* One node process runs this code, so everything between two awaits is    *)
(* one action.  An attempt is one createSession() call together with the   *)
(* adapter handle it made; a retry is a new attempt.                       *)
(***************************************************************************)
EXTENDS Engines, Naturals, FiniteSets

CONSTANTS
  Attempt,      \* createSession() calls: the bound on logins per behaviour
  FlowsOf,      \* the flows each engine's descriptor lists
  Injecting,    \* engines whose credential this process holds and injects
  Trusted,      \* trustsCompletionCallers(), read when a login is created
  LateResults   \* an adapter may still report success after cancel()

Flow == {"api-key", "paste-code", "device-code"}

ASSUME ConstantsAssumption ==
  /\ None \notin Attempt
  /\ FlowsOf \in [Engine -> SUBSET Flow]
  /\ Injecting \subseteq Engine
  \* The device-code adapter never hands its caller a credential.
  /\ \A e \in Injecting : "device-code" \notin FlowsOf[e]
  /\ Trusted \in BOOLEAN
  /\ LateResults \in BOOLEAN

VARIABLES
  server,      \* "up", "draining" (stopServer is waiting) or "down"
  engine,      \* the engine and
  flow,        \*   the flow an attempt was created for, None before that
  notify,      \* attempts created with a provisioning URL and generation
  phase,       \* where the attempt stands; for a record, its `status`
  byId,        \* the attempts registered under a session id
  byEngine,    \* engine -> the registered attempt that holds its slot
  starting,    \* engine -> the attempt whose start() is in flight
  cancelled,   \* attempts whose handle.cancel() has been called
  child,       \* the CLI process an attempt's adapter owns
  submitting,  \* records with a submit() in flight: the flag of the code
  driving,     \* how many adapter submit() calls run for the attempt
  waiting,     \* device-code attempts whose wait() has not settled
  persisted,   \* attempts whose CLI wrote the host credential itself
  credential,  \* token-store.ts: engine -> the attempt it came from
  unannounced, \* host credentials written since notifyCredentialChange()
  reported,    \* attempts whose generation a newer create superseded
  syncs        \* how often handleAuthorizedSession() ran for the attempt

requestVars == <<engine, flow, notify>>
tableVars   == <<phase, byId, byEngine, starting>>
handleVars  == <<cancelled, child, submitting, driving, waiting>>
effectVars  == <<persisted, credential, unannounced, reported, syncs>>
vars == <<server, requestVars, tableVars, handleVars, effectVars>>

Phase == {"new", "starting", "rejected", "superseded",
          "pending", "authorized", "failed", "cancelled"}
Serving == server \in {"up", "draining"}

Init ==
  /\ server = "up"
  /\ engine = [a \in Attempt |-> None]
  /\ flow = [a \in Attempt |-> None]
  /\ notify = {}
  /\ phase = [a \in Attempt |-> "new"]
  /\ byId = {}
  /\ byEngine = [e \in Engine |-> None]
  /\ starting = [e \in Engine |-> None]
  /\ cancelled = {}
  /\ child = [a \in Attempt |-> "none"]
  /\ submitting = {}
  /\ driving = [a \in Attempt |-> 0]
  /\ waiting = {}
  /\ persisted = {}
  /\ credential = [e \in Engine |-> None]
  /\ unannounced = {}
  /\ reported = {}
  /\ syncs = [a \in Attempt |-> 0]

(***************************************************************************)
(* Helpers                                                                 *)
(***************************************************************************)
\* `table` without the entries that name one of the attempts A.
Without(table, A) == [e \in Engine |-> IF table[e] \in A THEN None ELSE table[e]]

\* `ph` with every attempt of A at status s.
Marked(ph, A, s) == [a \in Attempt |-> IF a \in A THEN s ELSE ph[a]]

\* The children after kill() was sent to those of A: SIGTERM or SIGHUP only asks.
Signalled(A) ==
  [a \in Attempt |->
     IF a \in A /\ child[a] = "running" THEN "signalled" ELSE child[a]]

\* handle.cancel() on each attempt of A.
Cancel(A) == cancelled' = cancelled \cup A /\ child' = Signalled(A)

\* dispose(record, s) for each record of A: nothing of them stays reachable.
Dispose(A, s) ==
  /\ phase' = Marked(phase, A, s)
  /\ byId' = byId \ A
  /\ byEngine' = Without(byEngine, A)
  /\ Cancel(A)

\* A credential-change listener (the readiness cache) has heard everything.
Announce == unannounced' = {}

----------------------------------------------------------------------------
(***************************************************************************)
(* Creating a session                                                      *)
(***************************************************************************)
\* Mutant of Displaced: overlooks a start that has not registered yet.
DisplacedRegistered(e) == {byEngine[e]} \ {None}

\* The attempts createSession(e) displaces: the registered one, then the one
\* that is still starting.
Displaced(e) == {byEngine[e], starting[e]} \ {None}

\* createSession() up to `await handle.start()`.  An api-key start() returns
\* at once, so its record is registered before any other code can run; the
\* other flows leave a reservation behind.  A device-code child is spawned
\* synchronously, a pty only after node-pty has been imported.
CreateSession(a, e, f, withUrl) ==
  /\ Serving
  /\ phase[a] = "new"
  /\ f \in FlowsOf[e]
  /\ e \in Injecting => Trusted
  /\ engine' = [engine EXCEPT ![a] = e]
  /\ flow' = [flow EXCEPT ![a] = f]
  /\ notify' = IF withUrl THEN notify \cup {a} ELSE notify
  /\ reported' = reported \cup (Displaced(e) \cap notify)
  /\ cancelled' = cancelled \cup Displaced(e)
  /\ child' = [Signalled(Displaced(e)) EXCEPT
                 ![a] = IF f = "device-code" THEN "running" ELSE "none"]
  /\ LET dropped == Marked(phase, {byEngine[e]}, "cancelled") IN
     IF f = "api-key"
     THEN /\ phase' = [dropped EXCEPT ![a] = "pending"]
          /\ byId' = (byId \ {byEngine[e]}) \cup {a}
          /\ byEngine' = [byEngine EXCEPT ![e] = a]
          /\ starting' = [starting EXCEPT ![e] = None]
     ELSE /\ phase' = [dropped EXCEPT ![a] = "starting"]
          /\ byId' = byId \ {byEngine[e]}
          /\ byEngine' = [byEngine EXCEPT ![e] = None]
          /\ starting' = [starting EXCEPT ![e] = a]
  /\ UNCHANGED <<server, submitting, driving, waiting,
                 persisted, credential, unannounced, syncs>>

\* Mutant of Spawned: the fresh pty does not ask whether it is still wanted.
SpawnedUnaware(a) ==
  /\ phase[a] = "starting"
  /\ flow[a] = "paste-code"
  /\ child[a] = "none"
  /\ child' = [child EXCEPT ![a] = "running"]
  /\ UNCHANGED <<server, requestVars, tableVars, cancelled, submitting, driving,
                 waiting, effectVars>>

\* The pty spawn resolves.  A handle cancelled meanwhile finds itself
\* cancelled before the first byte of output and kills the child it just got.
Spawned(a) ==
  /\ phase[a] = "starting"
  /\ flow[a] = "paste-code"
  /\ child[a] = "none"
  /\ child' = [child EXCEPT ![a] = IF a \in cancelled THEN "signalled" ELSE "running"]
  /\ UNCHANGED <<server, requestVars, tableVars, cancelled, submitting, driving,
                 waiting, effectVars>>

\* start() resolves: register, unless the slot went to a later attempt.
StartOk(a) ==
  LET e == engine[a]
      free == Without(starting, {a})
  IN
  /\ phase[a] = "starting"
  /\ IF LateResults THEN child[a] # "none" ELSE child[a] = "running"
  /\ starting' = free
  /\ \/ /\ free[e] = None
        /\ byEngine[e] = None
        /\ phase' = [phase EXCEPT ![a] = "pending"]
        /\ byId' = byId \cup {a}
        /\ byEngine' = [byEngine EXCEPT ![e] = a]
        /\ waiting' = IF flow[a] = "device-code" THEN waiting \cup {a} ELSE waiting
        /\ UNCHANGED <<cancelled, child>>
     \/ /\ free[e] # None \/ byEngine[e] # None
        /\ phase' = [phase EXCEPT ![a] = "superseded"]
        /\ Cancel({a})
        /\ UNCHANGED <<byId, byEngine, waiting>>
  /\ UNCHANGED <<server, requestVars, submitting, driving, effectVars>>

\* Mutant of StartFails: clears the engine's reservation, whoever owns it.
StartFailsClearsSlot(a) ==
  /\ phase[a] = "starting"
  /\ phase' = [phase EXCEPT ![a] = "rejected"]
  /\ starting' = [starting EXCEPT ![engine[a]] = None]
  /\ Cancel({a})
  /\ UNCHANGED <<server, requestVars, byId, byEngine, submitting, driving,
                 waiting, effectVars>>

\* start() rejects: the CLI exited, the URL timed out, or cancel() woke it.
\* Either way the adapter has killed its child; the caller is told of the
\* race it lost rather than of the cancellation.
StartFails(a) ==
  /\ phase[a] = "starting"
  /\ phase' = [phase EXCEPT ![a] =
                 IF starting[engine[a]] = a THEN "rejected" ELSE "superseded"]
  /\ starting' = Without(starting, {a})
  /\ Cancel({a})
  /\ UNCHANGED <<server, requestVars, byId, byEngine, submitting, driving,
                 waiting, effectVars>>

----------------------------------------------------------------------------
(***************************************************************************)
(* Driving and concluding a session                                        *)
(***************************************************************************)
\* Mutant of StillPending: what an await returns is acted on unconditionally.
NeverChecked(a) == a \in Attempt

\* The record is registered and undecided: asked before and after each await.
StillPending(a) == a \in byId /\ phase[a] = "pending"

\* submitSession() up to `await handle.submit()`; every refusal before it
\* leaves the state alone.  Codex runs `codex login` for the submission.
Submit(a) ==
  /\ Serving
  /\ StillPending(a)
  /\ flow[a] # "device-code"
  /\ a \notin submitting
  /\ submitting' = submitting \cup {a}
  /\ driving' = [driving EXCEPT ![a] = @ + 1]
  /\ child' = IF engine[a] \in Injecting THEN child
              ELSE [child EXCEPT ![a] = "running"]
  /\ UNCHANGED <<server, requestVars, tableVars, cancelled, waiting, effectVars>>

\* submit() resolves.  For an engine that keeps its own credential that means
\* the CLI has written it and exited; otherwise the secret is stored here.
SubmitOk(a) ==
  /\ driving[a] > 0
  /\ a \in cancelled => LateResults
  /\ engine[a] \in Injecting \/ a \in persisted
  /\ driving' = [driving EXCEPT ![a] = @ - 1]
  /\ submitting' = submitting \ {a}
  /\ \/ /\ StillPending(a)
        /\ phase' = [phase EXCEPT ![a] = "authorized"]
        /\ byEngine' = Without(byEngine, {a})
        /\ credential' = IF engine[a] \in Injecting
                         THEN [credential EXCEPT ![engine[a]] = a] ELSE credential
        /\ Announce
        /\ syncs' = [syncs EXCEPT ![a] = @ + 1]
        /\ cancelled' = cancelled \cup {a}
        /\ child' = IF engine[a] \in Injecting THEN Signalled({a})
                    ELSE [child EXCEPT ![a] = "gone"]
     \/ /\ ~StillPending(a)
        /\ UNCHANGED <<phase, byEngine, credential, unannounced, syncs,
                       cancelled, child>>
  /\ UNCHANGED <<server, requestVars, byId, starting, waiting, persisted, reported>>

\* Mutant of SubmitFails: waits until the killed child has really closed.
SubmitFailsOnClose(a) ==
  /\ driving[a] > 0
  /\ child[a] \notin {"running", "signalled"}
  /\ driving' = [driving EXCEPT ![a] = @ - 1]
  /\ submitting' = submitting \ {a}
  /\ IF StillPending(a)
     THEN Dispose({a}, "failed")
     ELSE UNCHANGED <<phase, byId, byEngine, cancelled, child>>
  /\ UNCHANGED <<server, requestVars, starting, waiting, effectVars>>

\* submit() rejects: a refused code or key, a CLI that died, the submit
\* timeout, or the cancellation of the handle.
SubmitFails(a) ==
  /\ driving[a] > 0
  /\ driving' = [driving EXCEPT ![a] = @ - 1]
  /\ submitting' = submitting \ {a}
  /\ IF StillPending(a)
     THEN Dispose({a}, "failed")
     ELSE UNCHANGED <<phase, byId, byEngine, cancelled, child>>
  /\ UNCHANGED <<server, requestVars, starting, waiting, effectVars>>

\* conclude() of settleWhenDone: the record stays readable, its slot does not.
Conclude(a, verdict) ==
  IF StillPending(a)
  THEN /\ phase' = [phase EXCEPT ![a] = verdict]
       /\ byEngine' = Without(byEngine, {a})
       /\ IF verdict = "authorized"
          THEN Announce /\ syncs' = [syncs EXCEPT ![a] = @ + 1]
          ELSE UNCHANGED <<unannounced, syncs>>
  ELSE UNCHANGED <<phase, byEngine, unannounced, syncs>>

\* wait() settles: `codex login` exited by itself, with 0 once it has written
\* the credential, or the handle was cancelled.
DeviceVerdict(a, ok) ==
  /\ a \in waiting
  /\ \/ a \notin cancelled /\ child[a] = "running" /\ ok = (a \in persisted)
     \/ a \in cancelled /\ (ok => LateResults)
  /\ waiting' = waiting \ {a}
  /\ child' = [child EXCEPT ![a] = IF a \in cancelled THEN @ ELSE "gone"]
  /\ Conclude(a, IF ok THEN "authorized" ELSE "failed")
  /\ UNCHANGED <<server, requestVars, byId, starting, cancelled, submitting,
                 driving, persisted, credential, reported>>

\* Mutant of TtlExpires: reaps only sessions that hold a child.
TtlExpiresWithChild(a) ==
  /\ a \in byId
  /\ child[a] = "running"
  /\ Dispose({a}, "failed")
  /\ UNCHANGED <<server, requestVars, starting, submitting, driving, waiting,
                 effectVars>>

\* The TTL timer of a registered record.
TtlExpires(a) ==
  /\ a \in byId
  /\ Dispose({a}, "failed")
  /\ UNCHANGED <<server, requestVars, starting, submitting, driving, waiting,
                 effectVars>>

\* cancelSession(): a concluded record keeps the verdict it earned.
CancelSession(a) ==
  /\ Serving
  /\ a \in byId
  /\ Dispose({a}, IF phase[a] = "pending" THEN "cancelled" ELSE phase[a])
  /\ UNCHANGED <<server, requestVars, starting, submitting, driving, waiting,
                 effectVars>>

\* DELETE /v1/auth/:engine/credential: clearCredential() notifies when it
\* deleted something.
ForgetCredential(e) ==
  /\ Serving
  /\ credential[e] # None
  /\ credential' = [credential EXCEPT ![e] = None]
  /\ Announce
  /\ UNCHANGED <<server, requestVars, tableVars, handleVars, persisted,
                 reported, syncs>>

----------------------------------------------------------------------------
(***************************************************************************)
(* The CLI children                                                        *)
(***************************************************************************)
\* `codex login` writes ~/.codex, once its user could act.  A child that has
\* only been asked to stop can still get there: SIGKILL follows two seconds
\* after SIGTERM.
CliPersists(a) ==
  /\ child[a] \in {"running", "signalled"}
  /\ engine[a] \notin Injecting
  /\ phase[a] \in {"pending", "failed", "cancelled"}
  /\ a \notin persisted
  /\ persisted' = persisted \cup {a}
  /\ unannounced' = unannounced \cup {a}
  /\ UNCHANGED <<server, requestVars, tableVars, handleVars, credential,
                 reported, syncs>>

\* A child that was told to stop exits; a pty child may also die by itself,
\* which its session only notices at the next submit.
ChildExits(a) ==
  /\ child[a] = "signalled" \/ (child[a] = "running" /\ flow[a] = "paste-code")
  /\ child' = [child EXCEPT ![a] = "gone"]
  /\ UNCHANGED <<server, requestVars, tableVars, cancelled, submitting, driving,
                 waiting, effectVars>>

----------------------------------------------------------------------------
(***************************************************************************)
(* Shutdown (server/index.ts)                                              *)
(***************************************************************************)
\* resetSessions(): every record and every reservation.
ResetSessions ==
  LET reserved == {starting[e] : e \in Engine} \ {None} IN
  /\ phase' = Marked(phase, byId, "cancelled")
  /\ byId' = {}
  /\ byEngine' = Without(byEngine, byId)
  /\ starting' = [e \in Engine |-> None]
  /\ Cancel(byId \cup reserved)
  /\ UNCHANGED <<requestVars, submitting, driving, waiting, effectVars>>

\* Handlers that are inside createSession() or submitSession(), also after
\* their client has disconnected.
InFlight == {a \in Attempt : phase[a] = "starting" \/ driving[a] > 0}

\* stopServer() up to its await: stop listening, then sweep.
StopBegin ==
  /\ server = "up"
  /\ server' = "draining"
  /\ ResetSessions

\* Mutant of StopEnd: trusts the first sweep.
StopEndWithoutSweep ==
  /\ server = "draining"
  /\ server' = "down"
  /\ UNCHANGED <<requestVars, tableVars, handleVars, effectVars>>

\* close() has called back: sweep what the accepted requests left.  It waits for
\* connections and not for handlers, so a client that disconnects lets it end
\* while its start() or submit() is still awaited.
StopEnd ==
  /\ server = "draining"
  /\ server' = "down"
  /\ ResetSessions

----------------------------------------------------------------------------
Next ==
  \/ \E a \in Attempt, e \in Engine, f \in Flow, withUrl \in BOOLEAN :
       CreateSession(a, e, f, withUrl)
  \/ \E a \in Attempt : Spawned(a)
  \/ \E a \in Attempt : StartOk(a)
  \/ \E a \in Attempt : StartFails(a)
  \/ \E a \in Attempt : Submit(a)
  \/ \E a \in Attempt : SubmitOk(a)
  \/ \E a \in Attempt : SubmitFails(a)
  \/ \E a \in Attempt, ok \in BOOLEAN : DeviceVerdict(a, ok)
  \/ \E a \in Attempt : TtlExpires(a)
  \/ \E a \in Attempt : CancelSession(a)
  \/ \E e \in Engine : ForgetCredential(e)
  \/ \E a \in Attempt : CliPersists(a)
  \/ \E a \in Attempt : ChildExits(a)
  \/ StopBegin
  \/ StopEnd

Spec == Init /\ [][Next]_vars

\* Every start() and every submit() settles within the adapter's own timeout,
\* TTL timers fire, and close() calls back once the requests are answered: that
\* a client disconnects before is possible and not assumed.
\* No fairness for users, for CLIs or for the death of a signalled pty child.
Fairness ==
  /\ \A a \in Attempt : /\ WF_vars(StartOk(a) \/ StartFails(a))
                        /\ WF_vars(SubmitOk(a) \/ SubmitFails(a))
                        /\ WF_vars(TtlExpires(a))
  /\ WF_vars(InFlight = {} /\ StopEnd)

FairSpec == Spec /\ Fairness

----------------------------------------------------------------------------
(***************************************************************************)
(* Properties                                                              *)
(***************************************************************************)
\* Types of the tables of session-manager.ts and of the CLI children.
TypeOK ==
  /\ server \in {"up", "draining", "down"}
  /\ engine \in [Attempt -> Engine \cup {None}]
  /\ flow \in [Attempt -> Flow \cup {None}]
  /\ notify \in SUBSET Attempt
  /\ phase \in [Attempt -> Phase]
  /\ byId \in SUBSET Attempt
  /\ byEngine \in [Engine -> Attempt \cup {None}]
  /\ starting \in [Engine -> Attempt \cup {None}]
  /\ cancelled \in SUBSET Attempt
  /\ child \in [Attempt -> {"none", "running", "signalled", "gone"}]
  /\ submitting \in SUBSET Attempt
  /\ driving \in [Attempt -> Nat]
  /\ waiting \in SUBSET Attempt
  /\ persisted \in SUBSET Attempt
  /\ credential \in [Engine -> Attempt \cup {None}]
  /\ unannounced \in SUBSET Attempt
  /\ reported \in SUBSET Attempt
  /\ syncs \in [Attempt -> Nat]

\* An attempt the manager has neither cancelled nor concluded.
Live(a) == phase[a] \in {"starting", "pending"} /\ a \notin cancelled

\* An engine never has two live attempts, also while one of them is inside
\* start(): the reservation in `starting` is taken before the await
\* (session-manager.ts:89-99), and a registered attempt excludes a starting one.
OneLivePerEngine ==
  \A a, b \in Attempt :
    Live(a) /\ Live(b) /\ engine[a] = engine[b] => a = b

\* No orphan: a CLI child that nobody has asked to stop belongs to the
\* engine's starting attempt or to its registered one, so a later create, the
\* TTL or shutdown can still reach it and kill it.
NoOrphanChild ==
  \A a \in Attempt : child[a] = "running" =>
    \/ starting[engine[a]] = a
    \/ a \in byId /\ byEngine[engine[a]] = a

\* The slot index and the records agree after every handler: byEngine names
\* exactly the registered records that are still pending.
SlotsMatchRecords ==
  /\ \A e \in Engine : byEngine[e] # None =>
       /\ byEngine[e] \in byId
       /\ phase[byEngine[e]] = "pending"
       /\ engine[byEngine[e]] = e
  /\ \A a \in byId : phase[a] = "pending" => byEngine[engine[a]] = a

\* Two submissions never drive one handle at the same time (one pty, one
\* `codex login`), although the status stays "pending" meanwhile.
SingleDrive == \A a \in Attempt : driving[a] <= 1

\* A generation that was reported to the gateway as superseded has not led to
\* a manifest sync and never will: the worker tells one story about it.
SupersededNeverSyncs == \A a \in reported : syncs[a] = 0

\* A credential reaches the store only from the attempt that holds its
\* engine's slot at that moment: a late success of a cancelled, superseded or
\* reaped attempt has no authority (session-manager.ts:345-350).
OnlySlotHolderStores ==
  [][\A e \in Engine :
       credential'[e] \notin {None, credential[e]} =>
         byEngine[e] = credential'[e] /\ credential'[e] \in byId]_vars

\* Every login that triggers a manifest sync does it once, in the step that
\* takes a registered pending record to authorized.
SyncOnlyOnAuthorization ==
  [][\A a \in Attempt :
       syncs'[a] # syncs[a] =>
         /\ a \in byId /\ phase[a] = "pending" /\ phase'[a] = "authorized"
         /\ syncs'[a] = 1]_vars

\* A verdict a poller may have read is not rewritten while the record can
\* still be read, and a disposed record does not come back.
VerdictsStand ==
  [][\A a \in Attempt :
       /\ a \in byId /\ a \in byId' /\ phase[a] # "pending" => phase'[a] = phase[a]
       /\ phase[a] \in {"rejected", "superseded", "failed", "cancelled"}
            /\ a \notin byId => a \notin byId' /\ phase'[a] = phase[a]]_vars

\* When stopServer() is done, no reservation and no unsignalled child is left,
\* nor can one appear: a create that overlapped the first sweep is caught by the
\* second one, which a handler may outlive.  No record is left either, unless an
\* adapter succeeds after the second sweep has cancelled it.
QuietWhenDown ==
  server = "down" =>
    /\ \A e \in Engine : starting[e] = None
    /\ \A a \in Attempt : child[a] # "running"
    /\ byId \subseteq cancelled
    /\ LateResults \/ (byId = {} /\ \A e \in Engine : byEngine[e] = None)

\* Whatever the user, the CLI and other requests do, an attempt that was begun
\* reaches a verdict: adapter timeouts bound start() and submit(), the TTL
\* bounds a pending record.
LoginsConclude ==
  \A a \in Attempt : phase[a] \in {"starting", "pending"} ~>
    phase[a] \in {"rejected", "superseded", "authorized", "failed", "cancelled"}

\* Nothing a login does keeps stopServer() waiting for ever.
ShutdownCompletes == server = "draining" ~> server = "down"

----------------------------------------------------------------------------
(***************************************************************************)
(* Refinement: the tables implement the lock of EngineLogin.               *)
(***************************************************************************)
LoginState ==
  [a \in Attempt |->
     IF phase[a] = "new" THEN "new"
     ELSE IF syncs[a] > 0 THEN "won"
     ELSE IF Live(a) THEN "open" ELSE "lost"]

Holder == [e \in Engine |-> IF byEngine[e] # None THEN byEngine[e] ELSE starting[e]]

Login == INSTANCE EngineLogin WITH state <- LoginState, holder <- Holder

\* With adapters that never succeed after cancel() (those in the tree), every
\* handler is one step of the lock or none: an attempt that lost its engine,
\* to a newer create, a cancel, the TTL or shutdown, never wins later.
ImplementsEngineLogin == Login!Spec
=============================================================================
