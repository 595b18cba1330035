--------------------------- MODULE GatewayBindings ---------------------------
(***************************************************************************)
(* The gateway's authority over manifest URLs of per-user workers          *)
(* (src/src/isolation/worker-proxy.ts).  A login that carries a URL gets a *)
(* generation before it reaches its worker; only the generation comes back *)
(* as authority to relay the URL, through an unreliable worker connection, *)
(* failing disk writes and gateway restarts.                               *)
(*                                                                         *)
(* Generations are UUIDv7 strings compared as strings: naturals here.  The *)
(* handlers of one response run without an await, so each is one action.   *)
(* The worker is what session-manager.ts shows the gateway: one pending    *)
(* login per slot, and concluded logins that stay readable.                *)
(***************************************************************************)
EXTENDS Naturals, FiniteSets

CONSTANTS
  Slot,          \* pairs of a worker account and an engine
  None,
  MaxGeneration, \* bound: generations per behaviour
  MaxBindings,   \* MAX_ISSUED_BINDINGS
  MaxFaults      \* bound: failed disk writes and gateway restarts

Generation == 1..MaxGeneration

ASSUME ConstantsAssumption ==
  /\ None \notin Slot \cup Nat
  /\ MaxGeneration \in Nat \ {0}
  /\ MaxBindings \in Nat \ {0}
  /\ MaxFaults \in Nat

VARIABLES
  bindings,      \* issuedProvisioningBindings: "none", "issued" or "bound"
  latestIssued,  \* latestIssuedProvisioningGeneration, 0 if undefined
  latest,        \* latestProvisioningGeneration, 0 if undefined
  savedBindings, \* the .issued file: its bindings
  savedIssued,   \*   and its latestGeneration
  savedLatest,   \* the notification generation file
  expired,       \* generations whose binding has passed its expiresAt
  awaiting,      \* creates whose forward() waits for the worker
  sent,          \* creates on their way to the worker
  answer,        \* a create's answer on its way back, or None
  notices,       \* authorized polls and submits on their way back
  deletes,       \* answered DELETEs on their way back
  displacedBy,   \* generations a plain create reports as superseded
  slotOf,        \* generation -> the slot it was issued for, None before
  session,       \* the worker's session of the generation
  registered,    \* the generation of the URL handed to the callback last
  left,          \* history: bindings a fault kept from being released
  shown,         \* history: logins whose session id the client may know
  faults         \* disk writes failed and restarts so far

memoryVars == <<bindings, latestIssued, latest>>
diskVars == <<savedBindings, savedIssued, savedLatest>>
netVars == <<awaiting, sent, answer, notices, deletes, displacedBy>>
workerVars == <<slotOf, session>>
historyVars == <<registered, left, shown, faults>>
vars == <<memoryVars, diskVars, expired, netVars, workerVars, historyVars>>

Unbound == [g \in Generation |-> "none"]

Init ==
  /\ bindings = Unbound /\ latestIssued = 0 /\ latest = 0
  /\ savedBindings = Unbound /\ savedIssued = 0 /\ savedLatest = 0
  /\ expired = {}
  /\ awaiting = {} /\ sent = {} /\ answer = [g \in Generation |-> None]
  /\ notices = {} /\ deletes = {} /\ displacedBy = {}
  /\ slotOf = [g \in Generation |-> None]
  /\ session = [g \in Generation |-> "none"]
  /\ registered = 0 /\ left = {} /\ shown = {} /\ faults = 0

----------------------------------------------------------------------------
(***************************************************************************)
(* The table and its file                                                  *)
(***************************************************************************)
Held(b) == {g \in Generation : b[g] # "none"}
Larger(m, n) == IF m > n THEN m ELSE n
Drop(b, G) == [g \in Generation |-> IF g \in G THEN "none" ELSE b[g]]

\* After f faults, one more: a disk write throws, or the process dies.
Fails(f) == f < MaxFaults /\ faults' = f + 1

\* saveIssuedProvisioningState() of table b succeeds, after f faults.
Save(b, f) ==
  /\ bindings' = b /\ savedBindings' = b
  /\ savedIssued' = latestIssued
  /\ faults' = f

\* The write throws and the handler restores the table as it was.
RollBack(f) == Fails(f) /\ UNCHANGED <<bindings, savedBindings, savedIssued>>

\* Mutants of Release: the table is not restored when the write fails; a plain
\* release takes whatever is bound for the same slots.
ReleaseForgets(G, f) ==
  LET gone == G \cap Held(bindings) IN
  \/ Save(Drop(bindings, gone), f) /\ UNCHANGED left
  \/ /\ gone # {}
     /\ Fails(f)
     /\ bindings' = Drop(bindings, gone)
     /\ left' = left \cup gone
     /\ UNCHANGED <<savedBindings, savedIssued>>
ReleaseSlot(G, f) ==
  LET gone == {g \in Held(bindings) : \E h \in G : slotOf[g] = slotOf[h]} IN
  \/ Save(Drop(bindings, gone), f) /\ UNCHANGED left
  \/ gone # {} /\ RollBack(f) /\ left' = left \cup gone

\* releaseIssuedBindings(): the generations of G that are in the table, if any,
\* after f faults.
Release(G, f) ==
  LET gone == G \cap Held(bindings) IN
  IF gone = {}
  THEN faults' = f /\ UNCHANGED <<bindings, savedBindings, savedIssued, left>>
  ELSE \/ Save(Drop(bindings, gone), f) /\ UNCHANGED left
       \/ RollBack(f) /\ left' = left \cup gone

----------------------------------------------------------------------------
(***************************************************************************)
(* Creating a login                                                        *)
(***************************************************************************)
\* The table has no room for another binding.
Full(b) == Cardinality(Held(b)) >= MaxBindings

\* forward() of POST .../sessions with a URL up to its await: prune, refuse at
\* capacity, write, and only then send the generation to the worker.
Issue(s, g) ==
  LET live == Drop(bindings, expired)
      table == [live EXCEPT ![g] = "issued"]
  IN
  /\ g > latestIssued
  /\ \/ /\ Full(live)
        /\ bindings' = live
        /\ UNCHANGED <<latestIssued, savedBindings, savedIssued, awaiting, sent,
                       slotOf, faults>>
     \/ /\ ~Full(live)
        /\ RollBack(faults)
        /\ UNCHANGED <<latestIssued, awaiting, sent, slotOf>>
     \/ /\ ~Full(live)
        /\ bindings' = table /\ savedBindings' = table
        /\ latestIssued' = g /\ savedIssued' = g
        /\ slotOf' = [slotOf EXCEPT ![g] = s]
        /\ awaiting' = awaiting \cup {g} /\ sent' = sent \cup {g}
        /\ UNCHANGED faults
  /\ UNCHANGED <<latest, savedLatest, expired, answer, notices, deletes,
                 displacedBy, session, registered, left, shown>>

\* The worker's pending logins in slot s: at most one.
Pending(s) == {g \in Generation : slotOf[g] = s /\ session[g] = "pending"}

\* The worker answers a create: it may refuse it outright, or displace the
\* pending login of the slot and then start the new one, which may fail.
WorkerCreates(g) ==
  LET displaced == Pending(slotOf[g])
      over == [h \in Generation |-> IF h \in displaced THEN "gone" ELSE session[h]]
      tell(ok, G) == answer' = IF g \in awaiting
                               THEN [answer EXCEPT ![g] = [ok |-> ok, superseded |-> G]]
                               ELSE answer
  IN
  /\ g \in sent
  /\ sent' = sent \ {g}
  /\ \/ session' = [session EXCEPT ![g] = "gone"] /\ tell(FALSE, {})
     \/ \E ok \in BOOLEAN :
          /\ session' = [over EXCEPT ![g] = IF ok THEN "pending" ELSE "gone"]
          /\ tell(ok, displaced)
  /\ UNCHANGED <<memoryVars, diskVars, expired, awaiting, notices, deletes,
                 displacedBy, slotOf, historyVars>>

\* A create without a URL takes the slot from a login that has one.
PlainCreate(s) ==
  /\ Pending(s) # {}
  /\ session' = [g \in Generation |-> IF g \in Pending(s) THEN "gone" ELSE session[g]]
  /\ displacedBy' = displacedBy \cup Pending(s)
  /\ UNCHANGED <<memoryVars, diskVars, expired, awaiting, sent, answer, notices,
                 deletes, slotOf, historyVars>>

----------------------------------------------------------------------------
(***************************************************************************)
(* Answers of the worker                                                   *)
(***************************************************************************)
Arrives(g) ==
  /\ awaiting' = awaiting \ {g}
  /\ answer' = [answer EXCEPT ![g] = None]
  /\ UNCHANGED <<latestIssued, latest, savedLatest, expired, sent, notices, deletes,
                 displacedBy, workerVars, registered>>

\* bindIssuedGenerationToSession() and what follows when it throws: the client
\* sees the session only if the binding is on disk.
Bind(g, superseded) ==
  \/ /\ Save([Drop(bindings, superseded) EXCEPT ![g] = "bound"], faults)
     /\ shown' = shown \cup {g}
     /\ UNCHANGED left
  \/ /\ faults < MaxFaults
     /\ Release({g} \cup superseded, faults + 1)
     /\ UNCHANGED shown

\* The answer to a create with a URL: bind on 201, release otherwise, and also
\* when the binding is gone, too old, or the body is not a session view.
CreateAnswered(g) ==
  /\ g \in awaiting /\ answer[g] # None
  /\ LET superseded == answer[g].superseded IN
     \/ /\ answer[g].ok /\ bindings[g] = "issued" /\ g \notin expired
        /\ Bind(g, superseded)
     \/ Release({g} \cup superseded, faults) /\ UNCHANGED shown
  /\ Arrives(g)

\* Mutant of CreateFails: the binding stays in the table.
CreateFailsKeeps(g) ==
  /\ g \in awaiting
  /\ Arrives(g)
  /\ UNCHANGED <<bindings, savedBindings, savedIssued, shown, left, faults>>

\* The connection fails or the readiness timer fires, before the headers or in
\* the middle of the body; so does a client that goes away.  The worker may
\* have the request all the same.
CreateFails(g) ==
  /\ g \in awaiting
  /\ \/ Release({g}, faults)
     \/ answer[g] # None /\ Release({g} \cup answer[g].superseded, faults)
  /\ Arrives(g)
  /\ UNCHANGED shown

\* The answer to a create without a URL names the generation it displaced.
PlainAnswered(g) ==
  /\ g \in displacedBy
  /\ displacedBy' = displacedBy \ {g}
  /\ Release({g}, faults)
  /\ UNCHANGED <<latestIssued, latest, savedLatest, expired, awaiting, sent, answer,
                 notices, deletes, workerVars, registered, shown>>

\* DELETE of a session was answered with success.
DeleteAnswered(g) ==
  /\ g \in deletes
  /\ deletes' = deletes \ {g}
  /\ Release({g} \cap {h \in Generation : bindings[h] = "bound"}, faults)
  /\ UNCHANGED <<latestIssued, latest, savedLatest, expired, awaiting, sent, answer,
                 notices, displacedBy, workerVars, registered, shown>>

\* Mutant of Relay: the order is kept in memory only.
RelayUnsaved(g) ==
  /\ g \in notices
  /\ notices' = notices \ {g}
  /\ IF bindings[g] = "bound" /\ g \notin expired /\ g >= latest
     THEN latest' = g /\ registered' = g
     ELSE UNCHANGED <<latest, registered>>
  /\ UNCHANGED <<bindings, latestIssued, savedBindings, savedIssued, savedLatest, expired,
                 awaiting, sent, answer, deletes, displacedBy, workerVars, left, shown,
                 faults>>

Relayable(g) == bindings[g] = "bound" /\ g \notin expired /\ g >= latest

\* relayProvisioningNotification(): newer generations are written down before
\* they are relayed, the latest one may be relayed again, older ones are not.
Relay(g) ==
  /\ g \in notices
  /\ notices' = notices \ {g}
  /\ \/ /\ Relayable(g)
        /\ latest' = g /\ savedLatest' = g /\ registered' = g
        /\ UNCHANGED faults
     \/ /\ Relayable(g) /\ g > latest
        /\ Fails(faults)
        /\ UNCHANGED <<latest, savedLatest, registered>>
     \/ /\ ~Relayable(g)
        /\ UNCHANGED <<latest, savedLatest, registered, faults>>
  /\ UNCHANGED <<bindings, latestIssued, savedBindings, savedIssued, expired, awaiting,
                 sent, answer, deletes, displacedBy, workerVars, left, shown>>

----------------------------------------------------------------------------
(***************************************************************************)
(* The worker's sessions and the client's requests about them              *)
(***************************************************************************)
Readable(g) == g \in shown /\ session[g] \in {"pending", "authorized"}

\* The user completes the login.
Authorize(g) ==
  /\ session[g] = "pending"
  /\ session' = [session EXCEPT ![g] = "authorized"]
  /\ UNCHANGED <<memoryVars, diskVars, expired, netVars, slotOf, historyVars>>

\* The login fails, or its TTL passes.
WorkerForgets(g) ==
  /\ session[g] \in {"pending", "authorized"}
  /\ session' = [session EXCEPT ![g] = "gone"]
  /\ UNCHANGED <<memoryVars, diskVars, expired, netVars, slotOf, historyVars>>

\* GET of an authorized session, or the submit that authorized it.
Poll(g) ==
  /\ Readable(g) /\ session[g] = "authorized"
  /\ g \notin notices
  /\ notices' = notices \cup {g}
  /\ UNCHANGED <<memoryVars, diskVars, expired, awaiting, sent, answer, deletes,
                 displacedBy, workerVars, historyVars>>

WorkerDeletes(g) ==
  /\ Readable(g)
  /\ session' = [session EXCEPT ![g] = "gone"]
  /\ deletes' = deletes \cup {g}
  /\ UNCHANGED <<memoryVars, diskVars, expired, awaiting, sent, answer, notices,
                 displacedBy, slotOf, historyVars>>

----------------------------------------------------------------------------
(***************************************************************************)
(* Time and restarts                                                       *)
(***************************************************************************)
\* A binding passes its expiresAt.
Expires(g) ==
  /\ g \in Held(bindings) \cup Held(savedBindings)
  /\ g \notin expired
  /\ expired' = expired \cup {g}
  /\ UNCHANGED <<memoryVars, diskVars, netVars, workerVars, historyVars>>

\* The gateway dies and a new one reads the files: unexpired bindings, and the
\* larger of the two generations.  What travelled back to it is lost.
Restart ==
  /\ Fails(faults)
  /\ \/ UNCHANGED savedLatest
     \* ... having written the generation it was about to relay.
     \/ \E g \in notices : Relayable(g) /\ g > latest /\ savedLatest' = g
  /\ bindings' = Drop(savedBindings, expired)
  /\ latest' = savedLatest'
  /\ latestIssued' = Larger(savedIssued, savedLatest')
  /\ awaiting' = {} /\ answer' = [g \in Generation |-> None]
  /\ notices' = {} /\ deletes' = {} /\ displacedBy' = {}
  /\ left' = left \cup Held(savedBindings)
  /\ UNCHANGED <<savedBindings, savedIssued, expired, sent, workerVars, registered, shown>>

----------------------------------------------------------------------------
Next ==
  \/ \E s \in Slot, g \in Generation : Issue(s, g)
  \/ \E g \in Generation : WorkerCreates(g)
  \/ \E s \in Slot : PlainCreate(s)
  \/ \E g \in Generation : CreateAnswered(g)
  \/ \E g \in Generation : CreateFails(g)
  \/ \E g \in Generation : PlainAnswered(g)
  \/ \E g \in Generation : DeleteAnswered(g)
  \/ \E g \in Generation : Relay(g)
  \/ \E g \in Generation : Authorize(g)
  \/ \E g \in Generation : WorkerForgets(g)
  \/ \E g \in Generation : Poll(g)
  \/ \E g \in Generation : WorkerDeletes(g)
  \/ \E g \in Generation : Expires(g)
  \/ Restart

Spec == Init /\ [][Next]_vars

----------------------------------------------------------------------------
(***************************************************************************)
(* Properties                                                              *)
(***************************************************************************)
\* Types of the proxy's fields and files; the table stays within its capacity.
TypeOK ==
  /\ bindings \in [Generation -> {"none", "issued", "bound"}]
  /\ Cardinality(Held(bindings)) <= MaxBindings
  /\ latestIssued \in 0..MaxGeneration /\ latest \in 0..MaxGeneration
  /\ savedBindings \in [Generation -> {"none", "issued", "bound"}]
  /\ savedIssued \in 0..MaxGeneration /\ savedLatest \in 0..MaxGeneration
  /\ \A G \in {expired, awaiting, sent, notices, deletes, displacedBy, left, shown} :
       G \in SUBSET Generation
  /\ answer \in [Generation ->
                   [ok : BOOLEAN, superseded : SUBSET Generation] \cup {None}]
  /\ slotOf \in [Generation -> Slot \cup {None}]
  /\ session \in [Generation -> {"none", "pending", "authorized", "gone"}]
  /\ registered \in 0..MaxGeneration
  /\ faults \in 0..MaxFaults

\* An older retained authorized login does not become authoritative again,
\* also not through a restart (worker-proxy.ts:710-711).
RelaysNeverGoBack == [][registered' >= registered]_vars

\* A write that fails leaves memory as the disk has it: no unexpired binding
\* has authority that a restart would forget, or forgets one it would revive.
\* The type invariant, which bounds the table, is its first conjunct.
MemoryMatchesDisk ==
  /\ TypeOK
  /\ \A g \in Generation \ expired : bindings[g] = savedBindings[g]
  /\ latest = savedLatest
  /\ latestIssued = savedIssued

\* A login the client was told about keeps its binding for as long as it lives
\* in the worker: neither the end of another login, nor a rollback, nor a
\* restart takes it away.
LiveLoginsStayBound ==
  \A g \in Generation :
    Readable(g) /\ g \notin expired => bindings[g] = "bound"

\* A create that failed does not hold capacity until its binding expires,
\* unless a fault kept the gateway from releasing it.
FailedCreatesReleased ==
  \A g \in Generation :
    bindings[g] = "issued" => g \in awaiting \cup expired \cup left

=============================================================================
