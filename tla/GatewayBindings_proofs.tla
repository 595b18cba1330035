------------------------ MODULE GatewayBindings_proofs ------------------------
(***************************************************************************)
(* The properties of GatewayBindings for every set of slots, capacity of   *)
(* the table and number of faults.                                         *)
(***************************************************************************)
EXTENDS GatewayBindings, FiniteSetTheorems, TLAPS

(***************************************************************************)
(* The inductive invariant.  Its first half is about the gateway's table   *)
(* and files alone; the second half says what a message may still claim.   *)
(***************************************************************************)
\* Generations are bound only after they were issued, and relayed only while
\* they are bound: this is why a restart may resume from the larger file.
Ordered ==
  /\ registered <= latest
  /\ latest <= latestIssued
  /\ \A g \in Held(bindings) : g <= latestIssued

FilesInv == MemoryMatchesDisk /\ Ordered

\* Nothing is known anywhere of a generation that was not issued.
Unissued ==
  \A g \in Generation :
    g \in awaiting \cup sent \cup shown \/ session[g] # "none" => g <= latestIssued

Gone == {g \in Generation : session[g] = "gone"}

\* A create the worker has not seen has no login, one that is not answered is
\* unknown to the client, and whatever an answer declares over is over.
MessagesInv ==
  /\ \A g \in sent : session[g] = "none"
  /\ \A g \in Generation : g \in shown \/ answer[g] # None => session[g] # "none"
  /\ awaiting \cap shown = {}
  /\ displacedBy \cup deletes \subseteq Gone
  /\ \A g \in Generation : answer[g] # None => answer[g].superseded \subseteq Gone

IInv ==
  /\ FilesInv /\ Unissued /\ MessagesInv
  /\ LiveLoginsStayBound /\ FailedCreatesReleased

-----------------------------------------------------------------------------
(***************************************************************************)
(* TypeOK in three parts, so that a step proves what it touches.           *)
(***************************************************************************)
TableOK ==
  /\ bindings \in [Generation -> {"none", "issued", "bound"}]
  /\ Cardinality(Held(bindings)) <= MaxBindings
  /\ savedBindings \in [Generation -> {"none", "issued", "bound"}]
  /\ latestIssued \in 0..MaxGeneration /\ latest \in 0..MaxGeneration
  /\ savedIssued \in 0..MaxGeneration /\ savedLatest \in 0..MaxGeneration
  /\ registered \in 0..MaxGeneration
  /\ faults \in 0..MaxFaults

NetOK ==
  /\ expired \subseteq Generation /\ awaiting \subseteq Generation
  /\ sent \subseteq Generation /\ notices \subseteq Generation
  /\ deletes \subseteq Generation /\ displacedBy \subseteq Generation
  /\ left \subseteq Generation /\ shown \subseteq Generation
  /\ answer \in [Generation ->
                   [ok : BOOLEAN, superseded : SUBSET Generation] \cup {None}]

WorkerOK ==
  /\ slotOf \in [Generation -> Slot \cup {None}]
  /\ session \in [Generation -> {"none", "pending", "authorized", "gone"}]

Agreement ==
  /\ \A g \in Generation \ expired : bindings[g] = savedBindings[g]
  /\ latest = savedLatest
  /\ latestIssued = savedIssued

FilesOK == TableOK /\ Agreement /\ Ordered

LEMMA FilesParts == FilesInv <=> FilesOK /\ NetOK /\ WorkerOK
BY DEF FilesInv, MemoryMatchesDisk, FilesOK, Agreement, TypeOK, TableOK, NetOK, WorkerOK

LEMMA FilesPartsNext == FilesInv' <=> FilesOK' /\ NetOK' /\ WorkerOK'
BY DEF FilesInv, MemoryMatchesDisk, FilesOK, Agreement, TypeOK, TableOK, NetOK, WorkerOK

-----------------------------------------------------------------------------
(***************************************************************************)
(* The table.                                                              *)
(***************************************************************************)
LEMMA HeldFinite ==
  ASSUME NEW b
  PROVE  /\ IsFiniteSet(Generation) /\ IsFiniteSet(Held(b))
         /\ Cardinality(Held(b)) \in Nat
<1>1. IsFiniteSet(Generation)
  BY ConstantsAssumption, FS_Interval DEF Generation
<1>2. IsFiniteSet(Held(b))
  BY <1>1, FS_Subset DEF Held
<1>. QED
  BY <1>1, <1>2, FS_CardinalityType

\* Entries that only go or change leave the table within its capacity, and
\* authority no larger than what was issued.
LEMMA NoNewEntries ==
  ASSUME FilesOK,
         bindings' \in [Generation -> {"none", "issued", "bound"}],
         savedBindings' \in [Generation -> {"none", "issued", "bound"}],
         \A g \in Generation : bindings[g] = "none" => bindings'[g] = "none",
         \A g \in Generation \ expired' : bindings'[g] = savedBindings'[g],
         savedIssued' = latestIssued,
         faults' \in 0..MaxFaults,
         UNCHANGED <<latestIssued, latest, savedLatest, registered>>
  PROVE  FilesOK'
<1>1. Held(bindings') \subseteq Held(bindings)
  BY DEF Held
<1>2. Cardinality(Held(bindings')) <= MaxBindings
  <2>1. Cardinality(Held(bindings')) <= Cardinality(Held(bindings))
    BY <1>1, HeldFinite, FS_Subset
  <2>2. Cardinality(Held(bindings)) <= MaxBindings
    BY DEF FilesOK, TableOK
  <2>. QED BY <2>1, <2>2, HeldFinite, ConstantsAssumption
<1>3. TableOK'
  BY <1>2 DEF FilesOK, TableOK
<1>4. Agreement'
  BY DEF FilesOK, Agreement
<1>5. Ordered'
  BY <1>1 DEF FilesOK, Ordered
<1>. QED
  BY <1>3, <1>4, <1>5 DEF FilesOK

\* Release() either takes exactly G out of memory and disk, or nothing out of
\* both, and then says what stayed.
LEMMA ReleaseOutcome ==
  ASSUME TableOK, left \subseteq Generation,
         NEW G, G \subseteq Generation,
         NEW f \in 0..MaxFaults, Release(G, f)
  PROVE  /\ \/ /\ bindings' = bindings /\ savedBindings' = savedBindings
               /\ savedIssued' = savedIssued
               /\ \A g \in G : bindings[g] = "none" \/ g \in left'
            \/ /\ bindings' = Drop(bindings, G) /\ savedBindings' = bindings'
               /\ savedIssued' = latestIssued
         /\ faults' \in 0..MaxFaults
         /\ left \subseteq left' /\ left' \subseteq Generation
<1> DEFINE gone == G \cap Held(bindings)
<1>0. f \in Nat /\ MaxFaults \in Nat
  BY ConstantsAssumption
<1>1. CASE gone = {}
  BY <1>0, <1>1 DEF Release, Held
<1>2. CASE gone # {} /\ Save(Drop(bindings, gone), f) /\ UNCHANGED left
  <2>1. Drop(bindings, gone) = Drop(bindings, G)
    BY DEF Drop, Held, TableOK
  <2>. QED BY <1>0, <1>2, <2>1 DEF Save
<1>3. CASE gone # {} /\ RollBack(f) /\ left' = left \cup gone
  BY <1>0, <1>3 DEF RollBack, Fails, Held
<1>. QED
  BY <1>1, <1>2, <1>3 DEF Release

LEMMA ReleaseKeepsFiles ==
  ASSUME FilesOK, left \subseteq Generation,
         NEW G, G \subseteq Generation,
         NEW f \in 0..MaxFaults, Release(G, f),
         UNCHANGED <<expired, latestIssued, latest, savedLatest, registered>>
  PROVE  FilesOK' /\ left' \subseteq Generation
<1>1. TableOK
  BY DEF FilesOK
<1>2. CASE /\ bindings' = bindings /\ savedBindings' = savedBindings
           /\ savedIssued' = savedIssued /\ faults' \in 0..MaxFaults
  <2>1. /\ \A g \in Generation \ expired' : bindings'[g] = savedBindings'[g]
        /\ savedIssued' = latestIssued
    BY <1>2 DEF FilesOK, Agreement
  <2>. QED BY <1>1, <1>2, <2>1, NoNewEntries, ReleaseOutcome DEF TableOK
<1>3. CASE /\ bindings' = Drop(bindings, G) /\ savedBindings' = bindings'
           /\ savedIssued' = latestIssued /\ faults' \in 0..MaxFaults
  <2>1. /\ bindings' \in [Generation -> {"none", "issued", "bound"}]
        /\ \A g \in Generation : bindings[g] = "none" => bindings'[g] = "none"
    BY <1>1, <1>3 DEF Drop, TableOK
  <2>. QED BY <1>1, <1>3, <2>1, NoNewEntries, ReleaseOutcome
<1>. QED
  BY <1>1, <1>2, <1>3, ReleaseOutcome

-----------------------------------------------------------------------------
(***************************************************************************)
(* The first half: the table and its file.                                 *)
(***************************************************************************)
LEMMA FilesInit == Init => FilesInv
<1> SUFFICES ASSUME Init PROVE FilesInv
  OBVIOUS
<1>1. Held(bindings) = {}
  BY DEF Init, Held, Unbound
<1>2. TableOK
  <2>1. Cardinality(Held(bindings)) = 0
    BY <1>1, FS_EmptySet
  <2>. QED BY <2>1, ConstantsAssumption DEF TableOK, Init, Unbound
<1>3. Agreement /\ Ordered
  BY <1>1, ConstantsAssumption DEF Init, Agreement, Ordered
<1>4. NetOK /\ WorkerOK
  BY DEF Init, NetOK, WorkerOK
<1>. QED
  BY <1>2, <1>3, <1>4, FilesParts DEF FilesOK

\* The binding is in memory and on disk before the request is sent.
LEMMA FilesIssue ==
  ASSUME FilesInv, NEW s \in Slot, NEW g \in Generation, Issue(s, g)
  PROVE  FilesInv'
<1> DEFINE live == Drop(bindings, expired)
           table == [live EXCEPT ![g] = "issued"]
<1>1. FilesOK /\ TableOK /\ Agreement /\ Ordered /\ NetOK /\ WorkerOK
  BY FilesParts DEF FilesOK
<1>2. /\ live \in [Generation -> {"none", "issued", "bound"}]
      /\ \A h \in Generation : bindings[h] = "none" => live[h] = "none"
      /\ \A h \in Generation \ expired : live[h] = bindings[h]
  BY <1>1 DEF Drop, TableOK
<1>3. NetOK' /\ WorkerOK'
  BY <1>1 DEF Issue, NetOK, WorkerOK, RollBack, Fails
<1>4. ASSUME bindings' \in {bindings, live}, faults' \in 0..MaxFaults,
             UNCHANGED <<savedBindings, savedIssued, latestIssued, latest,
                         savedLatest, registered, expired>>
      PROVE  FilesOK'
  <2>1. /\ bindings' \in [Generation -> {"none", "issued", "bound"}]
        /\ \A h \in Generation : bindings[h] = "none" => bindings'[h] = "none"
        /\ \A h \in Generation \ expired' : bindings'[h] = savedBindings'[h]
    BY <1>1, <1>2, <1>4 DEF Agreement, TableOK
  <2>. QED BY <1>1, <1>4, <2>1, NoNewEntries DEF Agreement, TableOK
<1>5. ASSUME ~Full(live), bindings' = table, savedBindings' = table,
             g > latestIssued, latestIssued' = g, savedIssued' = g,
             UNCHANGED <<latest, savedLatest, registered, expired, faults>>
      PROVE  FilesOK'
  <2> HIDE DEF live
  <2>1. table \in [Generation -> {"none", "issued", "bound"}]
    BY <1>2
  <2>2. Cardinality(Held(table)) <= MaxBindings
    <3>1. Held(table) = Held(live) \cup {g}
      BY <1>2 DEF Held
    <3>2. /\ IsFiniteSet(Held(live)) /\ Cardinality(Held(live)) \in Nat
          /\ Cardinality(Held(live)) < MaxBindings
      BY <1>5, HeldFinite, ConstantsAssumption DEF Full
    <3>3. \/ Cardinality(Held(live) \cup {g}) = Cardinality(Held(live))
          \/ Cardinality(Held(live) \cup {g}) = Cardinality(Held(live)) + 1
      BY <3>2, FS_AddElement
    <3> HIDE DEF table
    <3>. QED BY <3>1, <3>2, <3>3, ConstantsAssumption
  <2> HIDE DEF table
  <2>3. TableOK'
    BY <1>1, <1>5, <2>1, <2>2, ConstantsAssumption DEF TableOK, Generation
  <2>4. Agreement'
    BY <1>1, <1>5 DEF Agreement
  <2>5. Ordered'
    <3>1. \A h \in Held(table) : h \in Held(bindings) \/ h = g
      BY <1>2 DEF Held, table
    <3>. QED
      BY <1>1, <1>5, <3>1, ConstantsAssumption DEF Ordered, TableOK, Held, Generation
  <2>. QED BY <2>3, <2>4, <2>5 DEF FilesOK
<1>6. FilesOK'
  <2>1. MaxFaults \in Nat /\ faults \in 0..MaxFaults
    BY <1>1, ConstantsAssumption DEF TableOK
  <2>. QED BY <1>4, <1>5, <2>1 DEF Issue, RollBack, Fails
<1>. QED
  BY <1>3, <1>6, FilesPartsNext

\* What the worker and its client do leaves the files alone.
WorkerStep ==
  \/ \E g \in Generation : \/ WorkerCreates(g) \/ Authorize(g) \/ WorkerForgets(g)
                           \/ Poll(g) \/ WorkerDeletes(g)
  \/ \E s \in Slot : PlainCreate(s)

LEMMA FilesElsewhere ==
  ASSUME FilesInv, WorkerStep
  PROVE  FilesInv'
<1>1. FilesOK /\ NetOK /\ WorkerOK
  BY FilesParts
<1>2. UNCHANGED <<memoryVars, diskVars, expired, historyVars>>
  BY DEF WorkerStep, WorkerCreates, PlainCreate, Authorize, WorkerForgets, Poll,
         WorkerDeletes
<1>3. FilesOK'
  BY <1>1, <1>2 DEF FilesOK, TableOK, Agreement, Ordered, Held, memoryVars, diskVars,
                    historyVars
<1>4. UNCHANGED <<expired, left, shown>>
  BY <1>2 DEF historyVars
<1>5. ASSUME NEW g \in Generation, WorkerCreates(g) PROVE NetOK' /\ WorkerOK'
  <2> DEFINE displaced == Pending(slotOf[g])
  <2>1. displaced \in SUBSET Generation
    BY DEF Pending
  <2>2. \E ok \in BOOLEAN, G \in {{}, displaced} :
          answer' \in {answer, [answer EXCEPT ![g] = [ok |-> ok, superseded |-> G]]}
    BY <1>5 DEF WorkerCreates
  <2>3. answer' \in [Generation ->
                       [ok : BOOLEAN, superseded : SUBSET Generation] \cup {None}]
    BY <1>1, <2>1, <2>2 DEF NetOK
  <2>4. NetOK'
    BY <1>1, <1>4, <1>5, <2>3 DEF WorkerCreates, NetOK
  <2>5. WorkerOK'
    BY <1>1, <1>5 DEF WorkerCreates, WorkerOK
  <2>. QED BY <2>4, <2>5
<1>6. ASSUME NEW s \in Slot, PlainCreate(s) PROVE NetOK' /\ WorkerOK'
  BY <1>1, <1>4, <1>6 DEF PlainCreate, Pending, NetOK, WorkerOK
<1>7. ASSUME NEW g \in Generation,
             Authorize(g) \/ WorkerForgets(g) \/ Poll(g) \/ WorkerDeletes(g)
      PROVE  NetOK' /\ WorkerOK'
  BY <1>1, <1>4, <1>7
     DEF Authorize, WorkerForgets, Poll, WorkerDeletes, NetOK, WorkerOK, netVars,
         workerVars
<1>. QED
  BY <1>3, <1>5, <1>6, <1>7, FilesPartsNext DEF WorkerStep

\* Answers release bindings, or turn an issued one into a bound one.
LEMMA FilesAnswers ==
  ASSUME FilesInv, NEW g \in Generation,
         \/ CreateAnswered(g) \/ CreateFails(g) \/ PlainAnswered(g) \/ DeleteAnswered(g)
  PROVE  FilesInv'
<1>1. FilesOK /\ TableOK /\ Agreement /\ NetOK /\ WorkerOK /\ left \subseteq Generation
  BY FilesParts DEF FilesOK, NetOK
<1>2. faults \in 0..MaxFaults /\ (faults < MaxFaults => faults + 1 \in 0..MaxFaults)
  BY <1>1, ConstantsAssumption DEF TableOK
<1>3. /\ UNCHANGED <<expired, latestIssued, latest, savedLatest, registered>>
      /\ WorkerOK'
  BY <1>1 DEF CreateAnswered, CreateFails, PlainAnswered, DeleteAnswered, Arrives,
              WorkerOK, workerVars
<1>4. answer[g] # None => {g} \cup answer[g].superseded \subseteq Generation
  BY <1>1 DEF NetOK
<1>5. /\ awaiting' \subseteq Generation /\ sent' \subseteq Generation
      /\ notices' \subseteq Generation /\ deletes' \subseteq Generation
      /\ displacedBy' \subseteq Generation /\ shown' \subseteq Generation
      /\ answer' \in [Generation ->
                        [ok : BOOLEAN, superseded : SUBSET Generation] \cup {None}]
  <2>1. shown' \subseteq shown \cup {g}
    BY DEF CreateAnswered, CreateFails, PlainAnswered, DeleteAnswered, Bind
  <2>2. /\ awaiting' \subseteq awaiting /\ UNCHANGED <<sent, notices>>
        /\ deletes' \subseteq deletes /\ displacedBy' \subseteq displacedBy
        /\ answer' \in {answer, [answer EXCEPT ![g] = None]}
    BY DEF CreateAnswered, CreateFails, PlainAnswered, DeleteAnswered, Arrives
  <2>. QED BY <1>1, <2>1, <2>2 DEF NetOK
<1>6. CASE \E G \in SUBSET Generation, f \in 0..MaxFaults : Release(G, f)
  <2>1. FilesOK' /\ left' \subseteq Generation
    BY <1>1, <1>3, <1>6, ReleaseKeepsFiles
  <2>. QED BY <1>1, <1>3, <1>5, <2>1, FilesPartsNext DEF NetOK
<1>7. CASE /\ CreateAnswered(g) /\ answer[g].ok /\ bindings[g] = "issued"
           /\ Save([Drop(bindings, answer[g].superseded) EXCEPT ![g] = "bound"], faults)
           /\ UNCHANGED left
  <2>1. /\ bindings' \in [Generation -> {"none", "issued", "bound"}]
        /\ savedBindings' = bindings' /\ savedIssued' = latestIssued /\ faults' = faults
        /\ \A h \in Generation : bindings[h] = "none" => bindings'[h] = "none"
    BY <1>1, <1>7 DEF Save, Drop, TableOK
  <2>2. FilesOK'
    BY <1>1, <1>2, <1>3, <2>1, NoNewEntries
  <2>. QED BY <1>1, <1>3, <1>5, <1>7, <2>2, FilesPartsNext DEF NetOK
<1>8. CASE CreateAnswered(g)
  BY <1>2, <1>4, <1>6, <1>7, <1>8 DEF CreateAnswered, Bind
<1>9. CASE CreateFails(g) \/ PlainAnswered(g) \/ DeleteAnswered(g)
  <2>1. {g} \in SUBSET Generation
        /\ {g} \cap {h \in Generation : bindings[h] = "bound"} \in SUBSET Generation
    OBVIOUS
  <2>. QED BY <1>2, <1>4, <1>6, <1>9, <2>1 DEF CreateFails, PlainAnswered, DeleteAnswered
<1>. QED
  BY <1>8, <1>9

\* Whoever is relayed was bound, so the file of relays stays behind the other.
LEMMA FilesRelay ==
  ASSUME FilesInv, NEW g \in Generation, Relay(g)
  PROVE  FilesInv'
<1>1. FilesOK /\ TableOK /\ Agreement /\ Ordered /\ NetOK /\ WorkerOK
  BY FilesParts DEF FilesOK
<1>2. Relayable(g) => g <= latestIssued
  BY <1>1 DEF Relayable, Ordered, Held
<1>3. UNCHANGED <<bindings, latestIssued, savedBindings, savedIssued, expired>>
  BY DEF Relay
<1>4. \/ Relayable(g) /\ latest' = g /\ savedLatest' = g /\ registered' = g
      \/ UNCHANGED <<latest, savedLatest, registered>>
  BY DEF Relay
<1>5. faults' \in 0..MaxFaults
  BY <1>1, ConstantsAssumption DEF Relay, Fails, TableOK
<1>6. TableOK'
  BY <1>1, <1>3, <1>4, <1>5, ConstantsAssumption DEF TableOK, Held, Generation
<1>7. Agreement'
  BY <1>1, <1>3, <1>4 DEF Agreement
<1>8. Ordered'
  BY <1>1, <1>2, <1>3, <1>4, ConstantsAssumption DEF Ordered, Held, Generation
<1>9. NetOK' /\ WorkerOK'
  BY <1>1 DEF Relay, NetOK, WorkerOK, workerVars
<1>. QED
  BY <1>6, <1>7, <1>8, <1>9, FilesPartsNext DEF FilesOK

LEMMA FilesExpires ==
  ASSUME FilesInv, NEW g \in Generation, Expires(g)
  PROVE  FilesInv'
<1>1. FilesOK /\ TableOK /\ Agreement /\ Ordered /\ NetOK /\ WorkerOK
  BY FilesParts DEF FilesOK
<1>2. /\ expired' = expired \cup {g}
      /\ UNCHANGED <<memoryVars, diskVars, netVars, workerVars, historyVars>>
  BY DEF Expires
<1>3. TableOK' /\ Agreement' /\ Ordered'
  BY <1>1, <1>2 DEF TableOK, Agreement, Ordered, Held, memoryVars, diskVars, historyVars
<1>4. NetOK' /\ WorkerOK'
  BY <1>1, <1>2 DEF NetOK, WorkerOK, netVars, workerVars, historyVars
<1>. QED
  BY <1>3, <1>4, FilesPartsNext DEF FilesOK

\* A restart reads what memory had, short of what has expired.
LEMMA FilesRestart ==
  ASSUME FilesInv, Restart
  PROVE  FilesInv'
<1>1. FilesOK /\ TableOK /\ Agreement /\ Ordered /\ NetOK /\ WorkerOK
  BY FilesParts DEF FilesOK
<1>2. bindings' = Drop(bindings, expired)
  BY <1>1 DEF Restart, Drop, Agreement
<1>3. /\ savedLatest' \in 0..MaxGeneration
      /\ savedLatest' >= latest /\ savedLatest' <= latestIssued
  <2>1. CASE UNCHANGED savedLatest
    BY <1>1, <2>1 DEF TableOK, Agreement, Ordered
  <2>2. CASE \E g \in notices : Relayable(g) /\ g > latest /\ savedLatest' = g
    BY <1>1, <2>2, ConstantsAssumption
       DEF Relayable, Held, Ordered, TableOK, NetOK, Generation
  <2>. QED BY <2>1, <2>2 DEF Restart
<1>4. latest' = savedLatest' /\ latestIssued' = savedIssued /\ savedIssued = latestIssued
  <2>1. latestIssued' = Larger(savedIssued, savedLatest') /\ latest' = savedLatest'
    BY DEF Restart
  <2>. QED BY <1>1, <1>3, <2>1 DEF Larger, Agreement, TableOK
<1>5. /\ faults' \in 0..MaxFaults
      /\ UNCHANGED <<savedBindings, savedIssued, expired, registered>>
  BY <1>1, ConstantsAssumption DEF Restart, Fails, TableOK
<1>6. Held(bindings') \subseteq Held(bindings)
  BY <1>2 DEF Held, Drop
<1>7. TableOK'
  <2>1. Cardinality(Held(bindings')) <= Cardinality(Held(bindings))
    BY <1>6, HeldFinite, FS_Subset
  <2>2. Cardinality(Held(bindings')) <= MaxBindings
    BY <1>1, <2>1, HeldFinite, ConstantsAssumption DEF TableOK
  <2>3. bindings' \in [Generation -> {"none", "issued", "bound"}]
    BY <1>1, <1>2 DEF Drop, TableOK
  <2>. QED BY <1>1, <1>3, <1>4, <1>5, <2>2, <2>3 DEF TableOK
<1>8. Agreement'
  BY <1>1, <1>2, <1>4, <1>5 DEF Agreement, Drop
<1>9. Ordered'
  BY <1>1, <1>3, <1>4, <1>5, <1>6 DEF Ordered, TableOK
<1>10. NetOK' /\ WorkerOK'
  BY <1>1 DEF Restart, NetOK, WorkerOK, workerVars, Held
<1>. QED
  BY <1>7, <1>8, <1>9, <1>10, FilesPartsNext DEF FilesOK

LEMMA FilesStep == FilesInv /\ [Next]_vars => FilesInv'
<1> SUFFICES ASSUME FilesInv, [Next]_vars PROVE FilesInv'
  OBVIOUS
<1>1. CASE \E s \in Slot, g \in Generation : Issue(s, g)
  BY <1>1, FilesIssue
<1>2. CASE WorkerStep
  BY <1>2, FilesElsewhere
<1>3. CASE \E g \in Generation : \/ CreateAnswered(g) \/ CreateFails(g)
                                 \/ PlainAnswered(g) \/ DeleteAnswered(g)
  BY <1>3, FilesAnswers
<1>4. CASE \E g \in Generation : Relay(g)
  BY <1>4, FilesRelay
<1>5. CASE \E g \in Generation : Expires(g)
  BY <1>5, FilesExpires
<1>6. CASE Restart
  BY <1>6, FilesRestart
<1>7. CASE UNCHANGED vars
  <2>1. FilesOK /\ NetOK /\ WorkerOK
    BY FilesParts
  <2>. QED
    BY <1>7, <2>1, FilesPartsNext
       DEF vars, memoryVars, diskVars, netVars, workerVars, historyVars,
           FilesOK, TableOK, Agreement, Ordered, Held, NetOK, WorkerOK
<1>. QED
  BY <1>1, <1>2, <1>3, <1>4, <1>5, <1>6, <1>7 DEF Next, WorkerStep

\* A write that fails leaves memory as the disk has it, whatever fails and
\* however often the gateway restarts (saveIssuedProvisioningState() and the
\* rollbacks around it).
THEOREM MemoryIsOnDisk == Spec => []MemoryMatchesDisk
<1>1. FilesInv => MemoryMatchesDisk
  BY DEF FilesInv
<1>. QED
  BY <1>1, FilesInit, FilesStep, PTL DEF Spec

\* No URL older than one already relayed reaches the callback, also not after
\* a restart (relayProvisioningNotification()).
THEOREM RelaysAreOrdered == Spec => RelaysNeverGoBack
<1>1. FilesInv /\ [Next]_vars => [registered' >= registered]_vars
  <2> SUFFICES ASSUME FilesInv, Next PROVE registered' >= registered
    BY DEF vars, historyVars
  <2>1. /\ registered \in 0..MaxGeneration /\ latest \in 0..MaxGeneration
        /\ registered <= latest
    BY FilesParts DEF FilesOK, TableOK, Ordered
  <2>2. ASSUME NEW g \in Generation, Relay(g) PROVE registered' >= registered
    BY <2>1, <2>2, ConstantsAssumption DEF Relay, Relayable, Generation
  <2>3. CASE \/ \E s \in Slot, g \in Generation : Issue(s, g)
             \/ \E g \in Generation : Expires(g)
             \/ Restart
    <3>1. registered' = registered
      BY <2>3 DEF Issue, Expires, Restart, historyVars
    <3>. QED BY <2>1, <3>1
  <2>4. CASE WorkerStep
    <3>1. registered' = registered
      BY <2>4 DEF WorkerStep, WorkerCreates, PlainCreate, Authorize, WorkerForgets, Poll,
                  WorkerDeletes, historyVars
    <3>. QED BY <2>1, <3>1
  <2>5. CASE \E g \in Generation : \/ CreateAnswered(g) \/ CreateFails(g)
                                   \/ PlainAnswered(g) \/ DeleteAnswered(g)
    <3>1. registered' = registered
      BY <2>5 DEF CreateAnswered, CreateFails, Arrives, PlainAnswered, DeleteAnswered
    <3>. QED BY <2>1, <3>1
  <2>. QED BY <2>2, <2>3, <2>4, <2>5 DEF Next, WorkerStep
<1>. QED
  BY <1>1, FilesInit, FilesStep, PTL DEF Spec, RelaysNeverGoBack

-----------------------------------------------------------------------------
(***************************************************************************)
(* The second half: what a message may still claim.                        *)
(***************************************************************************)
LEMMA LoginsInit == Init => IInv
<1> SUFFICES ASSUME Init PROVE IInv
  OBVIOUS
<1>1. FilesInv
  BY FilesInit
<1>2. Unissued /\ MessagesInv
  BY DEF Init, Unissued, MessagesInv
<1>3. LiveLoginsStayBound /\ FailedCreatesReleased
  BY DEF Init, LiveLoginsStayBound, Readable, FailedCreatesReleased, Unbound
<1>. QED
  BY <1>1, <1>2, <1>3 DEF IInv

\* A new generation is unknown to every party: nothing it does later can be
\* mistaken for an answer about an older login.
LEMMA LoginsIssue ==
  ASSUME IInv, NEW s \in Slot, NEW g \in Generation, Issue(s, g)
  PROVE  IInv'
<1>1. FilesOK /\ TableOK /\ NetOK /\ FilesInv'
  BY FilesParts, FilesIssue DEF FilesOK, IInv
<1>2. UNCHANGED <<expired, answer, deletes, displacedBy, session, left, shown>>
  BY DEF Issue
<1>3. CASE /\ UNCHANGED <<latestIssued, awaiting, sent>>
           /\ bindings' \in {bindings, Drop(bindings, expired)}
  <2>1. Unissued' /\ MessagesInv'
    BY <1>2, <1>3 DEF IInv, Unissued, MessagesInv, Gone
  <2>2. LiveLoginsStayBound' /\ FailedCreatesReleased'
    BY <1>2, <1>3 DEF IInv, LiveLoginsStayBound, FailedCreatesReleased, Readable, Drop
  <2>. QED BY <1>1, <2>1, <2>2 DEF IInv
<1>4. CASE /\ latestIssued' = g /\ g > latestIssued
           /\ awaiting' = awaiting \cup {g} /\ sent' = sent \cup {g}
           /\ bindings' = [Drop(bindings, expired) EXCEPT ![g] = "issued"]
  <2>1. /\ g \in Nat /\ latestIssued \in Nat /\ Generation \subseteq Nat
        /\ \A h \in Generation : h <= latestIssued => h <= g /\ h # g
    BY <1>1, <1>4, ConstantsAssumption DEF TableOK, Generation
  <2>2. session[g] = "none" /\ g \notin shown
    BY <2>1, <1>4 DEF IInv, Unissued
  <2>3. Unissued'
    BY <1>2, <1>4, <2>1, <2>2 DEF IInv, Unissued
  <2>4. MessagesInv'
    BY <1>2, <1>4, <2>2 DEF IInv, MessagesInv, Gone
  <2>5. LiveLoginsStayBound' /\ FailedCreatesReleased'
    BY <1>2, <1>4, <2>2 DEF IInv, LiveLoginsStayBound, FailedCreatesReleased, Readable, Drop
  <2>. QED BY <1>1, <2>3, <2>4, <2>5 DEF IInv
<1>. QED
  BY <1>3, <1>4 DEF Issue, RollBack

\* The worker's answer is about the logins it has ended by then.
LEMMA WorkerCreatesEffect ==
  ASSUME NetOK, WorkerOK, NEW g \in Generation, WorkerCreates(g), session[g] = "none"
  PROVE  /\ session' \in [Generation -> {"none", "pending", "authorized", "gone"}]
         /\ session'[g] \in {"pending", "gone"}
         /\ \A h \in Generation \ {g} : \/ session'[h] = session[h]
                                        \/ session[h] = "pending" /\ session'[h] = "gone"
         /\ \/ answer' = answer
            \/ /\ \A h \in Generation \ {g} : answer'[h] = answer[h]
               /\ answer'[g].superseded \subseteq {h \in Generation : session'[h] = "gone"}
<1> DEFINE displaced == Pending(slotOf[g])
           over == [h \in Generation |-> IF h \in displaced THEN "gone" ELSE session[h]]
<1>1. /\ displaced \subseteq Generation /\ g \notin displaced
      /\ \A h \in displaced : session[h] = "pending"
  BY DEF Pending
<1>2. CASE /\ session' = [session EXCEPT ![g] = "gone"]
           /\ \/ answer' = answer
              \/ answer' = [answer EXCEPT ![g] = [ok |-> FALSE, superseded |-> {}]]
  BY <1>2 DEF NetOK, WorkerOK
<1>3. ASSUME NEW ok \in BOOLEAN,
             session' = [over EXCEPT ![g] = IF ok THEN "pending" ELSE "gone"],
             \/ answer' = answer
             \/ answer' = [answer EXCEPT ![g] = [ok |-> ok, superseded |-> displaced]]
      PROVE  /\ session' \in [Generation -> {"none", "pending", "authorized", "gone"}]
             /\ session'[g] \in {"pending", "gone"}
             /\ \A h \in Generation \ {g} :
                  \/ session'[h] = session[h]
                  \/ session[h] = "pending" /\ session'[h] = "gone"
             /\ \/ answer' = answer
                \/ /\ \A h \in Generation \ {g} : answer'[h] = answer[h]
                   /\ answer'[g].superseded \subseteq
                        {h \in Generation : session'[h] = "gone"}
  <2> HIDE DEF displaced
  <2>1. session' = [h \in Generation |-> IF h = g THEN IF ok THEN "pending" ELSE "gone"
                                         ELSE IF h \in displaced THEN "gone"
                                         ELSE session[h]]
    BY <1>3
  <2>2. \A h \in displaced : session'[h] = "gone"
    BY <1>1, <2>1
  <2>. QED BY <1>1, <1>3, <2>1, <2>2 DEF NetOK, WorkerOK
<1>. QED
  BY <1>2, <1>3 DEF WorkerCreates

\* A login only ever advances: what an answer says is over stays over.
LEMMA LoginsElsewhere ==
  ASSUME IInv, WorkerStep
  PROVE  IInv'
<1>1. FilesInv' /\ NetOK /\ WorkerOK /\ FilesOK
  BY FilesParts, FilesElsewhere DEF IInv
<1>2. UNCHANGED <<bindings, latestIssued, expired, awaiting, left, shown>>
  BY DEF WorkerStep, WorkerCreates, PlainCreate, Authorize, WorkerForgets, Poll,
         WorkerDeletes, memoryVars, historyVars, netVars
<1>3. FailedCreatesReleased'
  BY <1>2 DEF IInv, FailedCreatesReleased
<1>4. ASSUME NEW g \in Generation, WorkerCreates(g) PROVE IInv'
  <2>1. session[g] = "none" /\ g <= latestIssued /\ g \notin shown
    BY <1>4 DEF WorkerCreates, IInv, MessagesInv, Unissued
  <2>2. UNCHANGED <<displacedBy, deletes>> /\ sent' = sent \ {g} /\ sent \subseteq Generation
    BY <1>1, <1>4 DEF WorkerCreates, NetOK
  <2>3. Unissued'
    <3>1. \A h \in Generation : session'[h] # "none" => h = g \/ session[h] # "none"
      BY <1>1, <1>4, <2>1, WorkerCreatesEffect
    <3>. QED BY <1>2, <2>1, <2>2, <3>1 DEF IInv, Unissued
  <2>4. Gone \subseteq Gone'
    BY <1>1, <1>4, <2>1, WorkerCreatesEffect DEF Gone
  <2>5. \A h \in Generation : answer'[h] # None => answer'[h].superseded \subseteq Gone'
    BY <1>1, <1>4, <2>1, <2>4, WorkerCreatesEffect DEF IInv, MessagesInv, Gone
  <2>6. \A h \in Generation : h \in shown' \/ answer'[h] # None => session'[h] # "none"
    BY <1>1, <1>2, <1>4, <2>1, WorkerCreatesEffect DEF IInv, MessagesInv
  <2>7. \A h \in sent' : session'[h] = "none"
    BY <1>1, <1>4, <2>1, <2>2, WorkerCreatesEffect DEF IInv, MessagesInv
  <2>8. MessagesInv'
    BY <1>2, <2>2, <2>4, <2>5, <2>6, <2>7 DEF IInv, MessagesInv
  <2>9. LiveLoginsStayBound'
    <3>1. \A h \in Generation : Readable(h)' => Readable(h)
      BY <1>1, <1>2, <1>4, <2>1, WorkerCreatesEffect DEF Readable
    <3>. QED BY <1>2, <3>1 DEF IInv, LiveLoginsStayBound
  <2>. QED BY <1>1, <1>3, <2>3, <2>8, <2>9 DEF IInv
<1>5. ASSUME NEW s \in Slot, PlainCreate(s) PROVE IInv'
  <2>1. /\ displacedBy' = displacedBy \cup Pending(s)
        /\ UNCHANGED <<sent, answer, deletes>>
        /\ Pending(s) \subseteq {h \in Generation : session[h] = "pending"}
        /\ session' = [h \in Generation |-> IF h \in Pending(s) THEN "gone" ELSE session[h]]
    BY <1>5 DEF PlainCreate, Pending
  <2>2. Gone \subseteq Gone' /\ Pending(s) \subseteq Gone'
    BY <2>1 DEF Gone
  <2>3. Unissued'
    BY <1>2, <2>1 DEF IInv, Unissued
  <2>4. MessagesInv'
    <3>1. sent \subseteq Generation
      BY <1>1 DEF NetOK
    <3>. QED BY <1>2, <2>1, <2>2, <3>1 DEF IInv, MessagesInv
  <2>5. LiveLoginsStayBound'
    BY <1>2, <2>1 DEF IInv, LiveLoginsStayBound, Readable
  <2>. QED BY <1>1, <1>3, <2>3, <2>4, <2>5 DEF IInv
<1>6. ASSUME NEW g \in Generation,
             Authorize(g) \/ WorkerForgets(g) \/ Poll(g) \/ WorkerDeletes(g)
      PROVE  IInv'
  <2>1. /\ UNCHANGED <<sent, answer, displacedBy>>
        /\ \/ session' = session /\ deletes' = deletes
           \/ /\ session[g] \in {"pending", "authorized"}
              /\ \/ session' = [session EXCEPT ![g] = "authorized"] /\ deletes' = deletes
                 \/ /\ session' = [session EXCEPT ![g] = "gone"]
                    /\ deletes' \subseteq deletes \cup {g}
    BY <1>6 DEF Authorize, WorkerForgets, Poll, WorkerDeletes, Readable, netVars, workerVars
  <2>2. /\ Gone \subseteq Gone' /\ deletes' \ deletes \subseteq Gone'
        /\ \A h \in Generation : /\ session[h] = "none" <=> session'[h] = "none"
                                 /\ Readable(h)' => Readable(h)
    BY <1>1, <1>2, <2>1 DEF Gone, WorkerOK, Readable
  <2>3. Unissued'
    BY <1>2, <2>1, <2>2 DEF IInv, Unissued
  <2>4. MessagesInv'
    <3>1. sent \subseteq Generation
      BY <1>1 DEF NetOK
    <3>. QED BY <1>2, <2>1, <2>2, <3>1 DEF IInv, MessagesInv
  <2>5. LiveLoginsStayBound'
    BY <1>2, <2>2 DEF IInv, LiveLoginsStayBound
  <2>. QED BY <1>1, <1>3, <2>3, <2>4, <2>5 DEF IInv
<1>. QED
  BY <1>4, <1>5, <1>6 DEF WorkerStep

\* Releasing generations that no client can read takes authority from nobody.
LEMMA ReleaseKeepsLogins ==
  ASSUME IInv, NEW G, G \subseteq Generation, NEW f \in 0..MaxFaults, Release(G, f),
         \A h \in G : ~ Readable(h),
         awaiting \ G \subseteq awaiting',
         UNCHANGED <<expired, session, shown>>
  PROVE  LiveLoginsStayBound' /\ FailedCreatesReleased'
<1>1. TableOK /\ left \subseteq Generation
  BY FilesParts DEF IInv, FilesOK, NetOK
<1>2. left \subseteq left'
  BY <1>1, ReleaseOutcome
<1>3. CASE bindings' = bindings /\ \A g \in G : bindings[g] = "none" \/ g \in left'
  BY <1>2, <1>3 DEF IInv, LiveLoginsStayBound, FailedCreatesReleased, Readable
<1>4. CASE bindings' = Drop(bindings, G)
  BY <1>2, <1>4 DEF IInv, LiveLoginsStayBound, FailedCreatesReleased, Readable, Drop
<1>. QED
  BY <1>1, <1>3, <1>4, ReleaseOutcome

LEMMA LoginsAnswers ==
  ASSUME IInv, NEW g \in Generation,
         \/ CreateAnswered(g) \/ CreateFails(g) \/ PlainAnswered(g) \/ DeleteAnswered(g)
  PROVE  IInv'
<1>1. FilesInv' /\ FilesOK /\ TableOK /\ NetOK
  BY FilesAnswers, FilesParts DEF IInv, FilesOK
<1>2. faults \in 0..MaxFaults /\ (faults < MaxFaults => faults + 1 \in 0..MaxFaults)
  BY <1>1, ConstantsAssumption DEF TableOK
<1>3. /\ UNCHANGED <<latestIssued, expired, sent, session>>
      /\ awaiting' \subseteq awaiting /\ deletes' \subseteq deletes
      /\ displacedBy' \subseteq displacedBy
      /\ \/ answer' = answer /\ awaiting' = awaiting
         \/ awaiting' = awaiting \ {g} /\ answer' = [answer EXCEPT ![g] = None]
      /\ \/ shown' = shown
         \/ CreateAnswered(g) /\ shown' = shown \cup {g}
  BY DEF CreateAnswered, CreateFails, PlainAnswered, DeleteAnswered, Arrives, Bind, workerVars
<1>4. CreateAnswered(g) => /\ g \in awaiting /\ g \notin awaiting' /\ answer[g] # None
                           /\ g <= latestIssued
  BY DEF CreateAnswered, Arrives, IInv, Unissued
<1>5. Unissued'
  BY <1>3, <1>4 DEF IInv, Unissued
<1>6. MessagesInv'
  <2>1. \A h \in Generation : answer'[h] = answer[h] \/ answer'[h] = None
    BY <1>1, <1>3 DEF NetOK
  <2>. QED BY <1>3, <1>4, <2>1 DEF IInv, MessagesInv, Gone
<1>7. ASSUME NEW G, G \subseteq Generation, NEW f \in 0..MaxFaults, Release(G, f),
             \A h \in G : ~ Readable(h), awaiting \ G \subseteq awaiting', shown' = shown
      PROVE  LiveLoginsStayBound' /\ FailedCreatesReleased'
  BY <1>3, <1>7, ReleaseKeepsLogins
<1>8. g \in awaiting => ~ Readable(g)
  BY DEF IInv, MessagesInv, Readable
<1>9. answer[g] # None => /\ answer[g].superseded \subseteq Generation
                          /\ \A h \in answer[g].superseded : ~ Readable(h)
  BY <1>1 DEF IInv, MessagesInv, Gone, Readable, NetOK
<1>10. CASE /\ CreateAnswered(g)
            /\ Save([Drop(bindings, answer[g].superseded) EXCEPT ![g] = "bound"], faults)
            /\ UNCHANGED left /\ shown' = shown \cup {g}
  <2>1. bindings' = [Drop(bindings, answer[g].superseded) EXCEPT ![g] = "bound"]
    BY <1>10 DEF Save
  <2>2. answer[g] # None /\ awaiting' = awaiting \ {g}
    BY <1>10 DEF CreateAnswered, Arrives
  <2>3. LiveLoginsStayBound'
    BY <1>3, <1>9, <1>10, <2>1, <2>2 DEF IInv, LiveLoginsStayBound, Readable, Drop
  <2>4. FailedCreatesReleased'
    BY <1>3, <1>10, <2>1, <2>2 DEF IInv, FailedCreatesReleased, Drop
  <2>. QED BY <1>1, <1>5, <1>6, <2>3, <2>4 DEF IInv
<1>11. CASE /\ CreateAnswered(g) \/ CreateFails(g)
            /\ shown' = shown
            /\ \E f \in 0..MaxFaults :
                 \/ Release({g}, f)
                 \/ answer[g] # None /\ Release({g} \cup answer[g].superseded, f)
  <2>1. g \in awaiting /\ awaiting' = awaiting \ {g}
    BY <1>11 DEF CreateAnswered, CreateFails, Arrives
  <2>2. ASSUME NEW f \in 0..MaxFaults, Release({g}, f)
        PROVE  LiveLoginsStayBound' /\ FailedCreatesReleased'
    BY <1>7, <1>8, <1>11, <2>1, <2>2
  <2>3. ASSUME NEW f \in 0..MaxFaults, answer[g] # None,
               Release({g} \cup answer[g].superseded, f)
        PROVE  LiveLoginsStayBound' /\ FailedCreatesReleased'
    <3> DEFINE G == {g} \cup answer[g].superseded
    <3>1. /\ G \subseteq Generation /\ \A h \in G : ~ Readable(h)
          /\ awaiting \ G \subseteq awaiting' /\ Release(G, f)
      BY <1>8, <1>9, <2>1, <2>3
    <3> HIDE DEF G
    <3>. QED BY <1>7, <1>11, <3>1
  <2>. QED BY <1>1, <1>5, <1>6, <1>11, <2>2, <2>3 DEF IInv
<1>12. CASE CreateAnswered(g)
  BY <1>2, <1>4, <1>10, <1>11, <1>12 DEF CreateAnswered, Bind
<1>13. CASE CreateFails(g)
  BY <1>2, <1>11, <1>13 DEF CreateFails
<1>14. CASE PlainAnswered(g) \/ DeleteAnswered(g)
  <2> DEFINE bound == {g} \cap {h \in Generation : bindings[h] = "bound"}
  <2>1. shown' = shown /\ awaiting' = awaiting
        /\ \E G \in {{g}, bound} : Release(G, faults)
    BY <1>14 DEF PlainAnswered, DeleteAnswered
  <2>2. ~ Readable(g)
    BY <1>14 DEF PlainAnswered, DeleteAnswered, IInv, MessagesInv, Gone, Readable
  <2>3. PICK G \in {{g}, bound} : Release(G, faults)
    BY <2>1
  <2>4. G \subseteq {g}
    OBVIOUS
  <2>5. LiveLoginsStayBound' /\ FailedCreatesReleased'
    BY <1>2, <1>7, <2>1, <2>2, <2>3, <2>4
  <2>. QED BY <1>1, <1>5, <1>6, <2>5 DEF IInv
<1>. QED
  BY <1>12, <1>13, <1>14

\* Relaying and the passing of time change no binding.
LEMMA LoginsTime ==
  ASSUME IInv, NEW g \in Generation, Relay(g) \/ Expires(g)
  PROVE  IInv'
<1>1. FilesInv'
  BY FilesRelay, FilesExpires DEF IInv
<1>2. /\ UNCHANGED <<bindings, latestIssued, awaiting, sent, answer, deletes, displacedBy,
                     session, left, shown>>
      /\ expired \subseteq expired'
  BY DEF Relay, Expires, memoryVars, netVars, workerVars, historyVars
<1>3. Unissued' /\ MessagesInv'
  BY <1>2 DEF IInv, Unissued, MessagesInv, Gone
<1>4. LiveLoginsStayBound' /\ FailedCreatesReleased'
  BY <1>2 DEF IInv, LiveLoginsStayBound, FailedCreatesReleased, Readable
<1>. QED
  BY <1>1, <1>3, <1>4 DEF IInv

LEMMA LoginsRestart ==
  ASSUME IInv, Restart
  PROVE  IInv'
<1>1. FilesInv' /\ FilesOK /\ TableOK /\ Agreement /\ NetOK
  BY FilesRestart, FilesParts DEF IInv, FilesOK
<1>2. /\ UNCHANGED <<expired, sent, session, shown>>
      /\ awaiting' = {} /\ deletes' = {} /\ displacedBy' = {}
      /\ answer' = [h \in Generation |-> None]
      /\ bindings' = Drop(savedBindings, expired)
      /\ left' = left \cup Held(savedBindings)
  BY DEF Restart, workerVars
<1>3. latestIssued' >= latestIssued
  <2>1. /\ latestIssued' = savedIssued' /\ savedIssued' = savedIssued
        /\ savedIssued = latestIssued
    BY <1>1, FilesPartsNext DEF Restart, Agreement, FilesOK
  <2>. QED BY <1>1, <2>1 DEF TableOK
<1>4. Unissued'
  <2>1. /\ latestIssued \in Nat /\ latestIssued' \in Nat /\ Generation \subseteq Nat
    BY <1>1, FilesPartsNext, ConstantsAssumption DEF TableOK, FilesOK, Generation
  <2>2. \A h \in Generation : h <= latestIssued => h <= latestIssued'
    BY <1>3, <2>1
  <2>. QED BY <1>2, <2>2 DEF IInv, Unissued
<1>5. MessagesInv'
  BY <1>2 DEF IInv, MessagesInv, Gone
<1>6. LiveLoginsStayBound'
  <2>1. \A h \in Generation \ expired : bindings'[h] = bindings[h]
    BY <1>1, <1>2 DEF Agreement, Drop
  <2>. QED BY <1>2, <2>1 DEF IInv, LiveLoginsStayBound, Readable
<1>7. FailedCreatesReleased'
  BY <1>2 DEF FailedCreatesReleased, Drop, Held
<1>. QED
  BY <1>1, <1>4, <1>5, <1>6, <1>7 DEF IInv

LEMMA LoginsStep == IInv /\ [Next]_vars => IInv'
<1> SUFFICES ASSUME IInv, [Next]_vars PROVE IInv'
  OBVIOUS
<1>1. CASE \E s \in Slot, g \in Generation : Issue(s, g)
  BY <1>1, LoginsIssue
<1>2. CASE WorkerStep
  BY <1>2, LoginsElsewhere
<1>3. CASE \E g \in Generation : \/ CreateAnswered(g) \/ CreateFails(g)
                                 \/ PlainAnswered(g) \/ DeleteAnswered(g)
  BY <1>3, LoginsAnswers
<1>4. CASE \E g \in Generation : Relay(g) \/ Expires(g)
  BY <1>4, LoginsTime
<1>5. CASE Restart
  BY <1>5, LoginsRestart
<1>6. CASE UNCHANGED vars
  <2>1. FilesInv'
    BY <1>6, FilesStep DEF IInv
  <2>. QED
    BY <1>6, <2>1
       DEF vars, memoryVars, diskVars, netVars, workerVars, historyVars, IInv, Unissued,
           MessagesInv, Gone, LiveLoginsStayBound, FailedCreatesReleased, Readable
<1>. QED
  BY <1>1, <1>2, <1>3, <1>4, <1>5, <1>6 DEF Next, WorkerStep

\* A login the client was told about keeps its authority while it lives: no
\* late answer, failed write or restart takes the binding of another login
\* (releaseIssuedBindings(), bindIssuedGenerationToSession()).
THEOREM LiveLoginsBound == Spec => []LiveLoginsStayBound
<1>1. IInv => LiveLoginsStayBound
  BY DEF IInv
<1>. QED
  BY <1>1, LoginsInit, LoginsStep, PTL DEF Spec

\* A create that failed does not hold a place in the table, unless a fault
\* kept the gateway from giving it back.
THEOREM FailedCreatesHoldNothing == Spec => []FailedCreatesReleased
<1>1. IInv => FailedCreatesReleased
  BY DEF IInv
<1>. QED
  BY <1>1, LoginsInit, LoginsStep, PTL DEF Spec

=============================================================================
