------------------------- MODULE AuthSession_proofs -------------------------
(***************************************************************************)
(* Theorems about AuthSession for every set of engines and attempts, every *)
(* registry of flows, and adapters that may answer after cancel().         *)
(***************************************************************************)
EXTENDS AuthSession, HealthProbe, TLAPS

(***************************************************************************)
(* The inductive invariant.  The two tables `byEngine` and `starting` only *)
(* mean something together with the records, so each part relates one of   *)
(* them to the phases.                                                     *)
(***************************************************************************)
\* Nothing exists of an attempt before its createSession() call.
Fresh ==
  \A a \in Attempt :
    IF phase[a] = "new"
    THEN a \notin byId /\ a \notin cancelled /\ child[a] = "none"
         /\ a \notin waiting /\ driving[a] = 0
    ELSE engine[a] \in Engine

\* A slot holder is registered and pending, a pending record holds its slot,
\* and no record is still starting.
SlotInv ==
  /\ \A e \in Engine : byEngine[e] # None =>
       /\ byEngine[e] \in byId
       /\ phase[byEngine[e]] = "pending"
       /\ engine[byEngine[e]] = e
  /\ \A a \in Attempt : phase[a] = "pending" =>
       a \in byId /\ byEngine[engine[a]] = a
  /\ \A a \in byId : phase[a] # "starting"

\* A reservation belongs to an uncancelled start, and such a start owns it.
ReservationInv ==
  /\ \A e \in Engine : starting[e] # None =>
       /\ phase[starting[e]] = "starting"
       /\ engine[starting[e]] = e
       /\ starting[e] \notin cancelled
  /\ \A a \in Attempt : phase[a] = "starting" /\ a \notin cancelled =>
       starting[engine[a]] = a

\* The two tables exclude each other: this is what createSession() must
\* re-establish after its await.
Exclusive == \A e \in Engine : starting[e] = None \/ byEngine[e] = None

\* The flag of the code counts the adapter calls.
FlagInv ==
  \A a \in Attempt : driving[a] = IF a \in submitting THEN 1 ELSE 0

\* A running child has a disposer; a cancelled device-code child was killed.
ChildInv ==
  \A a \in Attempt :
    /\ child[a] = "running" => \/ phase[a] = "starting" /\ a \notin cancelled
                               \/ phase[a] = "pending"
    /\ a \in waiting => flow[a] = "device-code"
    /\ flow[a] = "device-code" /\ a \in cancelled => child[a] # "running"

IInv ==
  /\ TypeOK /\ Fresh /\ SlotInv /\ ReservationInv /\ Exclusive /\ FlagInv
  /\ ChildInv /\ QuietWhenDown

-----------------------------------------------------------------------------
(***************************************************************************)
(* Every action preserves the invariant.                                   *)
(***************************************************************************)
\* After the second sweep no start() is left that was not cancelled.
LEMMA SweptIsCancelled ==
  ASSUME IInv, server = "down", NEW a \in Attempt, phase[a] = "starting"
  PROVE  a \in cancelled
<1>1. engine[a] \in Engine
  BY DEF IInv, Fresh
<1>2. starting[engine[a]] # a
  BY <1>1, ConstantsAssumption DEF IInv, QuietWhenDown
<1>. QED
  BY <1>2 DEF IInv, ReservationInv

\* A step of one attempt leaves a stopped server quiet.
LEMMA StaysQuiet ==
  ASSUME IInv, server' = server,
         \A e \in Engine : starting[e] = None => starting'[e] = None,
         \A x \in Attempt : child'[x] = "running" => child[x] = "running" \/ server # "down",
         server = "down" => byId' \subseteq byId \/ (LateResults /\ byId' \subseteq cancelled'),
         cancelled \subseteq cancelled',
         \A e \in Engine : byEngine'[e] \in {None, byEngine[e]} \/ LateResults
  PROVE  QuietWhenDown'
BY DEF IInv, QuietWhenDown

\* A new attempt displaces the holder of its engine and takes the reservation,
\* or for an api-key flow the slot itself.
LEMMA CreateSessionStep ==
  ASSUME IInv, NEW a \in Attempt, NEW e \in Engine, NEW f \in Flow,
         NEW withUrl \in BOOLEAN, CreateSession(a, e, f, withUrl)
  PROVE  IInv'
<1> DEFINE api == f = "api-key"
<1>1. /\ phase[a] = "new" /\ a \notin byId /\ a \notin cancelled
      /\ a \notin waiting /\ driving[a] = 0 /\ server \in {"up", "draining"}
  BY DEF IInv, Fresh, CreateSession, Serving
<1>2. /\ engine' = [engine EXCEPT ![a] = e]
      /\ flow' = [flow EXCEPT ![a] = f]
      /\ cancelled' = cancelled \cup Displaced(e)
      /\ UNCHANGED <<server, submitting, driving, waiting, persisted,
                     credential, unannounced, syncs>>
  BY DEF CreateSession
<1>3. phase' = [x \in Attempt |->
                  IF x = a THEN IF api THEN "pending" ELSE "starting"
                  ELSE IF x = byEngine[e] THEN "cancelled" ELSE phase[x]]
  BY <1>1 DEF CreateSession, Marked, IInv, TypeOK
<1>4. /\ byId' = (byId \ {byEngine[e]}) \cup (IF api THEN {a} ELSE {})
      /\ byEngine' = [byEngine EXCEPT ![e] = IF api THEN a ELSE None]
      /\ starting' = [starting EXCEPT ![e] = IF api THEN None ELSE a]
  BY DEF CreateSession
<1>5. /\ child' \in [Attempt -> {"none", "running", "signalled", "gone"}]
      /\ child'[a] \in {"none", "running"}
      /\ child'[a] = "running" => f = "device-code"
      /\ \A x \in Attempt \ {a} :
           /\ child'[x] = "running" => child[x] = "running" /\ x \notin Displaced(e)
           /\ child'[x] = "none" => child[x] = "none"
           /\ child[x] = "none" => child'[x] = "none"
  BY DEF CreateSession, Signalled, IInv, TypeOK
<1>6. \A x \in Displaced(e) : /\ x \in Attempt \ {a}
                              /\ phase[x] \in {"starting", "pending"}
                              /\ engine[x] = e
  BY <1>1 DEF Displaced, IInv, TypeOK, SlotInv, ReservationInv
<1>7. TypeOK'
  <2>1. notify' \in SUBSET Attempt /\ reported' \in SUBSET Attempt
    BY <1>6 DEF CreateSession, IInv, TypeOK
  <2>2. cancelled' \in SUBSET Attempt
    BY <1>2, <1>6 DEF IInv, TypeOK
  <2>3. phase' \in [Attempt -> Phase]
    BY <1>3 DEF IInv, TypeOK, Phase
  <2>4. /\ byId' \in SUBSET Attempt
        /\ byEngine' \in [Engine -> Attempt \cup {None}]
        /\ starting' \in [Engine -> Attempt \cup {None}]
    BY <1>4 DEF IInv, TypeOK
  <2>5. engine' \in [Attempt -> Engine \cup {None}] /\ flow' \in [Attempt -> Flow \cup {None}]
    BY <1>2 DEF IInv, TypeOK
  <2>. QED BY <1>2, <1>5, <2>1, <2>2, <2>3, <2>4, <2>5 DEF IInv, TypeOK
<1>8. Fresh'
  <2> SUFFICES ASSUME NEW x \in Attempt
               PROVE  IF phase'[x] = "new"
                      THEN x \notin byId' /\ x \notin cancelled' /\ child'[x] = "none"
                           /\ x \notin waiting' /\ driving'[x] = 0
                      ELSE engine'[x] \in Engine
    BY DEF Fresh
  <2>1. CASE x = a
    BY <1>2, <1>3, <2>1 DEF IInv, TypeOK
  <2>2. CASE x # a
    <3>1. CASE phase'[x] = "new"
      <4>1. phase[x] = "new" /\ x \notin Displaced(e)
        BY <1>3, <1>6, <2>2, <3>1
      <4>. QED BY <1>2, <1>4, <1>5, <2>2, <3>1, <4>1 DEF IInv, Fresh
    <3>2. CASE phase'[x] # "new"
      <4>1. x = byEngine[e] => x \in Displaced(e)
        BY ConstantsAssumption DEF Displaced
      <4>2. phase[x] # "new"
        BY <1>3, <1>6, <2>2, <3>2, <4>1
      <4>. QED BY <1>2, <2>2, <3>2, <4>2 DEF IInv, TypeOK, Fresh
    <3>. QED BY <3>1, <3>2
  <2>. QED BY <2>1, <2>2
<1>9. SlotInv'
  <2>1. ASSUME NEW d \in Engine, byEngine'[d] # None
        PROVE  /\ byEngine'[d] \in byId'
               /\ phase'[byEngine'[d]] = "pending"
               /\ engine'[byEngine'[d]] = d
    <3>1. CASE d = e
      BY <1>2, <1>3, <1>4, <2>1, <3>1 DEF IInv, TypeOK
    <3>2. CASE d # e
      BY <1>1, <1>2, <1>3, <1>4, <2>1, <3>2 DEF IInv, TypeOK, SlotInv
    <3>. QED BY <3>1, <3>2
  <2>2. ASSUME NEW x \in Attempt, phase'[x] = "pending"
        PROVE  x \in byId' /\ byEngine'[engine'[x]] = x
    <3>1. CASE x = a
      BY <1>2, <1>3, <1>4, <2>2, <3>1 DEF IInv, TypeOK
    <3>2. CASE x # a
      BY <1>1, <1>2, <1>3, <1>4, <2>2, <3>2 DEF IInv, TypeOK, Fresh, SlotInv
    <3>. QED BY <3>1, <3>2
  <2>3. \A x \in byId' : phase'[x] # "starting"
    BY <1>1, <1>3, <1>4 DEF IInv, TypeOK, SlotInv
  <2>. QED BY <2>1, <2>2, <2>3 DEF SlotInv
<1>10. ReservationInv'
  <2>1. ASSUME NEW d \in Engine, starting'[d] # None
        PROVE  /\ phase'[starting'[d]] = "starting"
               /\ engine'[starting'[d]] = d
               /\ starting'[d] \notin cancelled'
    <3>1. CASE d = e
      BY <1>1, <1>2, <1>3, <1>4, <1>6, <2>1, <3>1 DEF IInv, TypeOK
    <3>2. CASE d # e
      <4>1. starting'[d] = starting[d] /\ starting[d] \in Attempt \ {a}
        BY <1>1, <1>4, <2>1, <3>2 DEF IInv, TypeOK, ReservationInv
      <4>2. starting[d] # byEngine[e] /\ starting[d] \notin Displaced(e)
        BY <1>6, <2>1, <3>2, <4>1 DEF IInv, SlotInv, ReservationInv, TypeOK
      <4>. QED BY <1>2, <1>3, <2>1, <4>1, <4>2 DEF IInv, TypeOK, ReservationInv
    <3>. QED BY <3>1, <3>2
  <2>2. ASSUME NEW x \in Attempt, phase'[x] = "starting", x \notin cancelled'
        PROVE  starting'[engine'[x]] = x
    <3>1. CASE x = a
      BY <1>2, <1>3, <1>4, <2>2, <3>1 DEF IInv, TypeOK
    <3>2. CASE x # a
      <4>1. starting[engine[x]] = x /\ engine[x] \in Engine
        BY <1>2, <1>3, <2>2, <3>2 DEF IInv, TypeOK, Fresh, ReservationInv
      <4>2. engine[x] # e
        BY <1>2, <2>2, <4>1, ConstantsAssumption DEF Displaced
      <4>. QED BY <1>2, <1>4, <3>2, <4>1, <4>2 DEF IInv, TypeOK
    <3>. QED BY <3>1, <3>2
  <2>. QED BY <2>1, <2>2 DEF ReservationInv
<1>11. Exclusive'
  BY <1>4 DEF IInv, TypeOK, Exclusive
<1>12. FlagInv'
  BY <1>2 DEF IInv, FlagInv
<1>13. ChildInv'
  <2> SUFFICES ASSUME NEW x \in Attempt
               PROVE  /\ child'[x] = "running" =>
                           \/ phase'[x] = "starting" /\ x \notin cancelled'
                           \/ phase'[x] = "pending"
                      /\ x \in waiting' => flow'[x] = "device-code"
                      /\ flow'[x] = "device-code" /\ x \in cancelled' =>
                           child'[x] # "running"
    BY DEF ChildInv
  <2>1. CASE x = a
    BY <1>1, <1>2, <1>3, <1>5, <1>6, <2>1 DEF IInv, TypeOK
  <2>2. CASE x # a
    BY <1>2, <1>3, <1>5, <2>2, ConstantsAssumption DEF IInv, TypeOK, ChildInv, Displaced
  <2>. QED BY <2>1, <2>2
<1>14. QuietWhenDown'
  BY <1>1, <1>2 DEF QuietWhenDown
<1>. QED
  BY <1>7, <1>8, <1>9, <1>10, <1>11, <1>12, <1>13, <1>14 DEF IInv

\* A pty appears for an attempt that is still starting.
LEMMA SpawnedStep ==
  ASSUME IInv, NEW a \in Attempt, Spawned(a)
  PROVE  IInv'
<1>1. TypeOK'
  BY DEF IInv, TypeOK, Spawned, Phase, requestVars, tableVars, effectVars
<1>2. Fresh'
  BY DEF IInv, Fresh, Spawned, requestVars, tableVars
<1>3. SlotInv'
  BY DEF IInv, SlotInv, Spawned, requestVars, tableVars
<1>4. ReservationInv'
  BY DEF IInv, ReservationInv, Spawned, requestVars, tableVars
<1>5. Exclusive'
  BY DEF IInv, Exclusive, Spawned, tableVars
<1>6. FlagInv'
  BY DEF IInv, FlagInv, Spawned
<1>7. ChildInv'
  BY DEF IInv, ChildInv, Spawned, requestVars, tableVars
<1>8. QuietWhenDown'
  BY SweptIsCancelled, StaysQuiet DEF IInv, TypeOK, Spawned, requestVars, tableVars
<1>. QED
  BY <1>1, <1>2, <1>3, <1>4, <1>5, <1>6, <1>7, <1>8 DEF IInv

\* The continuation after start(): registering keeps the two tables exclusive.
LEMMA StartOkStep ==
  ASSUME IInv, NEW a \in Attempt, StartOk(a)
  PROVE  IInv'
<1>1. TypeOK'
  BY DEF IInv, TypeOK, StartOk, Without, Cancel, Signalled, Phase,
     requestVars, effectVars
<1>2. Fresh'
  BY DEF IInv, TypeOK, Fresh, StartOk, Cancel, Signalled, requestVars
<1>3. SlotInv'
  BY ConstantsAssumption DEF IInv, TypeOK, SlotInv, Fresh, StartOk,
     requestVars
<1>4. ReservationInv'
  BY DEF IInv, TypeOK, ReservationInv, Fresh, StartOk, Without, Cancel,
     requestVars
<1>5. Exclusive'
  BY DEF IInv, TypeOK, Exclusive, StartOk, Without
<1>6. FlagInv'
  BY DEF IInv, FlagInv, StartOk
<1>7. ChildInv'
  BY DEF IInv, TypeOK, ChildInv, StartOk, Cancel, Signalled, requestVars
<1>8. QuietWhenDown'
  <2>1. server = "down" => a \in cancelled /\ child[a] # "running"
    BY SweptIsCancelled DEF IInv, QuietWhenDown, StartOk
  <2>2. server = "down" /\ ~LateResults => FALSE
    BY <2>1 DEF StartOk
  <2>3. server = "down" => byId' \subseteq byId \cup {a} /\ byId \subseteq cancelled
    BY DEF StartOk, IInv, QuietWhenDown
  <2>4. cancelled \subseteq cancelled' /\ server' = server
    BY DEF StartOk, Cancel
  <2>5. \A e \in Engine : starting[e] = None => starting'[e] = None
    BY DEF StartOk, Without
  <2>6. \A x \in Attempt : child'[x] = "running" => child[x] = "running"
    BY DEF StartOk, Cancel, Signalled
  <2>. QED
    BY <2>1, <2>2, <2>3, <2>4, <2>5, <2>6 DEF IInv, QuietWhenDown
<1>. QED
  BY <1>1, <1>2, <1>3, <1>4, <1>5, <1>6, <1>7, <1>8 DEF IInv

\* A failed start gives back its own reservation only.
LEMMA StartFailsStep ==
  ASSUME IInv, NEW a \in Attempt, StartFails(a)
  PROVE  IInv'
<1>1. TypeOK'
  BY DEF IInv, TypeOK, StartFails, Without, Cancel, Signalled, Phase,
     requestVars, effectVars
<1>2. Fresh'
  BY DEF IInv, Fresh, StartFails, Cancel, Signalled, requestVars
<1>3. SlotInv'
  BY DEF IInv, SlotInv, StartFails, requestVars
<1>4. ReservationInv'
  BY DEF IInv, ReservationInv, Fresh, StartFails, Without, Cancel, requestVars
<1>5. Exclusive'
  BY DEF IInv, Exclusive, StartFails, Without
<1>6. FlagInv'
  BY DEF IInv, FlagInv, StartFails
<1>7. ChildInv'
  BY DEF IInv, ChildInv, StartFails, Cancel, Signalled, requestVars
<1>8. QuietWhenDown'
  BY StaysQuiet DEF IInv, TypeOK, StartFails, Without, Cancel, Signalled, requestVars
<1>. QED
  BY <1>1, <1>2, <1>3, <1>4, <1>5, <1>6, <1>7, <1>8 DEF IInv

\* A submission adds one adapter call and sets the flag.
LEMMA SubmitStep ==
  ASSUME IInv, NEW a \in Attempt, Submit(a)
  PROVE  IInv'
<1>1. TypeOK'
  BY DEF IInv, TypeOK, Submit, Phase, requestVars, tableVars, effectVars
<1>2. Fresh'
  BY DEF IInv, Fresh, Submit, StillPending, requestVars, tableVars
<1>3. SlotInv'
  BY DEF IInv, SlotInv, Submit, requestVars, tableVars
<1>4. ReservationInv'
  BY DEF IInv, ReservationInv, Submit, requestVars, tableVars
<1>5. Exclusive'
  BY DEF IInv, Exclusive, Submit, tableVars
<1>6. FlagInv'
  BY DEF IInv, TypeOK, FlagInv, Submit
<1>7. ChildInv'
  BY DEF IInv, ChildInv, Submit, StillPending, requestVars, tableVars
<1>8. QuietWhenDown'
  BY DEF IInv, QuietWhenDown, Submit, Serving
<1>. QED
  BY <1>1, <1>2, <1>3, <1>4, <1>5, <1>6, <1>7, <1>8 DEF IInv

\* A successful submission.
LEMMA SubmitOkStep ==
  ASSUME IInv, NEW a \in Attempt, SubmitOk(a)
  PROVE  IInv'
<1>1. TypeOK'
  BY DEF IInv, TypeOK, SubmitOk, Without, Announce, Signalled, Phase,
     requestVars
<1>2. Fresh'
  BY DEF IInv, TypeOK, Fresh, SubmitOk, Signalled, requestVars
<1>3. SlotInv'
  BY DEF IInv, TypeOK, SlotInv, Fresh, SubmitOk, Without, requestVars
<1>4. ReservationInv'
  BY DEF IInv, TypeOK, ReservationInv, SubmitOk, StillPending, requestVars
<1>5. Exclusive'
  BY DEF IInv, Exclusive, SubmitOk, Without
<1>6. FlagInv'
  BY DEF IInv, TypeOK, FlagInv, SubmitOk
<1>7. ChildInv'
  BY DEF IInv, TypeOK, ChildInv, SubmitOk, Signalled, requestVars
<1>8. QuietWhenDown'
  BY StaysQuiet DEF IInv, TypeOK, SubmitOk, Without, Signalled, requestVars
<1>. QED
  BY <1>1, <1>2, <1>3, <1>4, <1>5, <1>6, <1>7, <1>8 DEF IInv

\* A failed submission disposes its record, if it is still pending.
LEMMA SubmitFailsStep ==
  ASSUME IInv, NEW a \in Attempt, SubmitFails(a)
  PROVE  IInv'
<1>1. TypeOK'
  BY DEF IInv, TypeOK, SubmitFails, Dispose, Without, Marked, Cancel,
     Signalled, Phase, requestVars, effectVars
<1>2. Fresh'
  BY DEF IInv, Fresh, SubmitFails, Dispose, Marked, Cancel, Signalled,
     requestVars
<1>3. SlotInv'
  BY DEF IInv, TypeOK, SlotInv, Fresh, SubmitFails, Dispose, Without, Marked,
     requestVars
<1>4. ReservationInv'
  BY DEF IInv, TypeOK, ReservationInv, SubmitFails, StillPending, Dispose,
     Marked, Cancel, requestVars
<1>5. Exclusive'
  BY DEF IInv, Exclusive, SubmitFails, Dispose, Without
<1>6. FlagInv'
  BY DEF IInv, TypeOK, FlagInv, SubmitFails
<1>7. ChildInv'
  BY DEF IInv, ChildInv, SubmitFails, Dispose, Marked, Cancel, Signalled,
     requestVars
<1>8. QuietWhenDown'
  BY StaysQuiet DEF IInv, TypeOK, SubmitFails, Dispose, Without, Cancel, Signalled, requestVars
<1>. QED
  BY <1>1, <1>2, <1>3, <1>4, <1>5, <1>6, <1>7, <1>8 DEF IInv

\* A device-code child has exited, or its handle was cancelled.
LEMMA DeviceVerdictStep ==
  ASSUME IInv, NEW a \in Attempt, NEW ok \in BOOLEAN, DeviceVerdict(a, ok)
  PROVE  IInv'
<1>1. TypeOK'
  BY DEF IInv, TypeOK, DeviceVerdict, Conclude, Without, Announce, Phase,
     requestVars
<1>2. Fresh'
  BY DEF IInv, TypeOK, Fresh, DeviceVerdict, Conclude, requestVars
<1>3. SlotInv'
  BY DEF IInv, TypeOK, Fresh, SlotInv, DeviceVerdict, Conclude, Without,
     requestVars
<1>4. ReservationInv'
  BY DEF IInv, TypeOK, ReservationInv, DeviceVerdict, Conclude, StillPending,
     requestVars
<1>5. Exclusive'
  BY DEF IInv, Exclusive, DeviceVerdict, Conclude, Without
<1>6. FlagInv'
  BY DEF IInv, FlagInv, DeviceVerdict
<1>7. ChildInv'
  BY DEF IInv, TypeOK, ChildInv, DeviceVerdict, Conclude, requestVars
<1>8. QuietWhenDown'
  BY DEF IInv, QuietWhenDown, DeviceVerdict, Conclude, StillPending
<1>. QED
  BY <1>1, <1>2, <1>3, <1>4, <1>5, <1>6, <1>7, <1>8 DEF IInv

\* The reaper.
LEMMA TtlExpiresStep ==
  ASSUME IInv, NEW a \in Attempt, TtlExpires(a)
  PROVE  IInv'
<1>1. TypeOK'
  BY DEF IInv, TypeOK, TtlExpires, Dispose, Without, Marked, Cancel,
     Signalled, Phase, requestVars, effectVars
<1>2. Fresh'
  BY DEF IInv, Fresh, TtlExpires, Dispose, Marked, Cancel, Signalled,
     requestVars
<1>3. SlotInv'
  BY DEF IInv, TypeOK, Fresh, SlotInv, TtlExpires, Dispose, Without, Marked,
     requestVars
<1>4. ReservationInv'
  BY DEF IInv, TypeOK, SlotInv, ReservationInv, TtlExpires, Dispose, Marked,
     Cancel, requestVars
<1>5. Exclusive'
  BY DEF IInv, Exclusive, TtlExpires, Dispose, Without
<1>6. FlagInv'
  BY DEF IInv, FlagInv, TtlExpires
<1>7. ChildInv'
  BY DEF IInv, ChildInv, TtlExpires, Dispose, Marked, Cancel, Signalled,
     requestVars
<1>8. QuietWhenDown'
  BY StaysQuiet DEF IInv, TypeOK, TtlExpires, Dispose, Without, Cancel, Signalled, requestVars
<1>. QED
  BY <1>1, <1>2, <1>3, <1>4, <1>5, <1>6, <1>7, <1>8 DEF IInv

\* A cancellation.
LEMMA CancelSessionStep ==
  ASSUME IInv, NEW a \in Attempt, CancelSession(a)
  PROVE  IInv'
<1>1. TypeOK'
  BY DEF IInv, TypeOK, CancelSession, Dispose, Without, Marked, Cancel,
     Signalled, Phase, requestVars, effectVars
<1>2. Fresh'
  BY DEF IInv, Fresh, CancelSession, Dispose, Marked, Cancel, Signalled,
     requestVars
<1>3. SlotInv'
  BY DEF IInv, TypeOK, Fresh, SlotInv, CancelSession, Dispose, Without,
     Marked, requestVars
<1>4. ReservationInv'
  BY DEF IInv, TypeOK, SlotInv, ReservationInv, CancelSession, Dispose,
     Marked, Cancel, requestVars
<1>5. Exclusive'
  BY DEF IInv, Exclusive, CancelSession, Dispose, Without
<1>6. FlagInv'
  BY DEF IInv, FlagInv, CancelSession
<1>7. ChildInv'
  BY DEF IInv, ChildInv, CancelSession, Dispose, Marked, Cancel, Signalled,
     requestVars
<1>8. QuietWhenDown'
  BY DEF IInv, QuietWhenDown, CancelSession, Serving
<1>. QED
  BY <1>1, <1>2, <1>3, <1>4, <1>5, <1>6, <1>7, <1>8 DEF IInv

\* Forgetting a credential touches no table.
LEMMA ForgetCredentialStep ==
  ASSUME IInv, NEW e \in Engine, ForgetCredential(e)
  PROVE  IInv'
<1>1. TypeOK'
  BY DEF IInv, TypeOK, ForgetCredential, Announce, requestVars, tableVars,
     handleVars
<1>2. Fresh'
  BY DEF IInv, Fresh, ForgetCredential, requestVars, tableVars, handleVars
<1>3. SlotInv'
  BY DEF IInv, SlotInv, ForgetCredential, requestVars, tableVars
<1>4. ReservationInv'
  BY DEF IInv, ReservationInv, ForgetCredential, requestVars, tableVars,
     handleVars
<1>5. Exclusive'
  BY DEF IInv, Exclusive, ForgetCredential, tableVars
<1>6. FlagInv'
  BY DEF IInv, FlagInv, ForgetCredential, handleVars
<1>7. ChildInv'
  BY DEF IInv, ChildInv, ForgetCredential, requestVars, tableVars, handleVars
<1>8. QuietWhenDown'
  BY DEF IInv, QuietWhenDown, ForgetCredential, tableVars,
     handleVars
<1>. QED
  BY <1>1, <1>2, <1>3, <1>4, <1>5, <1>6, <1>7, <1>8 DEF IInv

\* A CLI writing its credential touches no table.
LEMMA CliPersistsStep ==
  ASSUME IInv, NEW a \in Attempt, CliPersists(a)
  PROVE  IInv'
<1>1. TypeOK'
  BY DEF IInv, TypeOK, CliPersists, requestVars, tableVars, handleVars
<1>2. Fresh'
  BY DEF IInv, Fresh, CliPersists, requestVars, tableVars, handleVars
<1>3. SlotInv'
  BY DEF IInv, SlotInv, CliPersists, requestVars, tableVars
<1>4. ReservationInv'
  BY DEF IInv, ReservationInv, CliPersists, requestVars, tableVars, handleVars
<1>5. Exclusive'
  BY DEF IInv, Exclusive, CliPersists, tableVars
<1>6. FlagInv'
  BY DEF IInv, FlagInv, CliPersists, handleVars
<1>7. ChildInv'
  BY DEF IInv, ChildInv, CliPersists, requestVars, tableVars, handleVars
<1>8. QuietWhenDown'
  BY DEF IInv, QuietWhenDown, CliPersists, tableVars, handleVars
<1>. QED
  BY <1>1, <1>2, <1>3, <1>4, <1>5, <1>6, <1>7, <1>8 DEF IInv

\* A child exits.
LEMMA ChildExitsStep ==
  ASSUME IInv, NEW a \in Attempt, ChildExits(a)
  PROVE  IInv'
<1>1. TypeOK'
  BY DEF IInv, TypeOK, ChildExits, requestVars, tableVars, effectVars
<1>2. Fresh'
  BY DEF IInv, Fresh, ChildExits, requestVars, tableVars
<1>3. SlotInv'
  BY DEF IInv, SlotInv, ChildExits, requestVars, tableVars
<1>4. ReservationInv'
  BY DEF IInv, ReservationInv, ChildExits, requestVars, tableVars
<1>5. Exclusive'
  BY DEF IInv, Exclusive, ChildExits, tableVars
<1>6. FlagInv'
  BY DEF IInv, FlagInv, ChildExits
<1>7. ChildInv'
  BY DEF IInv, ChildInv, ChildExits, requestVars, tableVars
<1>8. QuietWhenDown'
  BY DEF IInv, QuietWhenDown, ChildExits, tableVars
<1>. QED
  BY <1>1, <1>2, <1>3, <1>4, <1>5, <1>6, <1>7, <1>8 DEF IInv

\* The first sweep of stopServer().
LEMMA StopBeginStep ==
  ASSUME IInv, StopBegin
  PROVE  IInv'
<1>1. TypeOK'
  BY DEF IInv, TypeOK, StopBegin, ResetSessions, Without, Marked, Cancel,
     Signalled, Phase, requestVars, effectVars
<1>2. Fresh'
  BY DEF IInv, Fresh, ReservationInv, StopBegin, ResetSessions, Marked,
     Cancel, Signalled, requestVars
<1>3. SlotInv'
  BY DEF IInv, SlotInv, StopBegin, ResetSessions, Without, Marked
<1>4. ReservationInv'
  BY ConstantsAssumption DEF IInv, Fresh, ReservationInv, StopBegin,
     ResetSessions, Marked, Cancel
<1>5. Exclusive'
  BY DEF IInv, Exclusive, StopBegin, ResetSessions
<1>6. FlagInv'
  BY DEF IInv, FlagInv, StopBegin, ResetSessions
<1>7. ChildInv'
  BY DEF IInv, ChildInv, StopBegin, ResetSessions, Marked, Cancel, Signalled,
     requestVars
<1>8. QuietWhenDown'
  BY DEF IInv, QuietWhenDown, StopBegin
<1>. QED
  BY <1>1, <1>2, <1>3, <1>4, <1>5, <1>6, <1>7, <1>8 DEF IInv

\* The second sweep of stopServer().
LEMMA StopEndStep ==
  ASSUME IInv, StopEnd
  PROVE  IInv'
<1>1. TypeOK'
  BY DEF IInv, TypeOK, StopEnd, ResetSessions, Without, Marked, Cancel,
     Signalled, Phase, requestVars, effectVars
<1>2. Fresh'
  BY DEF IInv, Fresh, ReservationInv, StopEnd, ResetSessions, Marked, Cancel,
     Signalled, requestVars
<1>3. SlotInv'
  BY DEF IInv, SlotInv, StopEnd, ResetSessions, Without, Marked
<1>4. ReservationInv'
  BY ConstantsAssumption DEF IInv, Fresh, ReservationInv, StopEnd,
     ResetSessions, Marked, Cancel
<1>5. Exclusive'
  BY DEF IInv, Exclusive, StopEnd, ResetSessions
<1>6. FlagInv'
  BY DEF IInv, FlagInv, StopEnd, ResetSessions
<1>7. ChildInv'
  BY DEF IInv, ChildInv, StopEnd, ResetSessions, Marked, Cancel, Signalled,
     requestVars
<1>8. QuietWhenDown'
  <2>1. /\ byId' = {} /\ \A e \in Engine : starting'[e] = None
        /\ \A e \in Engine : byEngine'[e] = None
    BY DEF IInv, SlotInv, StopEnd, ResetSessions, Without
  <2>2. ASSUME NEW x \in Attempt, child'[x] = "running" PROVE FALSE
    <3>1. /\ child[x] = "running"
          /\ x \notin byId \cup ({starting[e] : e \in Engine} \ {None})
      BY <2>2 DEF StopEnd, ResetSessions, Cancel, Signalled
    <3>2. phase[x] = "starting" /\ x \notin cancelled
      BY <3>1 DEF IInv, ChildInv, SlotInv
    <3>3. starting[engine[x]] = x /\ engine[x] \in Engine
      BY <3>2 DEF IInv, ReservationInv, Fresh
    <3>. QED
      BY <3>1, <3>3, ConstantsAssumption
  <2>. QED
    BY <2>1, <2>2 DEF QuietWhenDown
<1>. QED
  BY <1>1, <1>2, <1>3, <1>4, <1>5, <1>6, <1>7, <1>8 DEF IInv

-----------------------------------------------------------------------------
LEMMA InitLemma == Init => IInv
<1> SUFFICES ASSUME Init PROVE IInv
  OBVIOUS
<1>1. TypeOK
  BY DEF Init, TypeOK, Phase
<1>2. Fresh /\ FlagInv /\ ChildInv
  BY DEF Init, Fresh, FlagInv, ChildInv
<1>3. SlotInv /\ ReservationInv /\ Exclusive /\ QuietWhenDown
  BY DEF Init, SlotInv, ReservationInv, Exclusive, QuietWhenDown
<1>. QED
  BY <1>1, <1>2, <1>3 DEF IInv

LEMMA StepLemma == IInv /\ [Next]_vars => IInv'
<1> SUFFICES ASSUME IInv, [Next]_vars PROVE IInv'
  OBVIOUS
<1>1. CASE \E a \in Attempt, e \in Engine, f \in Flow, withUrl \in BOOLEAN :
   CreateSession(a, e, f, withUrl)
  BY <1>1, CreateSessionStep
<1>2. CASE \E a \in Attempt : Spawned(a)
  BY <1>2, SpawnedStep
<1>3. CASE \E a \in Attempt : StartOk(a)
  BY <1>3, StartOkStep
<1>4. CASE \E a \in Attempt : StartFails(a)
  BY <1>4, StartFailsStep
<1>5. CASE \E a \in Attempt : Submit(a)
  BY <1>5, SubmitStep
<1>6. CASE \E a \in Attempt : SubmitOk(a)
  BY <1>6, SubmitOkStep
<1>7. CASE \E a \in Attempt : SubmitFails(a)
  BY <1>7, SubmitFailsStep
<1>8. CASE \E a \in Attempt, ok \in BOOLEAN : DeviceVerdict(a, ok)
  BY <1>8, DeviceVerdictStep
<1>9. CASE \E a \in Attempt : TtlExpires(a)
  BY <1>9, TtlExpiresStep
<1>10. CASE \E a \in Attempt : CancelSession(a)
  BY <1>10, CancelSessionStep
<1>11. CASE \E e \in Engine : ForgetCredential(e)
  BY <1>11, ForgetCredentialStep
<1>12. CASE \E a \in Attempt : CliPersists(a)
  BY <1>12, CliPersistsStep
<1>13. CASE \E a \in Attempt : ChildExits(a)
  BY <1>13, ChildExitsStep
<1>14. CASE StopBegin
  BY <1>14, StopBeginStep
<1>15. CASE StopEnd
  BY <1>15, StopEndStep
<1>16. CASE UNCHANGED vars
  BY <1>16 DEF IInv, TypeOK, Fresh, SlotInv, ReservationInv, Exclusive, FlagInv,
     ChildInv, QuietWhenDown, vars, requestVars, tableVars, handleVars,
     effectVars
<1>. QED
  BY <1>1, <1>2, <1>3, <1>4, <1>5, <1>6, <1>7, <1>8, <1>9, <1>10, <1>11,
     <1>12, <1>13, <1>14, <1>15, <1>16 DEF Next

\* The tables of the session manager mean what IInv says after every handler.
THEOREM Invariant == Spec => []IInv
<1>. QED
  BY InitLemma, StepLemma, PTL DEF Spec

-----------------------------------------------------------------------------
(***************************************************************************)
(* What follows from it                                                    *)
(***************************************************************************)
\* The variables of session-manager.ts keep their types in every behaviour.
THEOREM TypeCorrect == Spec => []TypeOK
<1>1. IInv => TypeOK
  BY DEF IInv
<1>. QED
  BY <1>1, Invariant, PTL

\* However many createSession() calls overlap and however late their adapters
\* answer, no engine has two live logins: a live attempt holds its engine's
\* reservation or its slot, and the two exclude each other.
THEOREM AtMostOneLiveAttempt == Spec => []OneLivePerEngine
<1>1. IInv => OneLivePerEngine
  <2> SUFFICES ASSUME IInv, NEW a \in Attempt, NEW b \in Attempt,
                      Live(a), Live(b), engine[a] = engine[b]
               PROVE  a = b
    BY DEF OneLivePerEngine
  <2>1. engine[a] \in Engine
    BY DEF IInv, Fresh, Live
  <2>2. /\ starting[engine[a]] = a \/ byEngine[engine[a]] = a
        /\ starting[engine[a]] = b \/ byEngine[engine[a]] = b
    BY DEF IInv, SlotInv, ReservationInv, Live
  <2>3. starting[engine[a]] = None \/ byEngine[engine[a]] = None
    BY <2>1 DEF IInv, Exclusive
  <2>. QED
    BY <2>2, <2>3, ConstantsAssumption
<1>. QED
  BY <1>1, Invariant, PTL

\* byEngine names exactly the registered pending records: superseding, failed
\* and reaped logins leave no entry behind, and no pending record loses its own.
THEOREM SlotIndexAgrees == Spec => []SlotsMatchRecords
<1>1. IInv => SlotsMatchRecords
  BY DEF IInv, TypeOK, SlotInv, SlotsMatchRecords
<1>. QED
  BY <1>1, Invariant, PTL

\* The `submitting` flag admits one adapter call at a time, although the status
\* stays "pending" during it.
THEOREM NoConcurrentSubmissions == Spec => []SingleDrive
<1>1. IInv => SingleDrive
  BY DEF IInv, FlagInv, SingleDrive
<1>. QED
  BY <1>1, Invariant, PTL

\* Every CLI child that was not told to stop is reachable through the slot or
\* the reservation of its engine.
THEOREM ChildrenAreReachable == Spec => []NoOrphanChild
<1>1. IInv => NoOrphanChild
  BY DEF IInv, SlotInv, ReservationInv, ChildInv, NoOrphanChild
<1>. QED
  BY <1>1, Invariant, PTL

\* stopServer() leaves no reservation and no unsignalled child, and a record
\* only of an adapter that succeeds after its cancellation, whatever was in
\* flight when it began and whichever clients disconnected meanwhile.
THEOREM ShutdownLeavesNothing == Spec => []QuietWhenDown
<1>1. IInv => QuietWhenDown
  BY DEF IInv
<1>. QED
  BY <1>1, Invariant, PTL

-----------------------------------------------------------------------------
(***************************************************************************)
(* Which step may do what                                                  *)
(***************************************************************************)
\* Only a successful submission writes a credential, and it looks at the record
\* again after its await.
LEMMA StoreLemma ==
  ASSUME IInv, [Next]_vars, NEW e \in Engine,
         credential'[e] \notin {None, credential[e]}
  PROVE  byEngine[e] = credential'[e] /\ credential'[e] \in byId
<1>1. PICK a \in Attempt : SubmitOk(a)
  <2>1. CASE \E d \in Engine : ForgetCredential(d)
    BY <2>1 DEF ForgetCredential, IInv, TypeOK
  <2>2. CASE UNCHANGED credential
    BY <2>2
  <2>3. CASE StopBegin \/ StopEnd
    BY <2>2, <2>3 DEF StopBegin, StopEnd, ResetSessions, effectVars
  <2>4. ASSUME NEW a \in Attempt,
               \/ \E e0 \in Engine, f \in Flow, withUrl \in BOOLEAN :
                    CreateSession(a, e0, f, withUrl)
               \/ Spawned(a) \/ StartOk(a) \/ StartFails(a) \/ Submit(a) \/ SubmitFails(a)
               \/ (\E ok \in BOOLEAN : DeviceVerdict(a, ok)) \/ TtlExpires(a) \/ CancelSession(a)
               \/ CliPersists(a) \/ ChildExits(a)
        PROVE  UNCHANGED credential
    BY <2>4 DEF effectVars, CreateSession, Spawned, StartOk, StartFails, Submit, SubmitFails,
       DeviceVerdict, TtlExpires, CancelSession, CliPersists, ChildExits
  <2>. QED
    BY <2>1, <2>2, <2>3, <2>4 DEF Next, vars, effectVars
<1>2. StillPending(a) /\ credential' = [credential EXCEPT ![engine[a]] = a]
  BY <1>1 DEF SubmitOk
<1>3. e = engine[a] /\ credential'[e] = a
  BY <1>2 DEF IInv, TypeOK
<1>. QED
  BY <1>2, <1>3 DEF StillPending, IInv, SlotInv

\* A late success of a cancelled, superseded or reaped attempt never reaches the
\* credential store, even if its adapter reports it.
THEOREM StoresHaveAuthority == Spec => OnlySlotHolderStores
<1>1. IInv /\ [Next]_vars =>
        [\A e \in Engine : credential'[e] \notin {None, credential[e]} =>
           byEngine[e] = credential'[e] /\ credential'[e] \in byId]_vars
  BY StoreLemma
<1>. QED
  BY <1>1, Invariant, PTL DEF Spec, OnlySlotHolderStores

\* A create moves the new attempt on and cancels only the slot holder.
LEMMA PhaseAfterCreate ==
  ASSUME IInv, NEW a \in Attempt, NEW e \in Engine, NEW f \in Flow,
         NEW withUrl \in BOOLEAN, CreateSession(a, e, f, withUrl)
  PROVE  \A x \in Attempt :
           \/ x = a /\ phase[x] = "new" /\ phase'[x] \in {"starting", "pending"}
           \/ x # a /\ phase'[x] = phase[x]
           \/ x # a /\ phase[x] = "pending" /\ phase'[x] = "cancelled"
<1>1. phase[a] = "new"
  BY DEF CreateSession
<1>2. phase' = [x \in Attempt |->
                  IF x = a THEN IF f = "api-key" THEN "pending" ELSE "starting"
                  ELSE IF x = byEngine[e] THEN "cancelled" ELSE phase[x]]
  BY <1>1 DEF CreateSession, Marked, IInv, TypeOK
<1>3. byEngine[e] \in Attempt => phase[byEngine[e]] = "pending"
  BY ConstantsAssumption DEF IInv, SlotInv
<1>. QED
  BY <1>1, <1>2, <1>3

\* An attempt that is not decided has not triggered a sync.
SyncInv ==
  \A a \in Attempt : phase[a] \in {"new", "starting", "pending"} => syncs[a] = 0

LEMMA SyncStep ==
  ASSUME IInv, SyncInv, [Next]_vars
  PROVE  /\ SyncInv'
         /\ \A a \in Attempt : syncs'[a] # syncs[a] =>
              /\ a \in byId /\ phase[a] = "pending" /\ phase'[a] = "authorized"
              /\ syncs'[a] = 1
<1>1. CASE \E a \in Attempt, e \in Engine, f \in Flow, withUrl \in BOOLEAN :
             CreateSession(a, e, f, withUrl)
  <2>1. PICK a \in Attempt, e \in Engine, f \in Flow, withUrl \in BOOLEAN :
               CreateSession(a, e, f, withUrl)
    BY <1>1
  <2>. QED
    BY <2>1, PhaseAfterCreate DEF CreateSession, IInv, SyncInv
<1>2. CASE \E a \in Attempt : StartOk(a) \/ StartFails(a)
  BY <1>2 DEF StartOk, StartFails, IInv, TypeOK, SyncInv, effectVars
<1>3. CASE \E a \in Attempt : SubmitOk(a)
  BY <1>3 DEF SubmitOk, StillPending, IInv, TypeOK, SyncInv
<1>4. CASE \E a \in Attempt : SubmitFails(a)
  BY <1>4 DEF SubmitFails, Dispose, Marked, IInv, TypeOK, SyncInv, effectVars
<1>5. CASE \E a \in Attempt, ok \in BOOLEAN : DeviceVerdict(a, ok)
  BY <1>5 DEF DeviceVerdict, Conclude, StillPending, IInv, TypeOK, SyncInv
<1>6. CASE \E a \in Attempt : TtlExpires(a) \/ CancelSession(a)
  BY <1>6 DEF TtlExpires, CancelSession, Dispose, Marked, IInv, TypeOK, SyncInv, effectVars
<1>7. CASE StopBegin \/ StopEnd
  BY <1>7 DEF StopBegin, StopEnd, ResetSessions, Marked, IInv, TypeOK, SyncInv, effectVars
<1>8. CASE UNCHANGED <<phase, syncs>>
  BY <1>8 DEF SyncInv
<1>. QED
  BY <1>1, <1>2, <1>3, <1>4, <1>5, <1>6, <1>7, <1>8 DEF Next, vars, tableVars, effectVars,
     Spawned, Submit, ForgetCredential, CliPersists, ChildExits

\* A login triggers its manifest sync once, in the step that authorizes it.
THEOREM OneSyncPerLogin == Spec => SyncOnlyOnAuthorization
<1>1. Init => SyncInv
  BY DEF Init, SyncInv
<1>2. IInv /\ SyncInv /\ [Next]_vars => SyncInv'
  BY SyncStep
<1>3. IInv /\ SyncInv /\ [Next]_vars =>
        [\A a \in Attempt :
           syncs'[a] # syncs[a] =>
             /\ a \in byId /\ phase[a] = "pending" /\ phase'[a] = "authorized"
             /\ syncs'[a] = 1]_vars
  BY SyncStep
<1>. QED
  BY <1>1, <1>2, <1>3, Invariant, PTL DEF Spec, SyncOnlyOnAuthorization

\* One attempt's verdict over one step.
LEMMA VerdictStep ==
  ASSUME IInv, [Next]_vars, NEW a \in Attempt
  PROVE  /\ a \in byId /\ a \in byId' /\ phase[a] # "pending" => phase'[a] = phase[a]
         /\ phase[a] \in {"rejected", "superseded", "failed", "cancelled"}
              /\ a \notin byId => a \notin byId' /\ phase'[a] = phase[a]
<1>1. CASE \E b \in Attempt, e \in Engine, f \in Flow, withUrl \in BOOLEAN :
             CreateSession(b, e, f, withUrl)
  <2>1. PICK b \in Attempt, e \in Engine, f \in Flow, withUrl \in BOOLEAN :
               CreateSession(b, e, f, withUrl)
    BY <1>1
  <2>2. byId' \subseteq byId \cup {b} /\ phase[b] = "new" /\ b \notin byId
    BY <2>1 DEF CreateSession, IInv, Fresh
  <2>. QED
    BY <2>1, <2>2, PhaseAfterCreate
<1>2. CASE \E b \in Attempt : StartOk(b) \/ StartFails(b)
  BY <1>2 DEF StartOk, StartFails, IInv, TypeOK, SlotInv
<1>3. CASE \E b \in Attempt : SubmitOk(b)
  BY <1>3 DEF SubmitOk, StillPending, IInv, TypeOK
<1>4. CASE \E b \in Attempt : SubmitFails(b)
  BY <1>4 DEF SubmitFails, StillPending, Dispose, Marked, IInv, TypeOK
<1>5. CASE \E b \in Attempt, ok \in BOOLEAN : DeviceVerdict(b, ok)
  BY <1>5 DEF DeviceVerdict, Conclude, StillPending, IInv, TypeOK
<1>6. CASE \E b \in Attempt : TtlExpires(b) \/ CancelSession(b)
  BY <1>6 DEF TtlExpires, CancelSession, Dispose, Marked, IInv, TypeOK
<1>7. CASE StopBegin \/ StopEnd
  BY <1>7 DEF StopBegin, StopEnd, ResetSessions, Marked, IInv, TypeOK
<1>8. CASE UNCHANGED <<phase, byId>>
  BY <1>8
<1>. QED
  BY <1>1, <1>2, <1>3, <1>4, <1>5, <1>6, <1>7, <1>8 DEF Next, vars, tableVars,
     Spawned, Submit, ForgetCredential, CliPersists, ChildExits

\* What a poller has read of a concluded login stays true as long as the login
\* can be read, and a disposed attempt never comes back.
THEOREM VerdictsAreFinal == Spec => VerdictsStand
<1>1. IInv /\ [Next]_vars =>
        [\A a \in Attempt :
           /\ a \in byId /\ a \in byId' /\ phase[a] # "pending" => phase'[a] = phase[a]
           /\ phase[a] \in {"rejected", "superseded", "failed", "cancelled"}
                /\ a \notin byId => a \notin byId' /\ phase'[a] = phase[a]]_vars
  BY VerdictStep
<1>. QED
  BY <1>1, Invariant, PTL DEF Spec, VerdictsStand

-----------------------------------------------------------------------------
(***************************************************************************)
(* What AuthSession guarantees when no adapter reports success after       *)
(* cancel(): it implements the lock of EngineLogin, and a superseded       *)
(* generation never leads to a sync.                                       *)
(***************************************************************************)
\* A pending record has not been cancelled: only dispose() cancels one, and it
\* decides it in the same step.
PendingUncancelled == \A a \in Attempt : phase[a] = "pending" => a \notin cancelled

RInv == IInv /\ SyncInv /\ PendingUncancelled

-----------------------------------------------------------------------------
(***************************************************************************)
(* The strengthened invariant                                              *)
(***************************************************************************)
LEMMA PendingStep ==
  ASSUME RInv, ~LateResults, [Next]_vars
  PROVE  PendingUncancelled'
<1> USE DEF RInv, PendingUncancelled
<1>1. CASE \E a \in Attempt, e \in Engine, f \in Flow, withUrl \in BOOLEAN :
             CreateSession(a, e, f, withUrl)
  <2>1. PICK a \in Attempt, e \in Engine, f \in Flow, withUrl \in BOOLEAN :
               CreateSession(a, e, f, withUrl)
    BY <1>1
  <2>2. cancelled' = cancelled \cup Displaced(e) /\ a \notin cancelled /\ phase[a] = "new"
    BY <2>1 DEF CreateSession, IInv, Fresh
  <2>3. byEngine[e] \in Attempt => phase'[byEngine[e]] = "cancelled"
    <3>1. byEngine[e] \in Attempt =>
            phase[byEngine[e]] = "pending" /\ byEngine[e] # a
      BY <2>2, ConstantsAssumption DEF IInv, SlotInv
    <3>2. phase' \in {[Marked(phase, {byEngine[e]}, "cancelled") EXCEPT ![a] = s] :
                       s \in {"pending", "starting"}}
      BY <2>1 DEF CreateSession
    <3>. QED
      BY <3>1, <3>2 DEF Marked
  <2>4. starting[e] \in Attempt => phase[starting[e]] = "starting"
    BY ConstantsAssumption DEF IInv, ReservationInv
  <2>. QED
    BY <2>1, <2>2, <2>3, <2>4, PhaseAfterCreate DEF Displaced
<1>2. CASE \E a \in Attempt : StartOk(a)
  BY <1>2 DEF StartOk, Cancel, IInv, TypeOK, ChildInv
<1>3. CASE \E a \in Attempt : StartFails(a)
  BY <1>3 DEF StartFails, Cancel, IInv, TypeOK
<1>4. CASE \E a \in Attempt : SubmitOk(a)
  BY <1>4 DEF SubmitOk, IInv, TypeOK
<1>5. CASE \E a \in Attempt : SubmitFails(a)
  BY <1>5 DEF SubmitFails, Dispose, Cancel, Marked, IInv, TypeOK
<1>6. CASE \E a \in Attempt, ok \in BOOLEAN : DeviceVerdict(a, ok)
  BY <1>6 DEF DeviceVerdict, Conclude, IInv, TypeOK
<1>7. CASE \E a \in Attempt : TtlExpires(a)
  BY <1>7 DEF TtlExpires, Dispose, Cancel, Marked, IInv, TypeOK
<1>8. CASE \E a \in Attempt : CancelSession(a)
  BY <1>8 DEF CancelSession, Dispose, Cancel, Marked, IInv, TypeOK
<1>9. CASE StopBegin \/ StopEnd
  BY <1>9 DEF StopBegin, StopEnd, ResetSessions, Cancel, Marked, IInv, TypeOK, SlotInv,
     ReservationInv
<1>10. CASE UNCHANGED <<phase, cancelled>>
  BY <1>10
<1>. QED
  BY <1>1, <1>2, <1>3, <1>4, <1>5, <1>6, <1>7, <1>8, <1>9, <1>10 DEF Next, vars, tableVars,
     handleVars, Spawned, Submit, ForgetCredential, CliPersists, ChildExits

LEMMA RInvariant == ~LateResults => (Spec => []RInv)
<1>1. Init => RInv
  BY InitLemma DEF Init, RInv, SyncInv, PendingUncancelled
<1>2. ~LateResults /\ RInv /\ [Next]_vars => RInv'
  BY StepLemma, SyncStep, PendingStep DEF RInv
<1>3. CASE LateResults
  BY <1>3
<1>4. CASE ~LateResults
  <2>1. RInv /\ [Next]_vars => RInv'
    BY <1>2, <1>4
  <2>. QED
    BY <1>1, <2>1, PTL DEF Spec
<1>. QED
  BY <1>3, <1>4

-----------------------------------------------------------------------------
(***************************************************************************)
(* What the mapped state is                                                *)
(***************************************************************************)
\* The abstract state of attempt a as a conditional.
LEMMA LoginStateOf ==
  ASSUME NEW a \in Attempt
  PROVE  /\ LoginState[a] = IF phase[a] = "new" THEN "new"
                            ELSE IF syncs[a] > 0 THEN "won"
                            ELSE IF Live(a) THEN "open" ELSE "lost"
         /\ LoginState'[a] = IF phase'[a] = "new" THEN "new"
                             ELSE IF syncs'[a] > 0 THEN "won"
                             ELSE IF Live(a)' THEN "open" ELSE "lost"
  BY DEF LoginState

\* The mapped holder of an engine is its open attempt, and there is no other.
LEMMA HolderIsOpen ==
  ASSUME RInv
  PROVE  /\ \A a \in Attempt : LoginState[a] = "open" <=> Live(a)
         /\ \A a \in Attempt : Live(a) => engine[a] \in Engine /\ Holder[engine[a]] = a
         /\ \A e \in Engine : Holder[e] # None =>
              Holder[e] \in Attempt /\ Live(Holder[e]) /\ engine[Holder[e]] = e
<1>1. ASSUME NEW a \in Attempt
      PROVE  LoginState[a] = "open" <=> Live(a)
  BY LoginStateOf DEF Live, RInv, SyncInv
<1>2. ASSUME NEW a \in Attempt, Live(a)
      PROVE  engine[a] \in Engine /\ Holder[engine[a]] = a
  BY <1>2, ConstantsAssumption
     DEF Live, Holder, RInv, IInv, Fresh, SlotInv, ReservationInv, Exclusive
<1>3. ASSUME NEW e \in Engine, Holder[e] # None
      PROVE  Holder[e] \in Attempt /\ Live(Holder[e]) /\ engine[Holder[e]] = e
  BY <1>3 DEF Live, Holder, RInv, IInv, TypeOK, SlotInv, ReservationInv,
     PendingUncancelled
<1>. QED
  BY <1>1, <1>2, <1>3

-----------------------------------------------------------------------------
(***************************************************************************)
(* The three kinds of steps                                                *)
(***************************************************************************)
\* A step that ends the live attempts among A, and touches no other, is a
\* Lose step, or a stutter when none of A was live.
LEMMA LoseStep ==
  ASSUME RInv, NEW A \in SUBSET Attempt,
         UNCHANGED <<engine, credential, syncs>>,
         byEngine' = Without(byEngine, A),
         starting' = Without(starting, A),
         \A x \in Attempt : phase'[x] = "new" <=> phase[x] = "new",
         \A x \in Attempt : Live(x)' <=> Live(x) /\ x \notin A
  PROVE  [Login!Next]_(Login!vars)
<1> DEFINE L == {x \in A : Live(x)}
<1>1. LoginState' = [x \in Attempt |-> IF x \in L THEN "lost" ELSE LoginState[x]]
  <2>1. ASSUME NEW x \in Attempt
        PROVE  LoginState'[x] = IF x \in L THEN "lost" ELSE LoginState[x]
    <3>1. x \in L => syncs[x] = 0 /\ phase[x] # "new"
      BY DEF Live, RInv, SyncInv
    <3>. QED
      BY <3>1, LoginStateOf
  <2>. QED
    BY <2>1 DEF LoginState
<1>2. Holder' = [e \in Engine |-> IF Holder[e] \in L THEN None ELSE Holder[e]]
  <2>1. ASSUME NEW e \in Engine
        PROVE  Holder'[e] = IF Holder[e] \in L THEN None ELSE Holder[e]
    <3>1. Holder'[e] = IF byEngine[e] # None /\ byEngine[e] \notin A THEN byEngine[e]
                       ELSE IF starting[e] \in A THEN None ELSE starting[e]
      BY ConstantsAssumption DEF Holder, Without
    <3>2. byEngine[e] = None \/ starting[e] = None
      BY DEF RInv, IInv, Exclusive
    <3>3. Holder[e] \in A <=> Holder[e] \in L
      BY HolderIsOpen, ConstantsAssumption
    <3>. QED
      BY <3>1, <3>2, <3>3, ConstantsAssumption DEF Holder
  <2>. QED
    BY <2>1 DEF Holder
<1>3. CASE L = {}
  <2>1. LoginState' = LoginState
    BY <1>1, <1>3 DEF LoginState
  <2>2. Holder' = Holder
    BY <1>2, <1>3 DEF Holder
  <2>. QED
    BY <2>1, <2>2 DEF Login!vars
<1>4. CASE L # {}
  <2>1. L \in SUBSET Attempt /\ \A x \in L : LoginState[x] = "open"
    BY HolderIsOpen
  <2>2. Login!Lose(L)
    BY <1>1, <1>2, <1>4, <2>1 DEF Login!Lose
  <2>. QED
    BY <2>1, <2>2 DEF Login!Next
<1>. QED
  BY <1>3, <1>4

\* A step that authorizes the pending record a is a Win step.
LEMMA WinStep ==
  ASSUME RInv, NEW a \in Attempt, StillPending(a),
         UNCHANGED <<engine, starting>>,
         phase' = [phase EXCEPT ![a] = "authorized"],
         byEngine' = Without(byEngine, {a}),
         syncs' = [syncs EXCEPT ![a] = @ + 1],
         cancelled' \in {cancelled, cancelled \cup {a}},
         credential' \in {credential, [credential EXCEPT ![engine[a]] = a]}
  PROVE  Login!Next
<1>1. Live(a) /\ LoginState[a] = "open" /\ engine[a] \in Engine /\ Holder[engine[a]] = a
  BY HolderIsOpen DEF StillPending, Live, RInv, PendingUncancelled
<1>2. LoginState' = [LoginState EXCEPT ![a] = "won"]
  <2>1. ASSUME NEW x \in Attempt
        PROVE  LoginState'[x] = IF x = a THEN "won" ELSE LoginState[x]
    <3>1. CASE x = a
      <4>1. phase'[x] = "authorized" /\ syncs'[x] > 0
        BY <3>1 DEF RInv, IInv, TypeOK
      <4>. QED
        BY <3>1, <4>1, LoginStateOf
    <3>2. CASE x # a
      <4>1. phase'[x] = phase[x] /\ syncs'[x] = syncs[x] /\ (Live(x)' <=> Live(x))
        BY <3>2 DEF Live, RInv, IInv, TypeOK
      <4>. QED
        BY <3>2, <4>1, LoginStateOf
    <3>. QED
      BY <3>1, <3>2
  <2>. QED
    BY <2>1 DEF LoginState
<1>3. Holder' = [Holder EXCEPT ![engine[a]] = None]
  <2>1. ASSUME NEW e \in Engine
        PROVE  Holder'[e] = IF e = engine[a] THEN None ELSE Holder[e]
    BY ConstantsAssumption
       DEF Holder, Without, StillPending, RInv, IInv, TypeOK, SlotInv, Exclusive
  <2>. QED
    BY <2>1 DEF Holder
<1>. QED
  BY <1>1, <1>2, <1>3 DEF Login!Win, Login!Next

\* A step that changes nothing the mapping looks at is a stutter.
LEMMA SameStep ==
  ASSUME UNCHANGED <<engine, phase, byEngine, starting, cancelled, syncs, credential>>
  PROVE  UNCHANGED Login!vars
  BY DEF Login!vars, LoginState, Holder, Live

-----------------------------------------------------------------------------
(***************************************************************************)
(* Every step of AuthSession is a step of the lock or a stutter.           *)
(***************************************************************************)
\* A create opens the attempt and takes the engine from its holder.
LEMMA OpenStep ==
  ASSUME RInv, NEW a \in Attempt, NEW e \in Engine, NEW f \in Flow,
         NEW withUrl \in BOOLEAN, CreateSession(a, e, f, withUrl)
  PROVE  Login!Next
<1>1. /\ phase[a] = "new" /\ a \notin cancelled /\ syncs[a] = 0
      /\ cancelled' = cancelled \cup Displaced(e)
      /\ UNCHANGED <<syncs, credential>>
      /\ engine' = [engine EXCEPT ![a] = e]
  BY DEF CreateSession, RInv, IInv, Fresh, SyncInv
<1>2. Holder[e] = None => Displaced(e) = {}
  BY DEF Holder, Displaced
<1>3. Holder[e] # None => Displaced(e) = {Holder[e]}
  BY DEF Holder, Displaced, RInv, IInv, Exclusive
<1>4. a \notin Displaced(e)
  BY <1>1, <1>2, <1>3, HolderIsOpen DEF Live
<1>5. LoginState' = [x \in Attempt |-> IF x = a THEN "open"
                                       ELSE IF x = Holder[e] THEN "lost" ELSE LoginState[x]]
  <2>1. ASSUME NEW x \in Attempt
        PROVE  LoginState'[x] = IF x = a THEN "open"
                                ELSE IF x = Holder[e] THEN "lost" ELSE LoginState[x]
    <3>1. CASE x = a
      <4>1. phase'[x] \in {"starting", "pending"} /\ x \notin cancelled' /\ syncs'[x] = 0
        BY <1>1, <1>4, <3>1, PhaseAfterCreate DEF RInv
      <4>. QED
        BY <3>1, <4>1, LoginStateOf DEF Live
    <3>2. CASE x # a /\ x = Holder[e]
      <4>1. Live(x) /\ x \in cancelled'
        BY <1>1, <1>3, <3>2, HolderIsOpen, ConstantsAssumption
      <4>2. syncs'[x] = 0 /\ phase'[x] # "new"
        BY <1>1, <3>2, <4>1, PhaseAfterCreate DEF Live, RInv, SyncInv
      <4>. QED
        BY <3>2, <4>1, <4>2, LoginStateOf DEF Live
    <3>3. CASE x # a /\ x # Holder[e]
      <4>1. x \notin Displaced(e)
        BY <1>2, <1>3, <3>3
      <4>2. phase'[x] = phase[x]
        BY <1>1, <3>3, <4>1, ConstantsAssumption
           DEF CreateSession, Marked, Displaced, RInv, IInv, TypeOK
      <4>. QED
        BY <1>1, <3>3, <4>1, <4>2, LoginStateOf DEF Live
    <3>. QED
      BY <3>1, <3>2, <3>3
  <2>. QED
    BY <2>1 DEF LoginState
<1>6. Holder' = [Holder EXCEPT ![e] = a]
  <2>1. ASSUME NEW d \in Engine
        PROVE  Holder'[d] = IF d = e THEN a ELSE Holder[d]
    BY ConstantsAssumption DEF CreateSession, Holder, RInv, IInv, TypeOK
  <2>. QED
    BY <2>1 DEF Holder
<1>7. LoginState[a] = "new"
  BY <1>1, LoginStateOf
<1>. QED
  BY <1>1, <1>5, <1>6, <1>7 DEF Login!Open, Login!Next

\* A start that resolves was not cancelled, so its engine is still its own:
\* registering it moves the holder from one table to the other.
LEMMA RegisterStep ==
  ASSUME RInv, ~LateResults, NEW a \in Attempt, StartOk(a)
  PROVE  UNCHANGED Login!vars
<1>1. phase[a] = "starting" /\ a \notin cancelled /\ starting[engine[a]] = a
      /\ engine[a] \in Engine
  BY DEF StartOk, RInv, IInv, ChildInv, ReservationInv, Fresh
<1>2. byEngine[engine[a]] = None
  BY <1>1, ConstantsAssumption DEF RInv, IInv, Exclusive
<1>3. /\ phase' = [phase EXCEPT ![a] = "pending"]
      /\ byEngine' = [byEngine EXCEPT ![engine[a]] = a]
      /\ starting' = Without(starting, {a})
      /\ UNCHANGED <<cancelled, engine, credential, syncs>>
  BY <1>1, <1>2 DEF StartOk, Without, requestVars, effectVars
<1>4. LoginState' = LoginState
  <2>1. ASSUME NEW x \in Attempt
        PROVE  LoginState'[x] = LoginState[x]
    <3>1. (Live(x)' <=> Live(x)) /\ (phase'[x] = "new" <=> phase[x] = "new")
      BY <1>1, <1>3 DEF Live, RInv, IInv, TypeOK
    <3>. QED
      BY <1>3, <3>1, LoginStateOf
  <2>. QED
    BY <2>1 DEF LoginState
<1>5. Holder' = Holder
  <2>1. ASSUME NEW e \in Engine
        PROVE  Holder'[e] = Holder[e]
    BY <1>1, <1>2, <1>3, ConstantsAssumption
       DEF Holder, Without, RInv, IInv, TypeOK, ReservationInv
  <2>. QED
    BY <2>1 DEF Holder
<1>. QED
  BY <1>3, <1>4, <1>5 DEF Login!vars

LEMMA StepRefines ==
  ASSUME RInv, ~LateResults, [Next]_vars
  PROVE  [Login!Next]_(Login!vars)
<1>1. CASE \E a \in Attempt, e \in Engine, f \in Flow, withUrl \in BOOLEAN :
             CreateSession(a, e, f, withUrl)
  BY <1>1, OpenStep
<1>2. CASE \E a \in Attempt : StartOk(a)
  BY <1>2, RegisterStep
<1>3. ASSUME NEW a \in Attempt, StartFails(a)
      PROVE  [Login!Next]_(Login!vars)
  <2>1. byEngine' = Without(byEngine, {a})
    BY <1>3, ConstantsAssumption DEF StartFails, Without, RInv, IInv, TypeOK, SlotInv
  <2>2. \A x \in Attempt : /\ phase'[x] = "new" <=> phase[x] = "new"
                           /\ Live(x)' <=> Live(x) /\ x \notin {a}
    BY <1>3 DEF StartFails, Cancel, Live, RInv, IInv, TypeOK
  <2>3. UNCHANGED <<engine, credential, syncs>> /\ starting' = Without(starting, {a})
    BY <1>3 DEF StartFails, requestVars, effectVars
  <2>. QED
    BY <2>1, <2>2, <2>3, LoseStep
<1>4. ASSUME NEW a \in Attempt, SubmitOk(a)
      PROVE  [Login!Next]_(Login!vars)
  <2>1. CASE StillPending(a)
    BY <1>4, <2>1, WinStep DEF SubmitOk, requestVars
  <2>2. CASE ~StillPending(a)
    BY <1>4, <2>2, SameStep DEF SubmitOk, requestVars
  <2>. QED
    BY <2>1, <2>2
<1>5. ASSUME NEW a \in Attempt, NEW s \in Phase \ {"new", "starting", "pending"},
             a \in byId, Dispose({a}, s),
             UNCHANGED <<requestVars, starting, effectVars>>
      PROVE  [Login!Next]_(Login!vars)
  <2>1. starting' = Without(starting, {a})
    BY <1>5, ConstantsAssumption DEF Without, RInv, IInv, TypeOK, SlotInv, ReservationInv
  <2>2. \A x \in Attempt : /\ phase'[x] = "new" <=> phase[x] = "new"
                           /\ Live(x)' <=> Live(x) /\ x \notin {a}
    BY <1>5 DEF Dispose, Marked, Cancel, Live, RInv, IInv, TypeOK, Fresh
  <2>3. UNCHANGED <<engine, credential, syncs>> /\ byEngine' = Without(byEngine, {a})
    BY <1>5 DEF Dispose, requestVars, effectVars
  <2>. QED
    BY <2>1, <2>2, <2>3, LoseStep
<1>6. ASSUME NEW a \in Attempt, SubmitFails(a)
      PROVE  [Login!Next]_(Login!vars)
  <2>1. CASE StillPending(a)
    BY <1>4, <1>5, <1>6, <2>1 DEF SubmitFails, StillPending, Phase
  <2>2. CASE ~StillPending(a)
    BY <1>6, <2>2, SameStep DEF SubmitFails, requestVars, effectVars
  <2>. QED
    BY <2>1, <2>2
<1>7. ASSUME NEW a \in Attempt, NEW ok \in BOOLEAN, DeviceVerdict(a, ok)
      PROVE  [Login!Next]_(Login!vars)
  <2>1. UNCHANGED <<engine, starting, cancelled, credential>>
    BY <1>7 DEF DeviceVerdict, requestVars
  <2>2. CASE StillPending(a) /\ ok
    BY <1>7, <2>1, <2>2, WinStep DEF DeviceVerdict, Conclude
  <2>3. CASE StillPending(a) /\ ~ok
    <3>1. phase' = [phase EXCEPT ![a] = "failed"] /\ byEngine' = Without(byEngine, {a})
          /\ UNCHANGED <<engine, credential, syncs>>
      BY <1>7, <2>1, <2>3 DEF DeviceVerdict, Conclude
    <3>2. starting' = Without(starting, {a})
      BY <2>1, <2>3, ConstantsAssumption
         DEF StillPending, Without, RInv, IInv, TypeOK, ReservationInv
    <3>3. \A x \in Attempt : /\ phase'[x] = "new" <=> phase[x] = "new"
                             /\ Live(x)' <=> Live(x) /\ x \notin {a}
      BY <2>1, <2>3, <3>1 DEF StillPending, Live, RInv, IInv, TypeOK
    <3>. QED
      BY <2>1, <3>1, <3>2, <3>3, LoseStep
  <2>4. CASE ~StillPending(a)
    BY <1>7, <2>1, <2>4, SameStep DEF DeviceVerdict, Conclude
  <2>. QED
    BY <2>2, <2>3, <2>4
<1>8. ASSUME NEW a \in Attempt, TtlExpires(a) \/ CancelSession(a)
      PROVE  [Login!Next]_(Login!vars)
  <2>1. a \in byId /\ phase[a] \in Phase \ {"new", "starting"}
    BY <1>8 DEF TtlExpires, CancelSession, RInv, IInv, TypeOK, Fresh, SlotInv
  <2>. QED
    BY <1>5, <1>8, <2>1 DEF TtlExpires, CancelSession, Phase
<1>9. CASE \E e \in Engine : ForgetCredential(e)
  <2>1. PICK e \in Engine : ForgetCredential(e)
    BY <1>9
  <2>2. LoginState' = LoginState /\ Holder' = Holder
    BY <2>1 DEF ForgetCredential, tableVars, handleVars, LoginState, Holder, Live
  <2>. QED
    BY <2>1, <2>2 DEF ForgetCredential, requestVars, Login!Forget, Login!Next
<1>10. CASE StopBegin \/ StopEnd
  <2> DEFINE A == byId \cup ({starting[e] : e \in Engine} \ {None})
  <2>1. ResetSessions
    BY <1>10 DEF StopBegin, StopEnd
  <2>2. A \in SUBSET Attempt
    BY DEF RInv, IInv, TypeOK
  <2>3. byEngine' = Without(byEngine, A)
    BY <2>1, ConstantsAssumption
       DEF ResetSessions, Without, RInv, IInv, TypeOK, SlotInv
  <2>4. starting' = Without(starting, A)
    BY <2>1 DEF ResetSessions, Without
  <2>5. \A x \in Attempt : /\ phase'[x] = "new" <=> phase[x] = "new"
                           /\ Live(x)' <=> Live(x) /\ x \notin A
    BY <2>1 DEF ResetSessions, Marked, Cancel, Live, RInv, IInv, TypeOK, Fresh, SlotInv,
       ReservationInv
  <2>6. UNCHANGED <<engine, credential, syncs>>
    BY <2>1 DEF ResetSessions, requestVars, effectVars
  <2>. QED
    BY <2>2, <2>3, <2>4, <2>5, <2>6, LoseStep
<1>11. CASE UNCHANGED <<engine, phase, byEngine, starting, cancelled, syncs, credential>>
  BY <1>11, SameStep
<1>. QED
  BY <1>1, <1>2, <1>3, <1>4, <1>6, <1>7, <1>8, <1>9, <1>10, <1>11
     DEF Next, vars, requestVars, tableVars, handleVars, effectVars,
     Spawned, Submit, CliPersists, ChildExits

\* With adapters that never succeed after cancel(), the handlers of
\* session-manager.ts implement the lock: whoever lost its engine to a newer
\* create, a cancel, the TTL or shutdown never wins it later.
THEOREM ImplementsLock == ~LateResults => (Spec => ImplementsEngineLogin)
<1>1. Init => Login!Init
  BY DEF Init, Login!Init, LoginState, Holder
<1>2. CASE LateResults
  BY <1>2
<1>3. CASE ~LateResults
  <2>1. RInv /\ [Next]_vars => [Login!Next]_(Login!vars)
    BY <1>3, StepRefines
  <2>2. Spec => []RInv
    BY <1>3, RInvariant
  <2>. QED
    BY <1>1, <2>1, <2>2, PTL DEF Spec, ImplementsEngineLogin, Login!Spec
<1>. QED
  BY <1>2, <1>3

-----------------------------------------------------------------------------
(***************************************************************************)
(* Superseded generations                                                  *)
(***************************************************************************)
\* An attempt whose generation was reported as superseded had not synced, and
\* its handle was cancelled in the same step.
ReportedInv == \A a \in reported : a \in cancelled /\ syncs[a] = 0

LEMMA ReportedStep ==
  ASSUME RInv, ReportedInv, [Next]_vars
  PROVE  ReportedInv'
<1>1. \A a \in reported : syncs'[a] = 0
  BY SyncStep DEF RInv, IInv, TypeOK, ReportedInv, PendingUncancelled
<1>2. CASE \E a \in Attempt, e \in Engine, f \in Flow, withUrl \in BOOLEAN :
             CreateSession(a, e, f, withUrl)
  <2>1. PICK a \in Attempt, e \in Engine, f \in Flow, withUrl \in BOOLEAN :
               CreateSession(a, e, f, withUrl)
    BY <1>2
  <2>2. /\ reported' = reported \cup (Displaced(e) \cap notify)
        /\ cancelled' = cancelled \cup Displaced(e)
        /\ syncs' = syncs
    BY <2>1 DEF CreateSession
  <2>3. \A x \in Displaced(e) : syncs[x] = 0
    BY DEF Displaced, RInv, IInv, TypeOK, SlotInv, ReservationInv, SyncInv
  <2>. QED
    BY <1>1, <2>2, <2>3 DEF ReportedInv
<1>3. CASE UNCHANGED reported /\ cancelled \subseteq cancelled'
  BY <1>1, <1>3 DEF ReportedInv
<1>. QED
  BY <1>2, <1>3 DEF Next, vars, handleVars, effectVars, Spawned, StartOk, StartFails, Submit,
     SubmitOk, SubmitFails, DeviceVerdict, TtlExpires, CancelSession, ForgetCredential,
     CliPersists, ChildExits, StopBegin, StopEnd, ResetSessions, Dispose, Cancel

\* The worker tells the gateway one story about a generation: superseded, or
\* authorized and synchronized, never both.
THEOREM SupersededStaysSilent == ~LateResults => (Spec => []SupersededNeverSyncs)
<1>1. Init => ReportedInv
  BY DEF Init, ReportedInv
<1>2. RInv /\ ReportedInv /\ [Next]_vars => ReportedInv'
  BY ReportedStep
<1>3. ReportedInv => SupersededNeverSyncs
  BY DEF ReportedInv, SupersededNeverSyncs
<1>4. CASE LateResults
  BY <1>4
<1>5. CASE ~LateResults
  <2>1. Spec => []RInv
    BY <1>5, RInvariant
  <2>. QED
    BY <1>1, <1>2, <1>3, <2>1, PTL DEF Spec
<1>. QED
  BY <1>4, <1>5

----------------------------------------------------------------------------
(***************************************************************************)
(* The readiness cache, which listens to the credential changes that these *)
(* logins announce: HealthProbe for every set of engines and every bound.  *)
(* The two specifications share no variable.                               *)
(***************************************************************************)
\* A history variable never runs ahead of what it records.
AnnouncedExists == \A e \in Engine : announced[e] <= version[e]

\* A probe no announcement has overtaken has found nothing from before the
\* last one: this is what comparing generations at the end relies on.
CurrentProbe ==
  probe # None =>
    /\ probe.startedAt <= generation
    /\ probe.startedAt = generation =>
         \A e \in Engine : \/ probe.found[e] \in {None, Unknown}
                           \/ probe.found[e] >= announced[e]

HealthInv == HealthTypeOK /\ AnnouncedExists /\ CurrentProbe /\ NoVerdictFromBefore

\* An empty cache serves nothing.
LEMMA HealthInitEstablishes ==
  ASSUME HealthInit
  PROVE  HealthInv
<1>1. HealthTypeOK
  BY DEF HealthInit, HealthTypeOK
<1>2. AnnouncedExists
  <2>1. announced = version /\ version \in [Engine -> Nat]
    BY DEF HealthInit
  <2>. QED BY <2>1 DEF AnnouncedExists
<1>3. CurrentProbe /\ NoVerdictFromBefore
  BY DEF HealthInit, CurrentProbe, NoVerdictFromBefore
<1>. QED
  BY <1>1, <1>2, <1>3 DEF HealthInv

\* Dropping the snapshot and bumping the generation leaves nothing to publish,
\* whatever the announcement is about.
LEMMA AnnounceStep ==
  ASSUME HealthInv, OnCredentialChange, version' \in [Engine -> Nat]
  PROVE  HealthInv'
<1>1. HealthTypeOK'
  <2>1. /\ version' \in [Engine -> Nat] /\ announced' \in [Engine -> Nat]
        /\ generation' \in Nat
    BY DEF HealthInv, HealthTypeOK, OnCredentialChange
  <2>2. snapshot' = None /\ aged' \in BOOLEAN /\ probe' = probe
    BY DEF OnCredentialChange
  <2>. QED BY <2>1, <2>2 DEF HealthInv, HealthTypeOK
<1>2. AnnouncedExists'
  BY DEF AnnouncedExists, OnCredentialChange
<1>3. CurrentProbe'
  <2>1. probe # None => probe.startedAt \in Nat
    BY HealthAssumption DEF HealthInv, HealthTypeOK
  <2>. QED BY <2>1 DEF HealthInv, HealthTypeOK, CurrentProbe, OnCredentialChange
<1>4. NoVerdictFromBefore'
  BY DEF NoVerdictFromBefore, OnCredentialChange
<1>. QED
  BY <1>1, <1>2, <1>3, <1>4 DEF HealthInv

\* An answer is at least as new as the last announcement.
LEMMA AnswerStep ==
  ASSUME HealthInv, NEW e \in Engine, ProbeAnswers(e) \/ ProbeGivesUp(e)
  PROVE  HealthInv'
<1>1. /\ probe # None
      /\ probe' = [probe EXCEPT !.found[e] = probe'.found[e]]
      /\ probe'.found[e] \in {version[e], Unknown}
      /\ probe \in [startedAt : Nat, found : [Engine -> Verdict \cup {None}]]
      /\ UNCHANGED <<version, announced, generation, snapshot, aged>>
  BY DEF ProbeAnswers, ProbeGivesUp, HealthInv, HealthTypeOK
<1>2. HealthTypeOK'
  BY <1>1 DEF HealthInv, HealthTypeOK, Verdict
<1>3. CurrentProbe'
  BY <1>1 DEF HealthInv, HealthTypeOK, AnnouncedExists, CurrentProbe
<1>4. AnnouncedExists' /\ NoVerdictFromBefore'
  BY <1>1 DEF HealthInv, AnnouncedExists, NoVerdictFromBefore
<1>. QED
  BY <1>2, <1>3, <1>4 DEF HealthInv

\* Publishing: only a probe of the current generation gets here.
LEMMA PublishStep ==
  ASSUME HealthInv, ProbeEnds
  PROVE  HealthInv'
<1>1. /\ probe \in [startedAt : Nat, found : [Engine -> Verdict \cup {None}]]
      /\ \A e \in Engine : probe.found[e] \in Verdict
  BY DEF HealthInv, HealthTypeOK, ProbeEnds
<1>2. HealthTypeOK'
  BY <1>1 DEF HealthInv, HealthTypeOK, ProbeEnds
<1>3. NoVerdictFromBefore'
  BY <1>1, HealthAssumption
     DEF HealthInv, ProbeEnds, CurrentProbe, NoVerdictFromBefore, Verdict
<1>4. AnnouncedExists' /\ CurrentProbe'
  BY DEF HealthInv, ProbeEnds, AnnouncedExists, CurrentProbe
<1>. QED
  BY <1>2, <1>3, <1>4 DEF HealthInv

\* Every step of the cache, of an engine or of its credential.
LEMMA HealthNextKeeps ==
  ASSUME HealthInv, [HealthNext]_healthVars
  PROVE  HealthInv'
<1>1. ASSUME NEW e \in Engine, AnnouncedChange(e) PROVE HealthInv'
  BY <1>1, AnnounceStep DEF AnnouncedChange, HealthInv, HealthTypeOK
<1>2. ASSUME NEW e \in Engine, SilentChange(e) PROVE HealthInv'
  <2>1. HealthTypeOK' /\ AnnouncedExists'
    BY <1>2 DEF SilentChange, HealthInv, HealthTypeOK, AnnouncedExists
  <2>2. CurrentProbe' /\ NoVerdictFromBefore'
    BY <1>2 DEF SilentChange, HealthInv, CurrentProbe, NoVerdictFromBefore
  <2>. QED BY <2>1, <2>2 DEF HealthInv
<1>3. CASE LateAnnouncement
  BY <1>3, AnnounceStep DEF LateAnnouncement, HealthInv, HealthTypeOK
<1>4. CASE Read
  <2>1. HealthTypeOK'
    BY <1>4 DEF Read, HealthInv, HealthTypeOK
  <2>2. CurrentProbe'
    BY <1>4 DEF Read, HealthInv, HealthTypeOK, CurrentProbe
  <2>3. AnnouncedExists' /\ NoVerdictFromBefore'
    BY <1>4 DEF Read, HealthInv, AnnouncedExists, NoVerdictFromBefore
  <2>. QED BY <2>1, <2>2, <2>3 DEF HealthInv
<1>5. ASSUME NEW e \in Engine, ProbeAnswers(e) \/ ProbeGivesUp(e) PROVE HealthInv'
  BY <1>5, AnswerStep
<1>6. CASE ProbeEnds
  BY <1>6, PublishStep
<1>7. CASE SnapshotAges \/ UNCHANGED healthVars
  BY <1>7 DEF SnapshotAges, healthVars, HealthInv, HealthTypeOK, AnnouncedExists, CurrentProbe,
              NoVerdictFromBefore
<1>. QED
  BY <1>1, <1>2, <1>3, <1>4, <1>5, <1>6, <1>7 DEF HealthNext

\* Types of the module state of health.ts, for any number of changes.
THEOREM HealthTypeCorrect ==
  HealthSpec => []HealthTypeOK
<1>1. HealthInit => HealthInv
  BY HealthInitEstablishes
<1>2. HealthInv /\ [HealthNext]_healthVars => HealthInv'
  BY HealthNextKeeps
<1>3. HealthInv => HealthTypeOK
  BY DEF HealthInv
<1>. QED
  BY <1>1, <1>2, <1>3, PTL DEF HealthSpec

\* A reader never gets a verdict read before the last announced credential
\* change (health.ts:119-124), however many changes overtake however long a
\* probe.
THEOREM NeverServesAnOvertakenVerdict ==
  HealthSpec => []NoVerdictFromBefore
<1>1. HealthInit => HealthInv
  BY HealthInitEstablishes
<1>2. HealthInv /\ [HealthNext]_healthVars => HealthInv'
  BY HealthNextKeeps
<1>3. HealthInv => NoVerdictFromBefore
  BY DEF HealthInv
<1>. QED
  BY <1>1, <1>2, <1>3, PTL DEF HealthSpec
=============================================================================
