------------------------ MODULE UserProvisioner_proofs ------------------------
(***************************************************************************)
(* The safety properties of UserProvisioner for every set of identities,   *)
(* limit of users and number of faults.                                    *)
(***************************************************************************)
EXTENDS UserProvisioner, SequenceTheorems, TLAPS

(***************************************************************************)
(* The inductive invariant.                                                *)
(***************************************************************************)
\* What an operation on the state has read is the state: nobody else writes
\* before its turn ends.
TurnInv ==
  \A i \in Identity : loaded[i] # None => InTurn(i) /\ loaded[i] = users

\* An entry is a reservation or names the account it was completed with.
EntriesInv ==
  \A i \in Identity :
    users[i] # None => users[i] = Creating \/ \E uid \in Uid : users[i] = Ready(uid)

\* What an operation believes of its entry: nothing before it has looked, a
\* reservation while it makes the account, and the entry itself from then on.
BeliefInv ==
  \A i \in Identity :
    /\ op[i].phase \in {"lookup", "add", "adding", "resolve", "persist"} =>
         users[i] = Creating
    /\ op[i].phase = "persist" => \E uid \in Uid : op[i].record = Ready(uid)
    /\ op[i].phase \in {"verify", "start"} =>
         /\ op[i].record = users[i]
         /\ \E uid \in Uid : users[i] = Ready(uid)

IInv ==
  /\ AccountsAreRecorded /\ TurnInv /\ EntriesInv /\ BeliefInv
  /\ OneAccountForGood

Recorded == \A i \in Identity : account[i] # None => users[i] # None

LEMMA Absent ==
  /\ None \notin Uid /\ None \notin Record
  /\ Creating \in Record /\ \A uid \in Uid : Ready(uid) \in Record
  /\ \A uid \in Uid : Ready(uid) # Creating
BY ProvisionerAssumption DEF Creating, Ready, Record

-----------------------------------------------------------------------------
(***************************************************************************)
(* The queue: joining it, or leaving it in turn.                           *)
(***************************************************************************)
LEMMA TurnUndisturbed ==
  ASSUME TurnInv, queue \in Seq(Identity), NEW i \in Identity,
         queue' = queue \/ queue' = Append(queue, i),
         UNCHANGED <<loaded, users>>
  PROVE  TurnInv' /\ queue' \in Seq(Identity)
BY DEF TurnInv, InTurn

LEMMA TurnEnds ==
  ASSUME TurnInv, TypeOK, NEW i \in Identity, InTurn(i), Leaves(i)
  PROVE  /\ TurnInv' /\ queue' \in Seq(Identity)
         /\ loaded' = [j \in Identity |-> None]
<1>1. queue \in Seq(Identity) /\ queue # <<>>
  BY DEF TypeOK, InTurn
<1>2. \A j \in Identity : loaded[j] # None => j = i
  BY DEF TurnInv, InTurn
<1>3. loaded' = [j \in Identity |-> None]
  BY <1>2 DEF Leaves, TypeOK
<1>4. queue' \in Seq(Identity)
  BY <1>1, HeadTailProperties DEF Leaves
<1>. QED
  BY <1>3, <1>4 DEF TurnInv

-----------------------------------------------------------------------------
(***************************************************************************)
(* Steps that leave users.json and the accounts alone.                     *)
(***************************************************************************)
LEMMA InitEstablishes == Init => IInv
<1> SUFFICES ASSUME Init PROVE IInv
  OBVIOUS
<1>1. TypeOK
  BY ProvisionerAssumption DEF Init, TypeOK, Idle, Uid
<1>2. TurnInv /\ EntriesInv /\ BeliefInv /\ OneAccountForGood /\ Recorded
  BY DEF Init, TurnInv, EntriesInv, BeliefInv, OneAccountForGood, Recorded, Idle
<1>. QED
  BY <1>1, <1>2 DEF IInv, AccountsAreRecorded, Recorded

LEMMA Undisturbed ==
  ASSUME IInv, TypeOK', TurnInv', BeliefInv', UNCHANGED <<users, account, given>>
  PROVE  IInv'
BY DEF IInv, AccountsAreRecorded, EntriesInv, OneAccountForGood

\* An operation that ends, or that goes on with a belief of its own.
LEMMA BeliefConcludes ==
  ASSUME TypeOK, BeliefInv, UNCHANGED users, NEW i \in Identity, NEW answer,
         Concludes(i, answer)
  PROVE  BeliefInv'
BY DEF TypeOK, BeliefInv, Concludes, Idle

LEMMA BeliefBecomes ==
  ASSUME TypeOK, BeliefInv, UNCHANGED users, NEW i \in Identity, NEW phase, NEW record,
         Becomes(i, phase, record),
         phase \in {"lookup", "add", "adding", "resolve", "persist"} => users[i] = Creating,
         phase = "persist" => \E uid \in Uid : record = Ready(uid),
         phase \in {"verify", "start"} =>
           record = users[i] /\ \E uid \in Uid : users[i] = Ready(uid)
  PROVE  BeliefInv'
BY DEF TypeOK, BeliefInv, Becomes

LEMMA TypesConclude ==
  ASSUME TypeOK, NEW i \in Identity, NEW answer \in {"ok", "failed"}, Concludes(i, answer)
  PROVE  /\ op' \in [Identity ->
                      [phase : {"none", "reserve", "lookup", "add", "adding", "resolve",
                                "persist", "verify", "start"},
                       record : {None} \cup Record]]
         /\ client' \in [Identity -> {"idle", "waiting", "ok", "failed"}]
BY DEF TypeOK, Concludes, Idle

LEMMA TypesBecome ==
  ASSUME TypeOK, NEW i \in Identity, NEW record \in {None} \cup Record,
         NEW phase \in {"none", "reserve", "lookup", "add", "adding", "resolve",
                        "persist", "verify", "start"},
         Becomes(i, phase, record)
  PROVE  op' \in [Identity ->
                   [phase : {"none", "reserve", "lookup", "add", "adding", "resolve",
                             "persist", "verify", "start"},
                    record : {None} \cup Record]]
BY DEF TypeOK, Becomes

LEMMA AsksStep ==
  ASSUME IInv, NEW i \in Identity, Asks(i)
  PROVE  IInv'
<1>1. TypeOK /\ TurnInv /\ BeliefInv /\ queue \in Seq(Identity)
  BY DEF IInv, AccountsAreRecorded, TypeOK
<1>2. UNCHANGED <<users, account, home, nextUid, loaded, given, faults, changes>>
  BY DEF Asks, osVars, bounds
<1>3. TurnInv' /\ queue' \in Seq(Identity)
  BY <1>1, <1>2, TurnUndisturbed DEF Asks
<1>4. BeliefInv'
  <2>1. CASE op' = op
    BY <1>1, <1>2, <2>1 DEF BeliefInv
  <2>2. CASE Becomes(i, "reserve", None)
    BY <1>1, <1>2, <2>2, BeliefBecomes
  <2>. QED BY <2>1, <2>2 DEF Asks
<1>5. TypeOK'
  <2>1. client' \in [Identity -> {"idle", "waiting", "ok", "failed"}]
    BY <1>1 DEF Asks, TypeOK
  <2>2. op' = op \/ Becomes(i, "reserve", None)
    BY DEF Asks
  <2>. QED BY <1>1, <1>2, <1>3, <2>1, <2>2, TypesBecome DEF TypeOK
<1>. QED
  BY <1>2, <1>3, <1>4, <1>5, Undisturbed

LEMMA GivesUpStep ==
  ASSUME IInv, NEW i \in Identity, GivesUp(i)
  PROVE  IInv'
<1>1. TypeOK /\ TurnInv /\ BeliefInv /\ queue \in Seq(Identity)
  BY DEF IInv, AccountsAreRecorded, TypeOK
<1>2. UNCHANGED <<users, account, home, nextUid, op, queue, loaded, given, changes>>
  BY DEF GivesUp, osVars
<1>3. TurnInv'
  BY <1>1, <1>2, TurnUndisturbed
<1>4. BeliefInv'
  BY <1>1, <1>2 DEF BeliefInv
<1>5. TypeOK'
  BY <1>1, <1>2, ProvisionerAssumption DEF GivesUp, TypeOK
<1>. QED
  BY <1>2, <1>3, <1>4, <1>5, Undisturbed

LEMMA ReadsStateStep ==
  ASSUME IInv, NEW i \in Identity, ReadsState(i)
  PROVE  IInv'
<1>1. TypeOK /\ TurnInv /\ BeliefInv
  BY DEF IInv, AccountsAreRecorded
<1>2. UNCHANGED <<users, account, home, nextUid, op, queue, client, given, faults, changes>>
  BY DEF ReadsState, osVars, bounds
<1>3. TurnInv'
  BY <1>1, <1>2 DEF ReadsState, TurnInv, InTurn, TypeOK
<1>4. BeliefInv'
  BY <1>1, <1>2 DEF BeliefInv
<1>5. TypeOK'
  BY <1>1, <1>2 DEF ReadsState, TypeOK
<1>. QED
  BY <1>2, <1>3, <1>4, <1>5, Undisturbed

\* The entry it has read is still the entry.
LEMMA FindsRecordStep ==
  ASSUME IInv, NEW i \in Identity, FindsRecord(i)
  PROVE  IInv'
<1>1. TypeOK /\ TurnInv /\ BeliefInv /\ EntriesInv
  BY DEF IInv, AccountsAreRecorded
<1>2. UNCHANGED <<users, account, home, nextUid, client, given, faults, changes>>
  BY DEF FindsRecord, osVars, bounds
<1>3. TurnInv' /\ queue' \in Seq(Identity) /\ loaded' = [j \in Identity |-> None]
  BY <1>1, TurnEnds DEF FindsRecord
<1>4. loaded[i] = users /\ users[i] # None /\ users[i] \in Record
  BY <1>1 DEF FindsRecord, TurnInv, TypeOK
<1>5. CASE users[i] = Creating
  <2>1. Becomes(i, "lookup", users[i])
    BY <1>4, <1>5 DEF FindsRecord, Creating
  <2>2. BeliefInv'
    BY <1>1, <1>2, <1>5, <2>1, BeliefBecomes
  <2>3. TypeOK'
    BY <1>1, <1>2, <1>3, <1>4, <2>1, TypesBecome DEF TypeOK
  <2>. QED BY <1>2, <1>3, <2>2, <2>3, Undisturbed
<1>6. CASE \E uid \in Uid : users[i] = Ready(uid)
  <2>1. Becomes(i, "verify", users[i])
    BY <1>4, <1>6 DEF FindsRecord, Ready
  <2>2. BeliefInv'
    BY <1>1, <1>2, <1>6, <2>1, BeliefBecomes
  <2>3. TypeOK'
    BY <1>1, <1>2, <1>3, <1>4, <2>1, TypesBecome DEF TypeOK
  <2>. QED BY <1>2, <1>3, <2>2, <2>3, Undisturbed
<1>. QED
  BY <1>1, <1>4, <1>5, <1>6 DEF EntriesInv

LEMMA EndsInTurnStep ==
  ASSUME IInv, NEW i \in Identity, RefusesIdentity(i) \/ Fails(i)
  PROVE  IInv'
<1>1. TypeOK /\ TurnInv /\ BeliefInv /\ queue \in Seq(Identity)
  BY DEF IInv, AccountsAreRecorded, TypeOK
<1>2. UNCHANGED <<users, account, home, nextUid, given, changes>> /\ Concludes(i, "failed")
  BY DEF RefusesIdentity, Fails, osVars, bounds
<1>3. /\ TurnInv' /\ queue' \in Seq(Identity)
      /\ loaded' = loaded \/ loaded' = [j \in Identity |-> None]
  <2>1. CASE InTurn(i) /\ Leaves(i)
    BY <1>1, <2>1, TurnEnds
  <2>2. CASE UNCHANGED <<queue, loaded>>
    BY <1>1, <1>2, <2>2, TurnUndisturbed
  <2>. QED BY <2>1, <2>2 DEF RefusesIdentity, Fails
<1>4. BeliefInv'
  BY <1>1, <1>2, BeliefConcludes
<1>5. TypeOK'
  <2>1. faults' \in 0..MaxFaults
    BY <1>1, ProvisionerAssumption DEF RefusesIdentity, Fails, bounds, TypeOK
  <2>2. loaded' \in [Identity -> {None} \cup [Identity -> {None} \cup Record]]
    BY <1>1, <1>3 DEF TypeOK
  <2>. QED BY <1>1, <1>2, <1>3, <2>1, <2>2, TypesConclude DEF TypeOK
<1>. QED
  BY <1>2, <1>3, <1>4, <1>5, Undisturbed

\* The steps of an operation between its turns at the state.
LEMMA OwnStep ==
  ASSUME IInv, NEW i \in Identity, LooksUp(i) \/ AddEnds(i) \/ Secures(i) \/ Verifies(i)
  PROVE  IInv'
<1>1. /\ TypeOK /\ TurnInv /\ BeliefInv
      /\ queue \in Seq(Identity) /\ op[i].record \in {None} \cup Record
  BY DEF IInv, AccountsAreRecorded, TypeOK
<1>2. /\ UNCHANGED <<users, account, nextUid, loaded, given, changes>>
      /\ home' \in {home, home \cup {i}}
      /\ queue' = queue \/ queue' = Append(queue, i)
  BY DEF LooksUp, AddEnds, Secures, Verifies, osVars, bounds
<1>3. TurnInv' /\ queue' \in Seq(Identity)
  BY <1>1, <1>2, TurnUndisturbed
<1>4. home' \subseteq Identity /\ faults' \in 0..MaxFaults
  <2>1. home \subseteq Identity /\ faults \in 0..MaxFaults
    BY <1>1 DEF TypeOK
  <2>. QED
    BY <1>2, <2>1, ProvisionerAssumption DEF LooksUp, AddEnds, Secures, Verifies, bounds
<1>5. CASE Concludes(i, "failed")
  <2>1. BeliefInv'
    BY <1>1, <1>2, <1>5, BeliefConcludes
  <2>2. TypeOK'
    BY <1>1, <1>2, <1>3, <1>4, <1>5, TypesConclude DEF TypeOK
  <2>. QED BY <1>2, <1>3, <2>1, <2>2, Undisturbed
<1>6. CASE /\ op[i].phase \in {"lookup", "add", "adding", "resolve"}
           /\ \/ \E phase \in {"add", "resolve"} : Becomes(i, phase, op[i].record)
              \/ \E uid \in Uid : Becomes(i, "persist", Ready(uid))
           /\ client' = client
  <2>1. users[i] = Creating
    BY <1>1, <1>6 DEF BeliefInv
  <2>2. BeliefInv'
    BY <1>1, <1>2, <1>6, <2>1, BeliefBecomes
  <2>3. TypeOK'
    BY <1>1, <1>2, <1>3, <1>4, <1>6, Absent, TypesBecome DEF TypeOK
  <2>. QED BY <1>2, <1>3, <2>2, <2>3, Undisturbed
<1>7. CASE op[i].phase = "verify" /\ Becomes(i, "start", op[i].record) /\ client' = client
  <2>1. op[i].record = users[i] /\ \E uid \in Uid : users[i] = Ready(uid)
    BY <1>1, <1>7 DEF BeliefInv
  <2>2. BeliefInv'
    BY <1>1, <1>2, <1>7, <2>1, BeliefBecomes
  <2>3. TypeOK'
    BY <1>1, <1>2, <1>3, <1>4, <1>7, TypesBecome DEF TypeOK
  <2>. QED BY <1>2, <1>3, <2>2, <2>3, Undisturbed
<1>8. account[i] # None => account[i] \in Uid
  BY <1>1 DEF TypeOK
<1>9. CASE LooksUp(i)
  BY <1>6, <1>9 DEF LooksUp
<1>10. CASE AddEnds(i)
  BY <1>5, <1>6, <1>10 DEF AddEnds
<1>11. CASE Secures(i)
  BY <1>5, <1>6, <1>8, <1>11 DEF Secures
<1>12. CASE Verifies(i)
  BY <1>5, <1>7, <1>12 DEF Verifies
<1>. QED
  BY <1>9, <1>10, <1>11, <1>12

-----------------------------------------------------------------------------
(***************************************************************************)
(* Steps that write users.json, make accounts or hand them out.            *)
(***************************************************************************)
\* The state is read and written within one turn, so that a write changes the
\* entry of its operation and no other.
LEMMA WritesStep ==
  ASSUME IInv, NEW i \in Identity, Reserves(i) \/ PersistsReady(i)
  PROVE  IInv'
<1>1. TypeOK /\ TurnInv /\ BeliefInv /\ EntriesInv /\ Recorded /\ OneAccountForGood
  BY DEF IInv, AccountsAreRecorded, Recorded
<1>2. UNCHANGED <<account, home, nextUid, given, faults, changes>>
  BY DEF Reserves, PersistsReady, osVars, bounds
<1>3. TurnInv' /\ queue' \in Seq(Identity) /\ loaded' = [j \in Identity |-> None]
  BY <1>1, TurnEnds DEF Reserves, PersistsReady
<1>4. loaded[i] = users /\ users \in [Identity -> {None} \cup Record]
  BY <1>1 DEF Reserves, PersistsReady, TurnInv, TypeOK
<1>5. CASE PersistsReady(i) /\ loaded[i][i] = None
  <2>1. UNCHANGED users /\ Concludes(i, "failed")
    BY <1>5 DEF PersistsReady
  <2>2. BeliefInv'
    BY <1>1, <2>1, BeliefConcludes
  <2>3. TypeOK'
    BY <1>1, <1>2, <1>3, <2>1, TypesConclude DEF TypeOK
  <2>. QED BY <1>2, <1>3, <2>1, <2>2, <2>3, Undisturbed
<1>6. CASE Reserves(i) \/ (PersistsReady(i) /\ loaded[i][i] # None)
  <2>1. PICK entry, phase :
          /\ users' = [users EXCEPT ![i] = entry]
          /\ Becomes(i, phase, entry)
          /\ entry = Creating \/ \E uid \in Uid : entry = Ready(uid)
          /\ \/ phase = "lookup" /\ entry = Creating /\ users[i] = None
             \/ phase = "start" /\ users[i] = Creating /\ \E uid \in Uid : entry = Ready(uid)
    <3>1. CASE Reserves(i)
      BY <1>4, <3>1 DEF Reserves
    <3>2. CASE PersistsReady(i) /\ loaded[i][i] # None
      BY <1>1, <1>4, <3>2 DEF PersistsReady, BeliefInv
    <3>. QED BY <1>6, <3>1, <3>2
  <2>2. entry \in Record /\ phase \in {"lookup", "start"} /\ entry # None
    BY <2>1, Absent
  <2>3. /\ users'[i] = entry /\ users' \in [Identity -> {None} \cup Record]
        /\ \A j \in Identity \ {i} : users'[j] = users[j]
    BY <1>4, <2>1, <2>2
  <2>4. client' = client
    BY <1>6 DEF Reserves, PersistsReady
  <2>5. TypeOK'
    BY <1>1, <1>2, <1>3, <2>1, <2>2, <2>3, <2>4, TypesBecome DEF TypeOK
  <2>6. Recorded' /\ EntriesInv'
    BY <1>1, <1>2, <2>1, <2>2, <2>3 DEF Recorded, EntriesInv
  <2>7. BeliefInv'
    <3>1. /\ op'[i] = [phase |-> phase, record |-> entry]
          /\ \A j \in Identity \ {i} : op'[j] = op[j]
      BY <1>1, <2>1 DEF Becomes, TypeOK
    <3>. QED BY <1>1, <2>1, <2>2, <2>3, <3>1 DEF BeliefInv
  <2>8. OneAccountForGood'
    <3>1. given[i] = {}
      BY <1>1, <2>1, Absent DEF OneAccountForGood, TypeOK
    <3>. QED BY <1>1, <1>2, <2>3, <3>1 DEF OneAccountForGood
  <2>. QED BY <1>3, <2>5, <2>6, <2>7, <2>8 DEF IInv, AccountsAreRecorded, Recorded
<1>. QED
  BY <1>5, <1>6

\* useradd runs only for a reservation.
LEMMA AddsAccountStep ==
  ASSUME IInv, NEW i \in Identity, AddsAccount(i)
  PROVE  IInv'
<1>1. TypeOK /\ TurnInv /\ BeliefInv /\ EntriesInv /\ Recorded /\ OneAccountForGood
  BY DEF IInv, AccountsAreRecorded, Recorded
<1>2. UNCHANGED <<users, home, queue, loaded, client, given, faults, changes>>
  BY DEF AddsAccount, bounds
<1>3. users[i] = Creating /\ op[i].record \in {None} \cup Record
  BY <1>1 DEF AddsAccount, BeliefInv, TypeOK
<1>4. Becomes(i, "adding", op[i].record)
  BY DEF AddsAccount
<1>5. BeliefInv'
  BY <1>1, <1>2, <1>3, <1>4, BeliefBecomes
<1>6. TypeOK'
  <2>1. nextUid' \in 1..MaxUid + 1 /\ account' \in [Identity -> Uid \cup {None}]
    BY <1>1, ProvisionerAssumption DEF AddsAccount, TypeOK, Uid
  <2>. QED BY <1>1, <1>2, <1>3, <1>4, <2>1, TypesBecome DEF TypeOK
<1>7. Recorded'
  BY <1>1, <1>2, <1>3, Absent DEF Recorded, AddsAccount, TypeOK
<1>8. TurnInv' /\ EntriesInv' /\ OneAccountForGood'
  BY <1>1, <1>2 DEF TurnInv, InTurn, EntriesInv, OneAccountForGood
<1>. QED
  BY <1>5, <1>6, <1>7, <1>8 DEF IInv, AccountsAreRecorded, Recorded

\* What is handed out is what the entry says, and that is final.
LEMMA StartsStep ==
  ASSUME IInv, NEW i \in Identity, Starts(i)
  PROVE  IInv'
<1>1. TypeOK /\ TurnInv /\ BeliefInv /\ EntriesInv /\ Recorded /\ OneAccountForGood
  BY DEF IInv, AccountsAreRecorded, Recorded
<1>2. UNCHANGED <<users, account, home, nextUid, queue, loaded, faults, changes>>
  BY DEF Starts, osVars, bounds
<1>3. PICK uid \in Uid : users[i] = Ready(uid) /\ op[i].record = Ready(uid)
  BY <1>1 DEF Starts, BeliefInv
<1>4. given' = [given EXCEPT ![i] = @ \cup {uid}] /\ Concludes(i, "ok")
  BY <1>3 DEF Starts, Ready
<1>5. BeliefInv'
  BY <1>1, <1>2, <1>4, BeliefConcludes
<1>6. TypeOK'
  <2>1. given' \in [Identity -> SUBSET Uid]
    BY <1>1, <1>4 DEF TypeOK
  <2>. QED BY <1>1, <1>2, <1>4, <2>1, TypesConclude DEF TypeOK
<1>7. OneAccountForGood'
  BY <1>1, <1>2, <1>3, <1>4, Absent DEF OneAccountForGood, TypeOK
<1>8. TurnInv' /\ EntriesInv' /\ Recorded'
  BY <1>1, <1>2 DEF TurnInv, InTurn, EntriesInv, Recorded
<1>. QED
  BY <1>5, <1>6, <1>7, <1>8 DEF IInv, AccountsAreRecorded, Recorded

LEMMA CrashesStep ==
  ASSUME IInv, Crashes
  PROVE  IInv'
<1>1. TypeOK
  BY DEF IInv, AccountsAreRecorded
<1>2. UNCHANGED <<users, account, home, nextUid, given, changes>>
  BY DEF Crashes, osVars
<1>3. TypeOK'
  BY <1>1, <1>2, ProvisionerAssumption DEF Crashes, TypeOK, Idle
<1>4. TurnInv' /\ BeliefInv'
  BY DEF Crashes, TurnInv, BeliefInv, Idle
<1>. QED
  BY <1>2, <1>3, <1>4, Undisturbed

LEMMA OthersEditStep ==
  ASSUME IInv, NEW i \in Identity, OthersEdit(i)
  PROVE  IInv'
<1>1. TypeOK /\ TurnInv /\ BeliefInv /\ EntriesInv /\ Recorded /\ OneAccountForGood
  BY DEF IInv, AccountsAreRecorded, Recorded
<1>2. UNCHANGED <<users, home, op, queue, loaded, client, given, faults>>
  BY DEF OthersEdit
<1>3. TypeOK'
  <2>1. nextUid' \in 1..MaxUid + 1 /\ account' \in [Identity -> Uid \cup {None}]
    BY <1>1, ProvisionerAssumption DEF OthersEdit, TypeOK, Uid
  <2>2. changes' \in 0..MaxChanges
    BY <1>1, ProvisionerAssumption DEF OthersEdit, TypeOK
  <2>. QED BY <1>1, <1>2, <2>1, <2>2 DEF TypeOK
<1>4. Recorded'
  BY <1>1, <1>2 DEF OthersEdit, Recorded, TypeOK
<1>5. TurnInv' /\ BeliefInv' /\ EntriesInv' /\ OneAccountForGood'
  BY <1>1, <1>2 DEF TurnInv, InTurn, BeliefInv, EntriesInv, OneAccountForGood
<1>. QED
  BY <1>3, <1>4, <1>5 DEF IInv, AccountsAreRecorded, Recorded

LEMMA StepPreserves == IInv /\ [Next]_vars => IInv'
<1> SUFFICES ASSUME IInv, [Next]_vars PROVE IInv'
  OBVIOUS
<1>1. ASSUME NEW i \in Identity, Asks(i) \/ GivesUp(i) \/ OthersEdit(i) PROVE IInv'
  BY <1>1, AsksStep, GivesUpStep, OthersEditStep
<1>2. ASSUME NEW i \in Identity, EnsureStep(i) \/ Fails(i) PROVE IInv'
  BY <1>2, ReadsStateStep, FindsRecordStep, EndsInTurnStep, WritesStep, OwnStep,
     AddsAccountStep, StartsStep DEF EnsureStep
<1>3. CASE Crashes
  BY <1>3, CrashesStep
<1>4. CASE UNCHANGED vars
  <2>1. TypeOK' /\ TurnInv' /\ BeliefInv'
    BY <1>4 DEF vars, IInv, AccountsAreRecorded, TypeOK, TurnInv, InTurn, BeliefInv
  <2>. QED BY <1>4, <2>1, Undisturbed DEF vars
<1>. QED
  BY <1>1, <1>2, <1>3, <1>4 DEF Next

\* No account without its entry in users.json, whatever fails and wherever the
\* service dies (reserveRecord() before useradd, one turn at a time).
THEOREM AccountsRecorded == Spec => []AccountsAreRecorded
<1>1. IInv => AccountsAreRecorded
  BY DEF IInv
<1>. QED
  BY <1>1, InitEstablishes, StepPreserves, PTL DEF Spec

\* An identity gets the worker of one account for good, and that account is
\* the one on record (persistReadyRecord(), and the check of a ready record).
THEOREM OneAccountEver == Spec => []OneAccountForGood
<1>1. IInv => OneAccountForGood
  BY DEF IInv
<1>. QED
  BY <1>1, InitEstablishes, StepPreserves, PTL DEF Spec

=============================================================================
