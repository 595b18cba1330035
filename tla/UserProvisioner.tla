--------------------------- MODULE UserProvisioner ---------------------------
(***************************************************************************)
(* The privileged provisioner of per-user workers: LinuxUserProvisioner    *)
(* (src/src/isolation/linux-user-provisioner.ts), the server in front of   *)
(* it and the gateway's client.                                            *)
(*                                                                         *)
(* An identity stands for its HMAC fingerprint, and so for one account     *)
(* name and one HOME.  The user and the group of an account are created    *)
(* and looked up together, so one number stands for uid and gid.  The OS   *)
(* accounts, useradd, id, systemctl and whoever else edits /etc/passwd are *)
(* external.  useradd writes the account first and its HOME afterwards; it *)
(* dies with the service (KillMode) and after 30 s.                        *)
(***************************************************************************)
EXTENDS Naturals, Sequences, FiniteSets, SequencesExt

CONSTANTS
  Identity,
  None,
  MaxUsers,   \* config.maxUsers
  MaxUid,     \* bound: accounts ever created
  MaxFaults,  \* bound: failing commands and file operations, timeouts, crashes
  MaxChanges  \* bound: accounts deleted or created by others

Uid == 1..MaxUid

\* An entry of users.json; None is an identity without one.
Record == [ready : BOOLEAN, uid : Uid \cup {None}]
Creating == [ready |-> FALSE, uid |-> None]
Ready(uid) == [ready |-> TRUE, uid |-> uid]

ASSUME ProvisionerAssumption ==
  /\ None \notin Uid
  /\ None \notin Record
  /\ {MaxUsers, MaxUid, MaxFaults, MaxChanges} \subseteq Nat

VARIABLES
  users,   \* users.json
  account, \* /etc/passwd: identity -> uid, or None
  home,    \* HOME directories that exist
  nextUid,
  op,      \* `locks`: identity -> its running ensureLocked()
  queue,   \* stateQueue: who waits for the state, first the one that has it
  loaded,  \* identity -> what its operation on the state has read, or None
  client,  \* identity -> the last request of the gateway for it
  given,   \* history: uids handed out as an identity's worker
  faults,
  changes

vars == <<users, account, home, nextUid, op, queue, loaded, client, given, faults, changes>>
osVars == <<account, home, nextUid>>
bounds == <<faults, changes>>

Idle == [phase |-> "none", record |-> None]

Init ==
  /\ users = [i \in Identity |-> None]
  /\ account = [i \in Identity |-> None]
  /\ home = {}
  /\ nextUid = 1
  /\ op = [i \in Identity |-> Idle]
  /\ queue = <<>>
  /\ loaded = [i \in Identity |-> None]
  /\ client = [i \in Identity |-> "idle"]
  /\ given = [i \in Identity |-> {}]
  /\ faults = 0
  /\ changes = 0

Reserved(state) == {i \in Identity : state[i] # None}

Becomes(i, phase, record) == op' = [op EXCEPT ![i] = [phase |-> phase, record |-> record]]

\* Mutant of InTurn: the state is not locked.
OutOfTurn(i) == i \in ToSet(queue)

\* withStateLock(): the operations on users.json, one after the other.
InTurn(i) == queue # <<>> /\ Head(queue) = i

Leaves(i) == queue' = Tail(queue) /\ loaded' = [loaded EXCEPT ![i] = None]

\* ensureLocked() ends: the lock goes, and whoever waits is answered.
Concludes(i, answer) ==
  /\ op' = [op EXCEPT ![i] = Idle]
  /\ client' = [client EXCEPT ![i] = IF @ = "waiting" THEN answer ELSE @]

-----------------------------------------------------------------------------
(* The client                                                              *)

\* A request of the gateway: ensureWorker() joins the operation in flight.
Asks(i) ==
  /\ client[i] # "waiting"
  /\ client' = [client EXCEPT ![i] = "waiting"]
  /\ IF op[i] # Idle
     THEN UNCHANGED <<op, queue>>
     ELSE Becomes(i, "reserve", None) /\ queue' = Append(queue, i)
  /\ UNCHANGED <<users, osVars, loaded, given, bounds>>

\* The client's timeout, or its connection breaks; the operation goes on.
GivesUp(i) ==
  /\ client[i] = "waiting"
  /\ faults < MaxFaults
  /\ faults' = faults + 1
  /\ client' = [client EXCEPT ![i] = "failed"]
  /\ UNCHANGED <<users, osVars, op, queue, loaded, given, changes>>

-----------------------------------------------------------------------------
(* ensureLocked()                                                          *)

\* readState() of the operation that has the state.
ReadsState(i) ==
  /\ InTurn(i)
  /\ loaded[i] = None
  /\ loaded' = [loaded EXCEPT ![i] = users]
  /\ UNCHANGED <<users, osVars, op, queue, client, given, bounds>>

\* reserveRecord() of a known identity ...
FindsRecord(i) ==
  /\ InTurn(i) /\ op[i].phase = "reserve"
  /\ loaded[i] # None /\ loaded[i][i] # None
  /\ Becomes(i, IF loaded[i][i].ready THEN "verify" ELSE "lookup", loaded[i][i])
  /\ Leaves(i)
  /\ UNCHANGED <<users, osVars, client, given, bounds>>

\* ... beyond the limit ...
RefusesIdentity(i) ==
  /\ InTurn(i) /\ op[i].phase = "reserve"
  /\ loaded[i] # None /\ loaded[i][i] = None
  /\ Cardinality(Reserved(loaded[i])) >= MaxUsers
  /\ Concludes(i, "failed")
  /\ Leaves(i)
  /\ UNCHANGED <<users, osVars, given, bounds>>

\* ... and of a new one: the whole state is rewritten, through a rename.
Reserves(i) ==
  /\ InTurn(i) /\ op[i].phase = "reserve"
  /\ loaded[i] # None /\ loaded[i][i] = None
  /\ Cardinality(Reserved(loaded[i])) < MaxUsers
  /\ users' = [loaded[i] EXCEPT ![i] = Creating]
  /\ Becomes(i, "lookup", Creating)
  /\ Leaves(i)
  /\ UNCHANGED <<osVars, client, given, bounds>>

\* Mutant of LooksUp: an account that is there is created again.
LooksUpNothing(i) ==
  /\ op[i].phase = "lookup"
  /\ Becomes(i, "add", op[i].record)
  /\ UNCHANGED <<users, osVars, queue, loaded, client, given, bounds>>

\* optionalNumericId(): an `id` that fails counts as no account.
LooksUp(i) ==
  /\ op[i].phase = "lookup"
  /\ \/ /\ Becomes(i, IF account[i] = None THEN "add" ELSE "resolve", op[i].record)
        /\ UNCHANGED faults
     \/ /\ faults < MaxFaults
        /\ faults' = faults + 1
        /\ Becomes(i, "add", op[i].record)
  /\ UNCHANGED <<users, osVars, queue, loaded, client, given, changes>>

\* useradd: the account ...
AddsAccount(i) ==
  /\ op[i].phase = "add"
  /\ account[i] = None
  /\ nextUid \in Uid
  /\ account' = [account EXCEPT ![i] = nextUid]
  /\ nextUid' = nextUid + 1
  /\ Becomes(i, "adding", op[i].record)
  /\ UNCHANGED <<users, home, queue, loaded, client, given, bounds>>

\* ... and its HOME, or an account that exists.
AddEnds(i) ==
  /\ \/ /\ op[i].phase = "adding"
        /\ home' = home \cup {i}
        /\ Becomes(i, "resolve", op[i].record)
        /\ UNCHANGED client
     \/ /\ op[i].phase = "add" /\ account[i] # None
        /\ Concludes(i, "failed")
        /\ UNCHANGED home
  /\ UNCHANGED <<users, account, nextUid, queue, loaded, given, bounds>>

\* numericId() and secureHome() of a pending record.
Secures(i) ==
  /\ op[i].phase = "resolve"
  /\ IF account[i] # None /\ i \in home
     THEN /\ Becomes(i, "persist", Ready(account[i]))
          /\ queue' = Append(queue, i)
          /\ UNCHANGED client
     ELSE Concludes(i, "failed") /\ UNCHANGED queue
  /\ UNCHANGED <<users, osVars, loaded, given, bounds>>

\* persistReadyRecord(): the reservation must still be there.
PersistsReady(i) ==
  /\ InTurn(i) /\ op[i].phase = "persist"
  /\ loaded[i] # None
  /\ IF loaded[i][i] # None
     THEN /\ users' = [loaded[i] EXCEPT ![i] = op[i].record]
          /\ Becomes(i, "start", op[i].record)
          /\ UNCHANGED client
     ELSE Concludes(i, "failed") /\ UNCHANGED users
  /\ Leaves(i)
  /\ UNCHANGED <<osVars, given, bounds>>

\* Mutant of Verifies: a record that is ready is believed.
VerifiesNothing(i) ==
  /\ op[i].phase = "verify"
  /\ IF account[i] # None /\ i \in home
     THEN Becomes(i, "start", Ready(account[i])) /\ UNCHANGED client
     ELSE Concludes(i, "failed")
  /\ UNCHANGED <<users, osVars, queue, loaded, given, bounds>>

\* A ready record: its account must still be the one that was recorded.
Verifies(i) ==
  /\ op[i].phase = "verify"
  /\ IF account[i] = op[i].record.uid /\ i \in home
     THEN Becomes(i, "start", op[i].record) /\ UNCHANGED client
     ELSE Concludes(i, "failed")
  /\ UNCHANGED <<users, osVars, queue, loaded, given, bounds>>

\* systemctl start of the worker's socket, and the answer.
Starts(i) ==
  /\ op[i].phase = "start"
  /\ given' = [given EXCEPT ![i] = @ \cup {op[i].record.uid}]
  /\ Concludes(i, "ok")
  /\ UNCHANGED <<users, osVars, queue, loaded, bounds>>

\* A command or a file operation fails, or is killed after its time.
Fails(i) ==
  /\ op[i] # Idle
  /\ i \in ToSet(queue) => InTurn(i)
  /\ faults < MaxFaults
  /\ faults' = faults + 1
  /\ Concludes(i, "failed")
  /\ IF i \in ToSet(queue) THEN Leaves(i) ELSE UNCHANGED <<queue, loaded>>
  /\ UNCHANGED <<users, osVars, given, changes>>

-----------------------------------------------------------------------------
(* The world                                                               *)

\* The service dies and is started again by its socket.
Crashes ==
  /\ faults < MaxFaults
  /\ faults' = faults + 1
  /\ op' = [i \in Identity |-> Idle]
  /\ queue' = <<>>
  /\ loaded' = [i \in Identity |-> None]
  /\ client' = [i \in Identity |-> IF client[i] = "waiting" THEN "failed" ELSE client[i]]
  /\ UNCHANGED <<users, osVars, given, changes>>

\* An account disappears, or is created with another uid.
OthersEdit(i) ==
  /\ changes < MaxChanges
  /\ changes' = changes + 1
  /\ \/ /\ account[i] # None
        /\ account' = [account EXCEPT ![i] = None]
        /\ UNCHANGED nextUid
     \/ /\ nextUid \in Uid
        /\ account[i] # None \/ users[i] # None
        /\ account' = [account EXCEPT ![i] = nextUid]
        /\ nextUid' = nextUid + 1
  /\ UNCHANGED <<users, home, op, queue, loaded, client, given, faults>>

EnsureStep(i) ==
  \/ ReadsState(i) \/ FindsRecord(i) \/ RefusesIdentity(i) \/ Reserves(i)
  \/ LooksUp(i) \/ AddsAccount(i) \/ AddEnds(i) \/ Secures(i)
  \/ PersistsReady(i) \/ Verifies(i) \/ Starts(i)

Next ==
  \/ \E i \in Identity :
       Asks(i) \/ GivesUp(i) \/ EnsureStep(i) \/ Fails(i) \/ OthersEdit(i)
  \/ Crashes

Spec == Init /\ [][Next]_vars

\* Commands and file operations end (30 s); users keep sending requests.
FairSpec ==
  Spec /\ \A i \in Identity : WF_vars(EnsureStep(i)) /\ WF_vars(Asks(i))

-----------------------------------------------------------------------------
TypeOK ==
  /\ users \in [Identity -> {None} \cup Record]
  /\ account \in [Identity -> Uid \cup {None}]
  /\ home \subseteq Identity
  /\ nextUid \in 1..MaxUid + 1
  /\ op \in [Identity ->
              [phase : {"none", "reserve", "lookup", "add", "adding", "resolve",
                        "persist", "verify", "start"},
               record : {None} \cup Record]]
  /\ queue \in Seq(Identity)
  /\ loaded \in [Identity -> {None} \cup [Identity -> {None} \cup Record]]
  /\ client \in [Identity -> {"idle", "waiting", "ok", "failed"}]
  /\ given \in [Identity -> SUBSET Uid]
  /\ faults \in 0..MaxFaults
  /\ changes \in 0..MaxChanges

\* No account without an entry in users.json, whatever fails and wherever the
\* service dies: a later run would count and manage it as nobody's
\* (reserveRecord() writes before useradd runs, and no write loses another's).
\* The type invariant comes first.
AccountsAreRecorded ==
  /\ TypeOK
  /\ \A i \in Identity : account[i] # None => users[i] # None

\* An identity never gets the worker of another account than the first it got,
\* nor one whose account is not on record, also if the account was replaced
\* meanwhile or the service died (linux-user-provisioner.ts:171-177).
OneAccountForGood ==
  \A i \in Identity :
    \A uid \in given[i] : users[i] # None /\ users[i] = Ready(uid)

\* Whom the service could serve.  Out of reach: identities beyond the limit,
\* a ready account that others changed, and one that useradd left without its
\* HOME, which nothing creates later.
Serviceable(i) ==
  /\ users[i] # None \/ Cardinality(Reserved(users)) < MaxUsers
  /\ users[i] # None /\ users[i].ready => account[i] = users[i].uid
  /\ account[i] # None /\ op[i].phase # "adding" => i \in home
  /\ account[i] = None => nextUid \in Uid

\* Who keeps asking is served again and again, whichever step of an earlier
\* attempt failed or was cut short (linux-user-provisioner.ts:127-139).
RetriesSucceed ==
  \A i \in Identity : []<>(client[i] = "ok" \/ ~Serviceable(i))
=============================================================================
