---------------------------- MODULE ConfigInstall ----------------------------
(***************************************************************************)
(* One `config` item on disk: installConfig() and removeConfig()           *)
(* (src/src/provision/config-installer.ts) and their journal in the        *)
(* lockfile (runSync() and the reconcile functions of                      *)
(* src/src/provision/sync.ts), with the semantics of Linux.                *)
(*                                                                         *)
(* The installer runs without an await, but the directory is shared with   *)
(* the CLI and its user, who may act between any two of its system calls.  *)
(* Inspecting a journal and acting on it is one step.                      *)
(*                                                                         *)
(* A file is an inode with its bytes; the random name of a candidate is    *)
(* the number of the inode created under it, and config.json is name 0.    *)
(* A version of the item stands for its archive, its digest and its bytes, *)
(* the credentials.  Modes, sibling files and the files of other names     *)
(* that older versions recorded are left out; the item stays approved.     *)
(***************************************************************************)
EXTENDS Naturals, FiniteSets

CONSTANTS
  Version,    \* of the item in the manifest
  None,
  MaxInode,   \* bound: files ever created
  MaxDir,     \* bound: directories that ever had the item's name
  MaxActs,    \* bound: acts of users in the directory
  MaxChanges, \* bound: new manifests
  MaxGrants,  \* bound: approvals with {"adopt": true}
  MaxFaults   \* bound: crashes and failing saves

Inode == 1..MaxInode
Name == 0..MaxInode
Config == 0
Bytes == Version \cup {"user", "empty"}

\* A lockfile record.  `hash` is the snapshot it owns, `next` the one of an
\* upgrade journal, `dir` and `inode` the identities a journal names.
Record ==
  [status : {"stable", "uncommitted", "pending"}, hash : Version,
   next : Version \cup {None}, dir : 0..MaxDir, inode : Name]
Stable(v) == [status |-> "stable", hash |-> v, next |-> None, dir |-> 0, inode |-> 0]
FirstJournal(v, d, k) ==
  [status |-> "uncommitted", hash |-> v, next |-> None, dir |-> d, inode |-> k]
UpgradeJournal(v, w, d, k) ==
  [status |-> "pending", hash |-> v, next |-> w, dir |-> d, inode |-> k]

ASSUME ConfigAssumption ==
  /\ None \notin Version \cup Record
  /\ Version \cap {"user", "empty"} = {}
  /\ MaxInode \in Nat \ {0}
  /\ MaxDir \in Nat \ {0}
  /\ {MaxActs, MaxChanges, MaxGrants, MaxFaults} \subseteq Nat

VARIABLES
  dir,    \* the directory at the item's path, 0 without one
  file,   \* directory -> name -> inode, 0 without a file
  bytes,  \* inode -> its content
  inodes, \* inodes in use
  lock,   \* the item's record in the lockfile, or None
  grant,  \* the item is in `adopted` on disk
  want,   \* version in the manifest, or None
  pc,     \* the run of the sync: "idle", or its next step
  mem,    \* `state.installed[key]` of the run
  goal,   \* version the run installs, or None
  adopt,  \* the run consumed an adoption
  opened, \* targetFd
  cand,   \* candidateFd's inode
  bounds

vars == <<dir, file, bytes, inodes, lock, grant, want, pc, mem, goal, adopt, opened, cand, bounds>>
disk == <<dir, file, bytes, inodes>>
run == <<goal, adopt, opened, cand>>

Spend(kind, limit) ==
  /\ bounds[kind] < limit
  /\ bounds' = [bounds EXCEPT ![kind] = @ + 1]

NoFiles == [n \in Name |-> 0]
UserConfig == [NoFiles EXCEPT ![Config] = 1]

Init ==
  /\ \/ dir = 0 /\ file = [d \in 1..MaxDir |-> NoFiles] /\ inodes = 0
     \/ /\ dir = 1
        /\ file = [d \in 1..MaxDir |-> IF d = 1 THEN UserConfig ELSE NoFiles]
        /\ inodes = 1
  /\ bytes = [k \in Inode |-> "user"]
  /\ lock = None
  /\ grant = FALSE
  /\ want = None
  /\ pc = "idle"
  /\ mem = None
  /\ goal = None
  /\ adopt = FALSE
  /\ opened = 0
  /\ cand = 0
  /\ bounds = [acts |-> 0, changes |-> 0, grants |-> 0, faults |-> 0]

-----------------------------------------------------------------------------
(* Journals                                                                *)

At(name) == IF dir = 0 THEN 0 ELSE file[dir][name]
Holds(v) == At(Config) # 0 /\ bytes[At(Config)] = v

\* publishedConfigCandidateIntact(): identity and content.
Published(record, v) == dir = record.dir /\ At(Config) = record.inode /\ Holds(v)

\* discardConfigCandidate(): only the recorded inode in the recorded directory.
Discardable(record) == dir = record.dir /\ At(record.inode) = record.inode

\* What a journal resolves to, of a first install ...
FirstReconciled(record) ==
  IF Published(record, record.hash) THEN Stable(record.hash)
  ELSE IF Discardable(record) THEN None
  ELSE record

\* Mutant of UpgradeReconciled: only the way back is known.
UpgradeRolledBack(record) ==
  IF Holds(record.hash) /\ Discardable(record) THEN Stable(record.hash) ELSE record

\* ... and of an upgrade: whichever snapshot is complete; neither, it stays.
UpgradeReconciled(record) ==
  IF Published(record, record.next) THEN Stable(record.next)
  ELSE IF Holds(record.hash) /\ Discardable(record) THEN Stable(record.hash)
  ELSE record

Journaled(record) == record # None /\ record.status # "stable"

Reconciled(record) ==
  IF ~Journaled(record) THEN record
  ELSE IF record.status = "uncommitted" THEN FirstReconciled(record)
  ELSE UpgradeReconciled(record)

\* The candidate's bytes are erased when its journal is resolved against it.
Erases(record) ==
  /\ Journaled(record)
  /\ Discardable(record)
  /\ IF record.status = "uncommitted"
     THEN ~Published(record, record.hash)
     ELSE ~Published(record, record.next) /\ Holds(record.hash)

Erased(record) ==
  IF Erases(record) THEN [bytes EXCEPT ![At(record.inode)] = "empty"] ELSE bytes

\* assertTargetIdentity()
SameTarget == dir = opened

-----------------------------------------------------------------------------
(* A run                                                                   *)

\* runSync() up to the item: journals are resolved, and an adoption is
\* consumed on disk (with everything the run knows so far).
Begins ==
  /\ pc = "idle"
  /\ mem' = Reconciled(lock)
  /\ bytes' = Erased(lock)
  /\ goal' = want
  /\ LET installs == want # None /\ ~Journaled(mem')
     IN  /\ adopt' = (installs /\ grant)
         /\ IF installs /\ grant
            THEN lock' = mem' /\ grant' = FALSE
            ELSE UNCHANGED <<lock, grant>>
         /\ pc' = IF want = None /\ mem' # None THEN "remove"
                  ELSE IF installs THEN "install"
                  ELSE "save"
  /\ UNCHANGED <<dir, file, inodes, want, opened, cand, bounds>>

Proceed(step) == pc' = step /\ UNCHANGED <<want, grant, bounds>>

\* installedRecordIntact(): nothing to do.
IsIntact ==
  /\ pc = "install"
  /\ mem # None /\ mem.hash = goal /\ Holds(goal)
  /\ Proceed("save")
  /\ UNCHANGED <<disk, lock, mem, run>>

\* The archive is fetched and checked, or that fails.
FetchFails ==
  /\ pc = "install"
  /\ Proceed("save")
  /\ UNCHANGED <<disk, lock, mem, run>>

\* prepareTargetDirectory(), openTargetDirectory(), and the collision check.
OpensTarget ==
  /\ pc = "install"
  /\ ~(mem # None /\ mem.hash = goal /\ Holds(goal))
  /\ dir' = IF dir = 0 THEN 1 ELSE dir
  /\ opened' = dir'
  /\ Proceed(IF ~adopt /\ mem = None /\ At(Config) # 0 THEN "save" ELSE "reserve")
  /\ UNCHANGED <<file, bytes, inodes, lock, mem, goal, adopt, cand>>

\* reserveCandidate(): created by path, then the directory is verified.
ReservesCandidate ==
  /\ pc = "reserve"
  /\ inodes < MaxInode
  /\ inodes' = inodes + 1
  /\ cand' = inodes'
  /\ file' = [file EXCEPT ![dir][cand'] = cand']
  /\ bytes' = [bytes EXCEPT ![cand'] = "empty"]
  /\ Proceed(IF SameTarget THEN "commit" ELSE "save")
  /\ UNCHANGED <<dir, lock, mem, goal, adopt, opened>>

\* Mutant of Commits: the journal stays in memory.
CommitsInMemory ==
  /\ pc = "commit"
  /\ mem' = IF mem = None THEN FirstJournal(goal, opened, cand)
            ELSE UpgradeJournal(mem.hash, goal, opened, cand)
  /\ Proceed("write")
  /\ UNCHANGED <<disk, lock, run>>

\* beforeCommit: the journal is on disk before the candidate has content.
Commits ==
  /\ pc = "commit"
  /\ mem' = IF mem = None THEN FirstJournal(goal, opened, cand)
            ELSE UpgradeJournal(mem.hash, goal, opened, cand)
  /\ lock' = mem'
  /\ Proceed("write")
  /\ UNCHANGED <<disk, run>>

\* discardOpenCandidate(): through the descriptor, whatever its name is now.
Discards == bytes' = [bytes EXCEPT ![cand] = "empty"]

\* The journal cannot be saved: the candidate is erased, nothing recorded.
CommitFails ==
  /\ pc = "commit"
  /\ Spend("faults", MaxFaults)
  /\ pc' = "save"
  /\ Discards
  /\ UNCHANGED <<dir, file, inodes, lock, grant, want, mem, run>>

\* writeFileSync() into the candidate.
Writes ==
  /\ pc = "write"
  /\ IF SameTarget
     THEN bytes' = [bytes EXCEPT ![cand] = goal] /\ Proceed("publish")
     ELSE Discards /\ Proceed("resolve")
  /\ UNCHANGED <<dir, file, inodes, lock, mem, run>>

Renamed == [file EXCEPT ![opened][Config] = file[opened][cand], ![opened][cand] = 0]

\* Mutant of Publishes: the rename replaces what it finds.
PublishesOver ==
  /\ pc = "publish"
  /\ IF SameTarget /\ file[opened][cand] # 0
     THEN file' = Renamed /\ bytes' = bytes /\ Proceed("finish")
     ELSE file' = file /\ Discards /\ Proceed("resolve")
  /\ UNCHANGED <<dir, inodes, lock, mem, run>>

\* renameAtNoReplace() of a new file, renameAtReplace() with authority.
Publishes ==
  /\ pc = "publish"
  /\ IF /\ SameTarget
        /\ file[opened][cand] # 0
        /\ mem.status = "uncommitted" /\ ~adopt => file[opened][Config] = 0
     THEN file' = Renamed /\ bytes' = bytes /\ Proceed("finish")
     ELSE file' = file /\ Discards /\ Proceed("resolve")
  /\ UNCHANGED <<dir, inodes, lock, mem, run>>

\* The rename helper dies before its rename; after it, the rename counts.
PublishFails ==
  /\ pc = "publish"
  /\ Spend("faults", MaxFaults)
  /\ pc' = "resolve"
  /\ Discards
  /\ UNCHANGED <<dir, file, inodes, lock, grant, want, mem, run>>

\* After installConfig(): a first install is resolved once more, and rejected
\* if it was put back; the record becomes stable in memory.
Finishes ==
  /\ pc = "finish"
  /\ mem' = IF mem.status = "uncommitted" /\ Reconciled(mem) = None THEN None ELSE Stable(goal)
  /\ bytes' = IF mem.status = "uncommitted" THEN Erased(mem) ELSE bytes
  /\ Proceed("save")
  /\ UNCHANGED <<dir, file, inodes, lock, run>>

\* The catch block: the journal is resolved as far as it can be.
Resolves ==
  /\ pc = "resolve"
  /\ mem' = Reconciled(mem)
  /\ bytes' = Erased(mem)
  /\ Proceed("save")
  /\ UNCHANGED <<dir, file, inodes, lock, run>>

\* removeOwnedConfig(): an unresolved journal refuses; a resolved one is saved
\* before config.json is unlinked by its name.
Removes ==
  /\ pc = "remove"
  /\ IF Journaled(mem)
     THEN UNCHANGED <<lock, file, mem>>
     ELSE /\ lock' = mem
          /\ mem' = None
          /\ file' = IF dir = 0 THEN file ELSE [file EXCEPT ![dir][Config] = 0]
  /\ Proceed("save")
  /\ UNCHANGED <<dir, bytes, inodes, run>>

\* The run's last saveState().
Saves ==
  /\ pc = "save"
  /\ lock' = mem
  /\ grant' = (grant /\ goal # None)
  /\ pc' = "idle"
  /\ mem' = None
  /\ goal' = None
  /\ adopt' = FALSE
  /\ opened' = 0
  /\ cand' = 0
  /\ UNCHANGED <<disk, want, bounds>>

\* The process dies, or the last save fails; the next run reads the lockfile.
Dies ==
  /\ pc # "idle"
  /\ Spend("faults", MaxFaults)
  /\ pc' = "idle"
  /\ mem' = None
  /\ goal' = None
  /\ adopt' = FALSE
  /\ opened' = 0
  /\ cand' = 0
  /\ UNCHANGED <<disk, lock, grant, want>>

-----------------------------------------------------------------------------
(* The operator, the publisher and the users of the directory              *)

Grants ==
  /\ pc = "idle"
  /\ ~grant
  /\ Spend("grants", MaxGrants)
  /\ grant' = TRUE
  /\ UNCHANGED <<disk, lock, want, pc, mem, run>>

Changes ==
  /\ Spend("changes", MaxChanges)
  /\ want' \in (Version \cup {None}) \ {want}
  /\ UNCHANGED <<disk, lock, grant, pc, mem, run>>

\* Edits config.json in place, writes it anew, or puts a file of its own under
\* the name of a candidate; deletes one of them; replaces the directory.
UserActs ==
  /\ dir # 0
  /\ Spend("acts", MaxActs)
  /\ \/ /\ At(Config) # 0
        /\ bytes' = [bytes EXCEPT ![At(Config)] = "user"]
        /\ UNCHANGED <<dir, file, inodes>>
     \/ \E n \in Name :
          /\ n = Config \/ At(n) # 0
          /\ inodes < MaxInode
          /\ inodes' = inodes + 1
          /\ file' = [file EXCEPT ![dir][n] = inodes']
          /\ bytes' = [bytes EXCEPT ![inodes'] = "user"]
          /\ UNCHANGED dir
     \/ \E n \in Name :
          /\ At(n) # 0
          /\ file' = [file EXCEPT ![dir][n] = 0]
          /\ UNCHANGED <<dir, bytes, inodes>>
     \/ /\ dir < MaxDir
        /\ dir' = dir + 1
        /\ UNCHANGED <<file, bytes, inodes>>
  /\ UNCHANGED <<lock, grant, want, pc, mem, run>>

RunStep ==
  \/ Begins \/ IsIntact \/ OpensTarget \/ ReservesCandidate \/ Commits \/ Writes
  \/ Publishes \/ Finishes \/ Resolves \/ Removes \/ Saves

Next ==
  \/ RunStep \/ FetchFails \/ CommitFails \/ PublishFails \/ Dies
  \/ Grants \/ Changes
  \/ UserActs

Spec == Init /\ [][Next]_vars

\* Syncs keep being asked for, and each comes to its end.
FairSpec == Spec /\ WF_vars(RunStep) /\ SF_vars(OpensTarget)

-----------------------------------------------------------------------------
TypeOK ==
  /\ dir \in 0..MaxDir
  /\ file \in [1..MaxDir -> [Name -> Name]]
  /\ bytes \in [Inode -> Bytes]
  /\ inodes \in Name
  /\ {lock, mem} \subseteq Record \cup {None}
  /\ {want, goal} \subseteq Version \cup {None}
  /\ {grant, adopt} \subseteq BOOLEAN
  /\ pc \in {"idle", "install", "reserve", "commit", "write", "publish", "finish",
             "resolve", "remove", "save"}
  /\ opened \in 0..MaxDir
  /\ cand \in Name

\* Credentials in the item's directory are always on record: config.json as an
\* owned file or in a journal, a candidate by the inode its journal names, also
\* when the process dies between two system calls.  What is not on record would
\* be neither removed nor erased (config-installer.ts:236-239).  The
\* type invariant comes first.
SecretsAreRecorded ==
  /\ TypeOK
  /\ \A n \in Name :
       At(n) # 0 /\ bytes[At(n)] \in Version =>
         lock # None /\ (n = Config \/ lock.inode = At(n))

\* A step of the installer takes a user's file, or its content, only where the
\* lockfile owns config.json or the operator's adoption was consumed for it:
\* neither publication nor recovery touches what was raced into a name.
UsersFilesSurvive ==
  [][pc' # pc =>
       \A d \in 1..MaxDir, n \in Name :
         LET k == file[d][n]
             kept == bytes'[k] = "user" /\ \E m \in Name : file'[d][m] = k
         IN  k # 0 /\ bytes[k] = "user" /\ ~kept
               => n = Config /\ (adopt \/ (lock # None /\ lock.status # "uncommitted")
                                       \/ (mem # None /\ mem.status = "stable"))]_vars

\* While users leave the directory alone, syncs reach what the manifest wants,
\* however often one was cut short before.
SyncsConverge ==
  []<>(\/ bounds.acts # 0
       \/ want = None /\ lock = None
       \/ want # None /\ lock = Stable(want) /\ Holds(want)
       \/ lock = None /\ At(Config) # 0 /\ ~grant)
=============================================================================
