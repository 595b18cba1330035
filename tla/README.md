# A TLA+ development of cli-openai-proxy

This directory specifies and verifies the stateful core of the proxy in
`src/`: remote logins of CLI engines, the synchronization of provisioning
manifests, the installation of skills, configs and discovery links on disk, the
readiness cache, the gateway in front of per-user workers and the provisioner
of their accounts, completion requests and the usage history.
TLC checks the modules on small instances. For every instance, TLAPS proves all
their safety properties: what is left to TLC alone is liveness.

Paths such as `auth/session-manager.ts` are relative to `src/src/`.

- [The system](#the-system)
- [Modules](#modules)
- [Runs](#runs)
- [Fairness](#fairness)
- [Proofs](#proofs)
- [Where the code and its documentation disagree](#where-the-code-and-its-documentation-disagree)
- [Not modelled](#not-modelled)
- [Plan](#plan)

## The system

The proxy is one node process per role (standalone, gateway, worker, or the
root provisioner). JavaScript runs one task at a time, so what lies between two
`await`s cannot be interrupted; everything hard about this code happens at the
`await`s, in the children it spawns, in the files it leaves behind for its next
start, and between the processes of one deployment.

| Component | State it keeps | Operations | What makes it correct |
| --- | --- | --- | --- |
| Login session manager (`auth/session-manager.ts`) | `byId`, `byEngine`, `starting`; per record a status, a handle, a timer and the `submitting` flag | create, submit, poll, cancel, TTL, `settleWhenDone`, `resetSessions` | one live login per engine; a late answer has no authority; no CLI child without somebody who will kill it |
| Login adapters (`auth/adapters/*`, `auth/pty.ts`) | a pty or a child, a cancelled flag, the credential a CLI writes for itself | `start`, `submit`, `wait`, `cancel` | every call settles; `cancel` reaches a child that does not exist yet |
| Credential store and event (`auth/token-store.ts`, `auth/credential-events.ts`) | credentials in memory, listeners | set, clear, notify, injection into child environments | every change of a credential is announced |
| Readiness cache (`server/health.ts`) | snapshot, `inFlight` probe, generation | read, probe, invalidate | no verdict from before an announced change; a probe always ends |
| Manifest synchronization (`provision/sync.ts`) | per workspace: URL, generation, last manifest, operation queue, sync loop | register, sync, approve, DELETE, adopt, refetch, shutdown, start | consent, ownership on disk, supersession, no lost request |
| Provisioning state (`provision/state.ts`) | lockfile and registered URL on disk | load, save | what is on disk is enough to continue after a crash |
| Skill and config installers (`provision/installer.ts`, `config-installer.ts`, `rename-no-replace.ts`) | files, journals | install, upgrade, remove, recover | a crash leaves either side recognisable; no user file is lost |
| Worker gateway (`isolation/worker-proxy.ts`) | bindings of generations, latest issued and latest relayed generation, two files | issue, bind, release, expire, relay | authority is never reused, reordered, or forgotten |
| User provisioner (`isolation/linux-user-provisioner.ts` and its client and server) | accounts on disk, one operation per user | ensure a worker | one account per user, across crashes |
| Completion runs (`server/routes.ts`, `adapter/paperclip-runner.ts`) | per request: child, kill flag, completion flag | run, stream, disconnect, kill, clean up | a disconnect kills the child, one completion per run, no directory left |
| Usage tracker (`usage/tracker.ts`) | records in memory, a debounced save | adopt the old directory, load, record, save | history survives restarts |
| Conversions, parsers, policies | none | | pure functions |
| Configuration, entry points, UI | none that changes concurrently | | |

How they interact:

- `server/auth-routes.ts` calls the session manager. A login that reaches
  `authorized` stores a credential in the token store or learns that a CLI has
  stored one, calls `notifyCredentialChange()`, which synchronously drops the
  readiness snapshot, and calls `handleAuthorizedSession()`, which registers the
  login's manifest URL and starts a sync.
- `server/provision-routes.ts` calls the synchronization, whose mutations pass
  through one queue per workspace (`serialize`), while URL registrations act at
  once and supersede what runs.
- In gateway mode `worker-proxy.ts` forwards a user's requests to the worker
  process of that user, over a socket. It attaches a generation to a login that
  carries a URL; the worker returns it with the authorized session.
- `server/routes.ts` makes a `PaperclipRunner` per completion request, listens to
  its events and to the response, and reports the outcome to the usage tracker.
- The gateway asks the root provisioner over a socket for the worker of a user
  before it forwards that user's requests.
- `server/index.ts` stops everything: sessions are reset before and after the
  listener has closed, then provisioning is drained.

Hard behaviours, all listed as hazards in `PROJECT.json` with the line at which
they bite: two creates of one engine that overlap in `start()`; answers of a
cancelled adapter; children that appear after the cancellation; a manifest URL
replaced during a fetch or a download; approvals and DELETEs that overlap a run;
a crash between two writes or renames; shutdown during any of it, with handlers
that outlive their clients; a probe that was
overtaken; answers of a worker that are lost or overtake each other; writes that
fail; a gateway that restarts; users and CLIs that edit a directory between two
system calls of an installer; helper processes that die without an answer; a
client that leaves before there is a child to kill; two processes that adopt one
directory; a service that dies between a reservation and the account it is for.

## Modules

| Module | Models | Composed with |
| --- | --- | --- |
| `Engines` | the registered engines and the absent value, which logins and readiness cache share | |
| `EngineLogin` | the promise of the session manager: an engine is a lock that one login at a time holds, and only its holder becomes a credential | refined by `AuthSession` |
| `AuthSession` | session manager, adapters and their children, credential store, `stopServer()` | extends `Engines`, instantiates `EngineLogin` |
| `MCAuthSession` | the registry's real engines and flows for TLC | extends `AuthSession` |
| `AuthSession_proofs` | inductive invariant and theorems, for adapters of either kind; for those that never succeed after `cancel()` the refinement of `EngineLogin` and the silence of superseded generations; the same of `HealthProbe`, which listens to the credential changes of these logins | extends `AuthSession` and `HealthProbe` |
| `ProvisionSync` | one workspace's synchronization: registration, queue, loop, runs, lockfile, crashes, users editing files | |
| `MCProvisionSync` | symmetry for TLC | extends `ProvisionSync` |
| `ProvisionSync_proofs` | inductive invariant and theorems | extends `ProvisionSync` |
| `SkillInstall` | one skill of one workspace on disk: first install, upgrade, removal, their journals, crashes between any two renames or saves, users editing and moving directories | |
| `MCSkillInstall` | two versions of a skill for TLC | extends `SkillInstall` |
| `SkillInstall_proofs` | inductive invariant and theorems | extends `SkillInstall` |
| `SkillLinks` | the discovery links of one skill: intent, link, record, retarget, removal, recovery, with users editing the directories between system calls | |
| `SkillLinks_proofs` | inductive invariant and theorems | extends `SkillLinks` |
| `ConfigInstall` | one config item on disk: candidate, commit, publication, adoption, upgrade, removal, recovery, with users editing the directory between system calls | |
| `ConfigInstall_proofs` | inductive invariant and theorems | extends `ConfigInstall` |
| `HealthProbe` | readiness cache, credentials as versions | extends `Engines` |
| `GatewayBindings` | bindings of the worker gateway, their files, the worker as the gateway sees it | |
| `GatewayBindings_proofs` | inductive invariant and theorems | extends `GatewayBindings` |
| `UserProvisioner` | accounts of users: state file, reservation, `useradd`, ready mark, service start; gateway requests, crashes, other administrators | |
| `UserProvisioner_proofs` | inductive invariant and theorems | extends `UserProvisioner` |
| `UsageTracker` | usage history: adoption of the old directory, load, record, debounced save | |
| `RunLifecycle` | completion requests, their runner, child and files | extends `UsageTracker`, which it calls |
| `RunLifecycle_proofs` | inductive invariant and theorems, those of `UsageTracker` among them | extends `RunLifecycle` |

Operators whose comment begins with "Mutant of" belong to no specification.
They are the plausible mistakes the properties were tested against: with the
mutant in place of its original TLC finds the property violated.

### AuthSession

An attempt is one `createSession()` call with the handle it made. `phase` is the
attempt's status; the statuses of a record (`pending`, `authorized`, `failed`,
`cancelled`) are the code's, and `starting`, `rejected` and `superseded` stand
for calls that have no record. `byId`, `byEngine`, `starting` and `submitting`
are the variables of the code. `driving` counts adapter calls, so that the flag
can be compared with what it is meant to guarantee.

| Action | Code |
| --- | --- |
| `CreateSession` | `createSession` up to `await handle.start()`: supersede, reserve, spawn; an api-key flow registers in the same step |
| `Spawned` | node-pty has been imported and the pty exists |
| `StartOk`, `StartFails` | `createSession` after the await |
| `Submit`, `SubmitOk`, `SubmitFails` | `submitSession` before and after `await handle.submit()` |
| `DeviceVerdict` | `settleWhenDone` |
| `TtlExpires`, `CancelSession` | the timer and `cancelSession`, both through `dispose` |
| `ForgetCredential` | `DELETE .../credential` |
| `CliPersists`, `ChildExits` | what a CLI does on its own: write the host's credential, exit |
| `StopBegin`, `StopEnd` | `stopServer` before and after `close()` has called back: it waits for connections, so a handler whose client has left may still run |

`LateResults` chooses between the adapters of the tree, whose `start()` and
`submit()` reject after `cancel()`, and any adapter that fits the interface and
may report success late. Safety is checked for both; whatever needs the stricter
kind says so. Abstracted: what the CLIs print, how keys are validated (a submit
succeeds or fails), session ids (an attempt is its id), view formatting.

### ProvisionSync

One workspace. `queue` is `operationTail`, `loop` is `inFlight` (with a state of
its own for the microtasks in which a settled loop is still set), `run` is the
`runSync()` in progress, parked at its manifest fetch (`at = None`) or at the
download of an item; `run.mem` is the lockfile as this run read and changed it.
Between two parkings a run executes without an `await` that lets other code act
on its data, so `ItemInstalled`, `ItemFails`, `ItemUnchanged` and
`ItemSuperseded` take a run from one download to the next, or through removal
and publication (`Finish`) to the end of the loop's turn (`EndRun`).

The disk is `lock`, `savedUrl`, `tree` (installed and intact) and `foreign`
(content nobody recorded). `Crash` forgets the memory and keeps the disk;
`UserDrifts` and `UserWrites` are a user editing files. `consented`, `deleted`,
`granted` and `unsynced` are history variables: they record what the operator
asked for, so that properties can compare the code's decisions with it.

Abstracted: installing or removing one item is atomic, with its write-ahead
ownership record (`beforeCommit`) in the same step; manifests are sets of item
names; whether an item's content changed upstream is not tracked (an intact item
may be found unchanged or be reinstalled).

### SkillInstall

`at` maps pathnames to directory trees: the skill's name (`target`), the tree
being prepared (`candidate`), the recovery paths `.provision-<kind>-<id>` (a
recovery identity stands for its path), and a place only users know
(`elsewhere`). A tree stands for its inode; `files` maps it to what it contains.
`lock` is the lockfile on disk, restricted to this skill, and `mem` the copy that
the running operation has read and changed. `op` is where that operation is.

The code runs one operation at a time and does not await anything between the
download and the end of the installation. It is nevertheless one step per
rename and per save, since the process can die after each and other processes
of the same user act in between, which is what the journals and the second looks
at identities are for.

| Action | Code |
| --- | --- |
| `Begin`, `Reconcile`, `ClearMarker` | `loadState`, and the two passes of `reconcileFirstInstallJournals` |
| `Item`, `Prepare` | the item's turn in `runSync` up to its download: `reconcileUpgradeJournal`, the unchanged path, the recovery identities |
| `Extract`, `DownloadFails`, `Superseded` | `installSkill` up to an audited candidate |
| `Commit`, `Expose` | the last checks, `beforeCommit`, and a first installation's rename |
| `SetAside`, `AuditAside`, `Swap`, `Retain` | an upgrade |
| `Verify`, `Isolate`, `Restore` | `assertPublishedCandidate`, `isolateRejectedCandidate` |
| `Publish`, `ItemFails`, `Finish` | the completed record, the item's catch block, the end of the sync |
| `Remove`, `RemoveMove`, `RemoveBack`, `DropRecord`, `Forget` | `prepareRemovalRecovery`, `removeManagedTree`, the removal loop, `deleteItem` |

Abstracted: the extraction is one step, and an abandoned candidate is not
followed further; a save succeeds or the process dies; directories inside a
skill; the migration of legacy install roots; discovery links, which are
`SkillLinks`, and of which only remains here that publishing one saves the
lockfile (`Publish(linked)`). `want`
stands for manifest and approval together: a DELETE clears it, as the item then
needs an approval to come back. Identities are drawn from a finite set and used
again only when neither the disk nor a journal refers to them.

### SkillLinks

`entry` maps a path, the skill's name in one discovery directory, to an inode,
and `kind` maps the inode to what it is: a link to the canonical tree under one
skills directory, or content of users. `aside` holds what the sync has moved to
random names. `lock` and `mem` are the skill's record on disk and in the running
sync: pairs of path and inode (`skillLinks`) and the one intent
(`skillLinkPublication`). `conf` is what `skillLinkDirs()` and `skillsDir()`
answer in this process; `Changes` replaces it, as a restart may. `cur`, `hold`,
`left` and `obsolete` are locals of `ensureSkillLinks()`.

| Action | Code |
| --- | --- |
| `Begins`, `ChecksRemovable` | the skill's turn in `runSync`; `assertRecordedSkillLinksRemovable` |
| `NothingToFinish`, `Withdraws`, `AdoptsLink`, `Republishes`, `FinishesLink` | `finishSkillLinkPublication` |
| `Verifies`, `TakesPath`, `PathsDone`, `TakesLink`, `LinksDone` | the phases of `ensureSkillLinks` |
| `Intends`, `Links`, `Commits` and their failures; `RollsBack`, `RollbackDies` | `publishSkillLink` and `createSkillLink`; `removeAtIdentity`, which answers or throws |
| `Retains`, `Inspects`, `Discards`, `Undoes` | `retainRecordedSkillLink`, `discardRetainedSkillLink`, and the catch block of a retarget |
| `TakesRecorded` | `removeRecordedSkillLinks` |
| `Saves`, `Dies` | the sync's last save; a crash, or a last save that fails |

Nothing of this awaits, but every system call and save is a step, as users of
the directories act in between. Left out: discovery directories that alias each
other or are replaced during a publication, and their creation. History:
`ours` are the inodes the sync made, without those a user has moved and those
that may go back off the record (`Disowned`); `had` are the paths with a live link
when a sync began. A helper that dies in a rollback costs no fault of its own: the
failing save that leads there may have the same cause.

### ConfigInstall

A file is an inode with its bytes. `file` maps directory and name to inodes;
name 0 is `config.json`, and the random name of a candidate is the number of the
inode created under it, so it is never met twice. A version of the item is its
digest and its bytes, the credentials. `lock` and `mem` are the item's record on
disk and in the running sync; a record is stable, uncommitted (first install) or
pending (upgrade), and a journal names the directory and the candidate's inode.

| Action | Code |
| --- | --- |
| `Begins`, `IsIntact` | the journals resolved first, the gates, the unchanged path |
| `FetchFails`, `OpensTarget`, `ReservesCandidate` | `installConfig` up to an empty candidate |
| `Commits`, `CommitFails` | `beforeCommit`: the journal is saved before there are bytes |
| `Writes`, `Publishes`, `PublishFails` | the candidate's bytes, the last look at the target, the rename |
| `Finishes`, `Resolves` | the completed record; the item's catch block |
| `Removes`, `Saves`, `Dies` | `removeOwnedConfig`; the last save; a crash |
| `Grants`, `Changes`, `UserActs` | adoption, a new manifest, the CLI and its user |

What a reconcile function inspects and what it does about it is one step. Modes,
sibling files, other file names and the approval itself are left out.

### HealthProbe

A verdict is the version of the credential it was read from. `AnnouncedChange`
is a credential that changes together with its event; `SilentChange` is a CLI
or a user that writes a credential, followed by `LateAnnouncement` if a login
concludes later, or by nothing. `OnCredentialChange` is the listener. `Read`
starts a probe, `ProbeAnswers` and `ProbeGivesUp` fill it in per engine,
`ProbeEnds` publishes or discards it.

### GatewayBindings

`bindings`, `latestIssued` and `latest` are the fields of `UserWorkerProxy`; the
`saved` variables are its two files. A generation is a natural number; `Issue`
picks any larger one than the latest, as a clock may. `sent`, `answer`,
`notices`, `deletes` and `displacedBy` are messages between gateway and worker:
each may be handled in any order or never. `Save` is a write that succeeds,
`RollBack` one that throws, after which the handler restores the table.

| Action | Code |
| --- | --- |
| `Issue` | `forward` and `issueProvisioningGeneration`: prune, capacity, write, send |
| `WorkerCreates`, `PlainCreate` | the worker's `createSession`, with or without a URL, and the generation it reports as superseded |
| `CreateAnswered` | the answer to a create: `bindIssuedGenerationToSession` or release |
| `CreateFails` | connection errors, readiness timer, client gone |
| `PlainAnswered`, `DeleteAnswered` | the other two releases |
| `Poll`, `Relay` | an authorized session's header and `relayProvisioningNotification` |
| `Authorize`, `WorkerForgets`, `WorkerDeletes` | the worker's sessions |
| `Expires`, `Restart` | time; the constructor reading the files, also after dying between writing and relaying a generation |

The worker reports its own sessions truthfully, so the comparison of URL hash,
account, engine and session id never fails in the model and is left out. A slot
is an account together with an engine.

### UserProvisioner

`users` is `users.json`, `account` and `home` are the operating system's.
`op` is the identity's running `ensureLocked()`, `queue` the state lock
(`withStateLock`), `loaded` what the operation in its turn has read. `useradd`
creates the account first and its HOME afterwards and dies with the service or
after 30 s, so that any prefix of its work can remain.

| Action | Code |
| --- | --- |
| `Asks`, `GivesUp` | the gateway's client and the per-identity lock; its timeout |
| `ReadsState`, `FindsRecord`, `RefusesIdentity`, `Reserves` | `reserveRecord` |
| `LooksUp`, `AddsAccount`, `AddEnds`, `Secures` | `ensureLocked` for a record that is not ready |
| `PersistsReady`, `Verifies` | `persistReadyRecord`; the checks of a ready record |
| `Starts`, `Fails`, `Crashes` | `systemctl` and the answer; a failing command; the service dies |
| `OthersEdit` | an administrator deletes or creates an account |

### UsageTracker and RunLifecycle

`disk` maps the two data directories to the content of their `usage.json`:
absent, missing, torn, or a history (a sequence of outcomes). `stage` follows
`load()` from `access` to `access` and rename, `saving` the debounced save.
`OtherAdopts` is a second process of the same user. Reading or writing a file
takes less than the 5 s of the debounce, as the guards of `TimerFires` say.

`RunLifecycle` has a record per request. `sent` is `res.headersSent`; no guard
depends on `res.writable`, which stays true when a response has ended or its
client has left, so that a second `res.json()` throws (`Json`) and one for a client
that has left does nothing. The listeners of `routes.ts` and the
runner's `kill()` and `signalProcess()` are operators on that record; a task of
the event loop that emits two events is their composition, in the order of the
code. `billed` collects calls of `usageTracker.record()`, which `Step` hands to
`RecordAll`.

| Action | Code |
| --- | --- |
| `Arrives`, `Refused`, `ImagesWritten`, `ImagesFail`, `CleanedUp` | `handleChatCompletions` and `materializeImages` |
| `Prepared`, `PreparationFails` | `start()` up to `execute()`: the custom home, the working directory |
| `Spawns`, `Reported`, `PrintsResult`, `ChildExits`, `Settles`, `RunCloses`, `RunCatches` | `execute()` and its callbacks; the runner's last events, and its `catch()`, after which a listener that throws ends the process |
| `ResponseCloses` | the client disconnects, or has its answer |
| `CredentialChanges`, `ProcessExits` | the gateway credential; the end of the process |

## Runs

| Run | Instance | States | Shows |
| --- | --- | --- | --- |
| `auth_late` | claude; 3 attempts (symmetric); late results | 900 000 | one live login, no authority for late answers |
| `auth_fair` | claude and codex; 2 attempts; fair | 141 000 | no orphan child, no reservation or running child after shutdown, refinement of `EngineLogin`, every login concludes, shutdown completes |
| `sync_safety` | a skill and a config item, 2 URLs, 2 generations, 2 queued requests | 1 700 000 | consent, DELETE, ownership, one-shot adoption, supersession |
| `sync_live` | a config item, 2 URLs, 3 generations, 2 queued requests; fair | 72 000 | every request is served, shutdown completes |
| `gateway_safety` | 1 slot, 3 generations, table for 2, 2 faults | 2 900 000 | capacity, memory equal to disk, live logins stay bound, failed ones are released, relays in order |
| `skill_install` | 2 versions of one file, 7 identities, 4 trees, 2 acts of users, 1 crash, 2 changes of the manifest; fair | 2 400 000 | no tree lost, retained trees listed, own trees recorded, the lockfile describes the target, an unwanted skill goes |
| `skill_swap` | the same without users | to the violation | violated: see the findings |
| `health` | 2 engines, 3 changes each; fair | 36 000 | no overtaken verdict, drift is noticed |
| `completions` | 1 request of claude or codex_custom, streaming or plain; 1 change of the credential, 2 starts of the process; fair | 209 000 | failed runs are not answered as successes, disconnects reach the child, requests are released, the history is adopted and kept |
| `provisioner` | 3 identities, 2 users allowed, 3 accounts, 1 fault, 1 act of an administrator; fair | 216 000 | accounts are recorded, an identity keeps one account, retries succeed |
| `config` | 2 versions, 5 files, 2 directories, 2 acts of users, 2 new manifests, 1 adoption, 1 fault; fair | 314 000 | credentials are on record, files of users survive, syncs converge |
| `links` | 2 paths, 2 targets, 8 entries, 1 act of a user, 2 changes, 1 fault; fair | 1 590 000 | links are on record, fan-out stays live, users' entries survive, links converge |

The type invariants of `AuthSession` and `HealthProbe`, which are theorems of
their own, are in no run. In the other modules it is the first conjunct of one
of the invariants.

Why these bounds are enough to be interesting:

- Three attempts on one engine are the smallest number with an ABA: the first
  is displaced by the second, which concludes before the first one's
  continuation runs and a third begins. Two attempts on two engines exercise
  every flow of the registry and engines that inject against engines that keep
  their own credential.
- Two generations are needed to supersede a run, three for the second
  registration to come while the turn for the first is queued. Two queued
  operations let an approval and a DELETE of one item wait behind one run. Two
  items are needed for a run to be parked at one while it holds decisions about
  another, and the two kinds differ in what they write and when.
- Three generations in a table for two reach capacity, pruning and a displaced
  login next to a retained one. Two faults allow a binding whose write fails to
  fail to be released as well, or a restart after a failed write.

- Two acts of users are the least that rebinds a name: one moves the directory
  away, one makes another. Two changes of the manifest install a version and
  upgrade or drop it. One crash in each behaviour falls after any of its steps;
  with two crashes and one act of users the same properties were checked too.
  Seven identities and four trees are never used up.
- Two paths are the least that tell a whole fan-out from a part of it, or move a
  link from one directory to another; two targets are a retarget. The first of
  two changes publishes elsewhere, the second withdraws or turns back. Safety of
  the links was checked with two faults as well, beside a helper that dies. Five files are the user's, two
  candidates and two acts.
- Three identities for two accounts reach the limit and a third that waits; three
  accounts let one be replaced by another uid. One fault falls at any command.
- One request meets its own client, child and tracker in every order; requests
  share nothing but the tracker, which adds up what it is told. Two starts of
  the process are one that adopts or writes the history and one that reads it.

Bounds (`MaxGeneration`, `MaxQueue`, `MaxChanges`, `MaxFaults`, `MaxId`,
`MaxTree`, `MaxUser`, `MaxCrash`, `MaxChange`, `MaxInode`, `MaxDir`, `MaxActs`,
`MaxGrants`, `MaxUid`, `MaxCred`, `MaxBoots`, and the number of attempts) occur in guards only and cut behaviours short; none of the
properties is about reaching a bound, except the capacity of the binding table,
which is the code's own constant made small. Where the instances switch off
deadlock checking, the system stops for good: the server is down and all
attempts are used up, or the generations are, the request is answered, or nothing
is left to install.

## Fairness

- `AuthSession`: each adapter's `start()` and `submit()` settle, because every
  adapter arms a timeout and `cancel()` rejects what is pending; TTL timers fire;
  `close()` calls back when no request is left. It may do so earlier, when clients
  disconnect, but nobody has to. Nothing is assumed of users, of CLIs, or of a pty
  child's death after its signal.
- `ProvisionSync`: fetches (30 s) and downloads (120 s) have timeouts, and
  queued promises run. Nothing is assumed of requests, users or restarts.
- `SkillInstall`: the refetch timer starts another sync (`startRefetchTimer`), and
  what runs goes on. Downloads may fail for ever.
- `HealthProbe`: someone keeps reading the endpoint, the probe timeout and the
  TTL fire. No engine has to answer.
- `RunLifecycle`: file operations end; the adapter spawns or settles, reports what
  it spawned and settles once that is gone, by a result or an exception. Nothing is assumed of a client, nor
  of a CLI, which may ignore its signal: timeouts are off by default.
- `UserProvisioner`: commands and file operations end (they are killed after
  30 s), and users keep sending requests. Faults are finitely many.
- `ConfigInstall`, `SkillLinks`: syncs keep being asked for and each comes to its
  end; a download that is tried for ever succeeds again and again (strong
  fairness of `OpensTarget`). Crashes and failing saves are finitely many.

## Proofs

`AuthSession_proofs` proves, for any sets of engines and attempts, any registry
and adapters of either kind, that the type invariant, `OneLivePerEngine`,
`SlotsMatchRecords`, `SingleDrive`, `NoOrphanChild` and `QuietWhenDown` hold in
every reachable state, and that every step obeys `OnlySlotHolderStores`,
`SyncOnlyOnAuthorization` and `VerdictsStand`. Assumed of the constants (`ConstantsAssumption`): the
absent value is not an attempt, the registry lists known flows, and no engine
whose credential the proxy injects has a device-code flow.

None of these is inductive by itself. `OneLivePerEngine` is about the phases,
the code decides by two tables; after `await handle.start()` it looks only for
*other* entries of the tables. The inductive invariant `IInv` says what an entry
means:

- `SlotInv`: an entry of `byEngine` is a registered pending record of that
  engine, and every pending record has one;
- `ReservationInv`: an entry of `starting` is an uncancelled start, and every
  uncancelled start has one, which is what lets a displaced start recognise
  itself after the await;
- `Exclusive`: an engine never has both, so registering cannot create a second
  live login;
- `FlagInv`: the flag equals the number of adapter calls;
- `ChildInv`: a running child belongs to an uncancelled start or a pending
  record, and a cancelled device-code child has been signalled;
- `Fresh`: an attempt that has not begun occurs nowhere.

The proof has a lemma per action and in it a step per conjunct. `CreateSession`,
which displaces up to two logins and writes both tables, is the long one. The
action properties follow from `IInv` by looking at the steps that can disturb
them; `OneSyncPerLogin` needs `SyncInv` besides: an undecided attempt has not
synced.

The second half of the module proves, under `~LateResults`, that `AuthSession`
implements `EngineLogin` with `state <- LoginState` and `holder <- Holder`, and
that `SupersededNeverSyncs` holds. Both add `PendingUncancelled` to the
invariant: a pending record's handle has not been cancelled. It is the one part
that is false for an adapter that resolves `start()` after `cancel()`: such an
attempt finds the tables empty again after the one that displaced it has
concluded, and registers. `HolderIsOpen` reads the two tables as the holder of
the lock; `LoseStep`, `WinStep` and `OpenStep` are the three shapes a handler
can take, and `StepRefines` sorts the handlers into them.

The last part of the module is about `HealthProbe`, which shares the engines
with `AuthSession` and no variable. It proves the types and `NoVerdictFromBefore` for any number of engines and
changes. `HealthInv` adds what a running probe knows: answers
of a probe of the current generation are not older than the last announcement,
which is why comparing generations suffices when it publishes.

`GatewayBindings_proofs` proves all four properties of the run `gateway_safety`
for any set of slots, capacity, number of generations, and number of failed
writes and restarts. The invariant has two halves. `FilesInv` is about the
gateway alone: memory matches the disk, and `Ordered` says that the generation
relayed last is at most the latest relayed, which is at most the latest issued,
as is every binding. Without `Ordered` a restart, which resumes from the larger
of the two files, could fall behind what it issued. Every write but one only
removes or changes entries; the lemma `NoNewEntries` settles those, and
`FilesIssue` counts the one that adds. `IInv` adds `Unissued` (nobody knows a
generation above the latest issued one, so `Issue` cannot revive an old login)
and `MessagesInv` (what an answer in flight calls superseded or deleted is over
in the worker, and a create that is not answered is unknown to the client).
From these a release never touches a login that can be read, which is
`LiveLoginsStayBound`. The theorems assume of the worker what the module does.

`UserProvisioner_proofs` proves `AccountsAreRecorded` and `OneAccountForGood`
for any number of identities, limit, failures and foreign edits. Neither is
inductive: the first needs that no write loses an entry, the second that an
entry, once ready, is never written again. `TurnInv` says that what an operation
has read is still the file for as long as it holds the state lock; `BeliefInv`
says what an operation may conclude about its entry between its two turns at the
lock: it is still the reservation until the ready mark, and the ready entry
afterwards. `EntriesInv` leaves no third kind of entry.

`ProvisionSync_proofs` proves `OwnedOnDisk` and all four action properties of
the run `sync_safety` for any sets of items and publishers and any number of
generations and queued requests. What makes them inductive is `Awaiting`: while
a run awaits an item, nobody else writes the lockfile but to approve, so its copy
mirrors the file in all it decides by (`Mirrors`), and the item is one it may
apply. `Recorded` relates the lockfile to what the operator asked for, `Current`
says that a run of the present generation fetches from the registered URL, and
`Queued` that no waiting sync is of a later one. `ProceedKeeps` settles the tail
of every handler, which removes, publishes and ends the turn, once for all of
them. Grants of adoption are spent before the download, which is why a run's
item is in no list of grants, and an adoption cannot happen twice.

`ConfigInstall_proofs` proves `SecretsAreRecorded` and `UsersFilesSurvive` for
any set of versions and any number of files, directories, faults and acts of
users. The invariant states of each record that is around, on disk or in memory,
both what the property says (`Records`) and what a journal means (`JournalInv`):
during a first install the journaled file is the only one with credentials, and
they are the new ones; a stable record names no file. `CandidateInv` says where
the candidate can be, and `FilesInv` that an inode has one name, without which
a rename could leave a second copy of the credentials behind. The lemma
`ReconciledRecords` covers every outcome of a reconciliation.

`RunLifecycle_proofs` proves `SuccessIsSuccess` for any requests and engines, and
the two properties of `UsageTracker`, `HistoryIsAdopted` and `HistoryIsKept`, for
any number of starts. The two halves share no variable. `Truthful` says of a
response that waits for its run that it becomes "ok" only when the run has an
outcome and did not fail, which then stays so. This rests on no guard: what is
answered second throws or is lost (`Json`, `Answer`), and when a throw ends the
process the request is gone. Each listener that a task of the
event loop composes has a lemma of its own (`OnCloseFollows` and its like), so
that the actions need not be taken apart again. `UsageInv` is about the two
directories: `OneDirectory`, by which a start never has to choose; `Located`, what
`load()` knows of them in each of its stages, with a second process renaming at
any moment; `Saved`, by which memory extends whatever the file holds once it has
been read. Assumed is only that the three unreadable contents are none of the
histories.

`SkillInstall_proofs` proves `TreesSurvive`, `OwnedAreRecorded`,
`RetainedAreRecorded` and `LockfileDescribesTarget` for any files, versions and
contents and any number of identities, trees, crashes, changes of the manifest
and acts of users. The process can die between any two renames or saves, so the
core of `IInv` is what must hold of the lockfile on disk at *every* moment,
`Good(lock)`:

- `OwnedInv`: a tree of ours that nobody has touched is at the target only under a
  record that tells it by its content (`Describes`): the stable or the pending
  snapshot; with or without its marker, when it may have been exposed just now;
  by inode, with the marker, while its first installation is uncommitted.
- `PresentInv`: while users keep away, a record without a journal has its tree.
- `RetainedInv`: `RetainedAreRecorded`.
- `RejectInv`: a first install names the identity it would be isolated under for
  as long as that may be needed.
- `Shaped`: which journals exclude each other.

`LockInv` says when memory may differ from disk: only in the last step of a
sync, which saves what is then `Good` as well; this is why `ItemFails` may
reconcile without saving. The remaining parts say what the running operation
knows. `CandidateInv`: from extraction to exposure the candidate is the tree this
run made, and whole. `ClaimInv`: the identities of an installation are on disk
before their paths appear, and vacant until the one rename that fills each.
`RecordInv`: the record each step works on. `SightInv`: what was seen at the
target is still there, or a user has moved it since and what is there is not
ours; every check by inode or content that follows a rename rests on this. The
history variables enter only as excuses (`Own`, `Strange`, `Quiet`).

`TreesSurvive` follows from `IInv` by looking at the renames: each has a
destination that the code or the kernel found vacant, and only the candidate is
ever deleted. Identities are taken as the least free ones; `LeastIn`, which says that this is
well defined, uses that the naturals are well-founded. Assumed of the constants is
that each version has a file, which `provision/installer.ts:741-743` enforces:
a record without files would tell no tree for its own.

`SkillLinks_proofs` proves `LinksAreRecorded`, `FanoutStaysLive` and
`UsersEntriesSurvive` for any paths and targets and any number of entries, acts
of users, changes and faults. The proof is long, since what the code knows
changes with every system call. The parts of `IInv` beside the types:

- `TreeInv`: an inode has one place.
- `RecordsInv`: every link of the sync is known to both records, on disk and in
  memory, by its identity or by the intent (`Sound`), and neither takes a user's
  content for a link. A crash may therefore fall anywhere.
- `SyncedInv`: until something fails, memory is the lockfile, and has an intent
  between `Intends` and `Commits` only. This is why undoing by memory undoes what
  is on disk.
- `HandInv`, `HoldInv`: what was moved aside, and may be moved back, is a link
  that both records know, or is disowned. A link is disowned when it was to be
  replaced, the save of the new one failed, and the new one cannot be rolled back
  either, because a user took it or the helper died: the record then names the new
  link, and the old one may go back unrecorded. `LinksAreRecorded` is false of
  such a link (see below), and the theorem says that it is the only exception
  beside links that users move.
- `PlanInv`: every link of the sync is done, still to do, or at hand.
- `FanoutInv`: where a desired link was live when the sync began there is one, or
  it is the one moved aside; this is what the rollback of a retarget preserves,
  also with a link that it disowns.

The assumptions on the constants name what a TLA+ value leaves open: the absent
value is no path, target, intent or record (`ConfigInstall`: no version or
record), and "user" is no target.

Only model-checked is liveness, which is outside what the prover handles
(fairness, ENABLED). Every other property of a passing run is a theorem.

## Where the code and its documentation disagree

The finding is a run that TLC ends with a counterexample.

- `skill_swap`: `docs/provisioning.md:412-414` says that an interrupted swap is
  recoverable, `provision/sync.ts:1956-1958` that the next install or removal
  can recover. After a crash between the two renames of an upgrade neither
  version is at the target, and every later sync refuses the item because of the
  unresolved journal. Only a DELETE ends that state.

Behaviours that a maintainer should know of, although no property is about them.
The first seven contradict a comment or a document.

- A `codex login` whose session was cancelled, reaped or timed out gets SIGTERM
  and two seconds. If it writes `~/.codex` in that time nobody announces it, and
  readiness keeps its verdict until it ages (`auth/credential-events.ts:5-7`).
- When the sync that an adopting approval starts cannot fetch the manifest, the
  grant stays in the lockfile until some later run uses it
  (`provision/sync.ts:2503-2504`).
- A client that disconnects while its images are decoded (`server/routes.ts:105`)
  is not noticed: the listener comes later, and the run goes on with nobody to
  receive it (`server/routes.ts:450-452`).
- A run can be recorded twice, as a success when its result is streamed and as a
  failure when the runner then concludes one (`usage/tracker.ts:117-119`).
- A completion that is not streamed can end the process. Its guards rely on
  `res.writable`, of which `server/routes.ts:514-515` says that it "is false once
  the client has disconnected"; in Node it stays true, after `end()` as well. When
  the claude CLI prints a success and its run then fails, "error" records a failure
  and answers, and "close" records a success and calls `res.json()` again, which
  throws `ERR_HTTP_HEADERS_SENT` inside the runner's `then()`. Its `catch()`
  (`adapter/paperclip-runner.ts:319-324`) emits "error" once more, which records a
  third time and throws again: an unhandled rejection, which ends the process and
  every other request with it. The same happens when `execute()` rejects after a
  success was printed. The model does this in `RunCatches`; `SuccessIsSuccess`
  holds nevertheless, as the first answer is the true one.
- For the same reason a plain run whose client has left and that fails without a
  result is recorded as a failure twice, by "error" and by "close"
  (`server/routes.ts:525`).
- After a retarget of a discovery link that a crash or failing save has cut short, a
  removal or DELETE is refused each time, since `assertRecordedSkillLinksRemovable`
  (`provision/sync.ts:1341`) takes one of the two links for a changed one, although
  `docs/provisioning.md:410-411` says that "an interrupted publication can be
  recovered or removed safely". Only a sync that wants the skill repairs it.
  `LinksConverge` excepts this state (`RefusesRemoval`).
- A run superseded during its last download of an unchanged item still removes
  what its own, older manifest dropped (`provision/sync.ts:2832`).
- A gateway that dies after writing a generation and before relaying its URL
  refuses older logins from then on, although nothing was registered for the
  newer one until its client polls again (`isolation/worker-proxy.ts:712`).
- `resetSessions()` removes the reservation of a start in flight, so its caller
  is told that a newer attempt superseded it, although
  `auth/session-manager.ts:198-199` says only a later start does that.
- `RetainedAreRecorded` exempts trees that somebody moved. If a rejected first
  installation is moved away just before it is isolated, the identity reserved
  for it is dropped from the list while the record keeps it
  (`provision/sync.ts:1849`); if it is moved back, the next sync isolates it
  under an identity that the lockfile no longer lists. Three acts of users. Two
  more can replace the tree by one of the user's in time for the same rename,
  which is the other case that is exempt (`Excused`); the proof shows that there
  is no third.
- `UninstallCompletes` exempts a skill whose removal was cut short by a crash
  and that somebody has put back by hand: the retry uses the same recovery path,
  finds it occupied, and fails each time (`provision/installer.ts:1316`).
- Repairing a skill with a missing file succeeds and is reported as failed
  (`provision/installer.ts:920`): the tree set aside does not have exactly the
  recorded paths.

- Usage: a plain request whose `start()` rejects, and a streaming run that exits
  with 0 and no result, record nothing. A crash during `writeFile` leaves a file
  that cannot be parsed and is silently replaced by an empty history; up to 5 s
  of records are lost at shutdown; records made before `load()` has finished are
  overwritten by it (`usage/tracker.ts:279`).
- When `mkdtemp` fails after the custom home was prepared, `start()` rejects
  without removing the home, which holds the gateway's key. A crash leaves decoded
  images behind.
- Provisioner: when `useradd` is killed between the account and its HOME, the
  identity can never be served; reservations of failed creations count against
  `maxUsers` for good.
- Configs: after a crash between rename and commit, an edit of `config.json`, or
  the deletion of the candidate, leaves a journal that no sync resolves; an
  aborted upgrade whose stable file a user edited keeps credential bytes in its
  candidate.
- Links: when the save of a new link fails and its rollback fails too, because the
  helper dies after the rename (`provision/rename-no-replace.ts:332`), the record
  keeps the new link and its intent while the old link is put back
  (`provision/sync.ts:1191-1203`, `1318-1322`, `1470`). The old link is then on no
  record (`Disowned`), and every later sync and removal of the skill is refused,
  as it takes that link for a user's; `LinksConverge` excepts this state too
  (`OldLinkIsBack`). The same follows if a user takes the new link before it is
  rolled back. A crash between rename and unlink leaves `.provision-link-*`, a dying
  helper `.provision-retained-*` behind. A user's own link with the right target at
  an intended path is adopted and later removed.
- Shutdown: `server.close()` waits for connections and not for handlers. A `start()`
  or `submit()` whose client has left may still run after `stopServer()`; it has
  been cancelled, and only an adapter that succeeds in spite of that could make a
  record, which `QuietWhenDown` allows for `LateResults`.

## Not modelled

- The migration of legacy install roots (`provision/sync.ts:1854-1952`,
  `1986-2344`), the removal of gateway state (`removeGatewayConfigState`), and git
  sources: the largest parts still open. In `ProvisionSync` installing an item is
  atomic.
- Making discovery directories, and directories that are replaced while a link is
  published in them.
- The processes behind `rename-no-replace.ts`: modelled is what a call of its
  helpers returns or leaves undecided.
- An unreadable lockfile. `loadState()` treats it as empty; the model's lockfile
  is always readable.
- Content of completions: messages, deltas, tool events; the list of models.
- Several workspaces: they share the process and nothing else.
- Conversions between OpenAI messages and CLI input and output, manifest
  parsing, URL and path policies, API keys and signatures, environment
  parsing, the auth UI: functions of their input without state.
- Upgrades in `ProvisionSync`: `InstalledFromRegistered` is about trees that
  appear. Whether an intact tree is replaced by a newer one of a publisher that was
  superseded meanwhile is not asked.
- Which manifest an operator had seen when approving: consent is taken where the
  approval executes (`provision/sync.ts:2956`).
- Timing. A timeout may fire at any moment it is armed.

## Plan

In this order.

1. The refinement by which an operation of `SkillInstall` that is not cut short is
   one of `ProvisionSync`'s atomic installs or removals.
2. The migration of legacy install roots.
