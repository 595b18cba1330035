---------------------------- MODULE ProvisionSync ----------------------------
(***************************************************************************)
(* Manifest synchronization of one workspace (src/src/provision/sync.ts):  *)
(* a serialized queue of operations, a coalescing sync loop, a generation  *)
(* that supersedes runs for an older manifest URL, and a lockfile that     *)
(* outlives the process.                                                   *)
(*                                                                         *)
(* Everything between two awaits is one action.  A run awaits its manifest *)
(* fetch and then one download (or git resolution) per item it may apply.  *)
(* Installing and removing one item are atomic here; a crash inside a      *)
(* removal is UserDrifts followed by Crash.                                *)
(***************************************************************************)
EXTENDS Naturals, Sequences, FiniteSets

CONSTANTS
  Item,          \* manifest item keys, `type/name`
  ConfigItem,    \* the items of type config; the others are skills
  URL,           \* manifest URLs
  Pinned,        \* PROVISION_MANIFEST_URL, or None
  None,
  MaxGeneration, \* bound: URL changes per process
  MaxQueue       \* bound: operations queued by requests at one time

ASSUME ConstantsAssumption ==
  /\ ConfigItem \subseteq Item
  /\ None \notin Item \cup URL
  /\ Pinned \in URL \cup {None}
  /\ MaxGeneration \in Nat \ {0}
  /\ MaxQueue \in Nat \ {0}

VARIABLES
  server,        \* "up", "stopping" (shutdownProvisioning waits) or "down"
  auto,          \* PROVISION_AUTOAPPLY=auto, read when the process starts
  url,           \* manifestUrl
  generation,    \* manifestGeneration
  manifest,      \* items of lastManifest; None unless it is of this generation
  loop,          \* inFlight: "idle", "running", or "ending" (see LoopEnds)
  syncRequested, \* another turn of the loop is owed
  queue,         \* operationTail: the operations not yet started
  run,           \* the runSync() in progress, or None
  fastMode,      \* the URL codexFastMode was taken from, or None (off)
  lock,          \* the lockfile on disk
  savedUrl,      \* the registered URL on disk
  tree,          \* items whose recorded files are present and intact
  foreign,       \* items at whose path there is content nobody recorded
  consented,     \* history: names the operator, or auto mode, has let in
  deleted,       \* history: names DELETEd and still asked for by the manifest
  granted,       \* history: adoptions the operator asked for and not yet tried
  unsynced       \* history: a request is owed a sync that has not started

memoryVars  == <<url, generation, manifest, loop, syncRequested, queue, run, fastMode>>
diskVars    == <<lock, savedUrl, tree, foreign>>
historyVars == <<consented, deleted, granted, unsynced>>
vars == <<server, auto, memoryVars, diskVars, historyVars>>

LockFile == [installed : SUBSET Item, approved : SUBSET Item,
             revoked : SUBSET Item, adopted : SUBSET ConfigItem]
Sync(g) == [kind |-> "sync", gen |-> g]
Op == [kind : {"sync"}, gen : 1..MaxGeneration]
      \cup [kind : {"approve"}, item : Item, gen : 1..MaxGeneration, adopt : BOOLEAN]
      \cup [kind : {"delete"}, item : Item]
\* `at` is the item awaited, None during the fetch; `mem` the lockfile as this
\* run has read and changed it; `adopt` the authority the awaited item carries.
Run == [url : URL, gen : 1..MaxGeneration, want : SUBSET Item, todo : SUBSET Item,
        at : Item \cup {None}, adopt : BOOLEAN, mem : LockFile]

EmptyLock == [installed |-> {}, approved |-> {}, revoked |-> {}, adopted |-> {}]

\* freshRuntime(), for a runtime that registered u and started its first sync.
Booted(u) ==
  /\ url' = u
  /\ generation' = IF u = None THEN 0 ELSE 1
  /\ loop' = IF u = None THEN "idle" ELSE "running"
  /\ queue' = IF u = None THEN <<>> ELSE <<Sync(1)>>
  /\ manifest' = None /\ syncRequested' = FALSE /\ run' = None /\ fastMode' = None
  /\ unsynced' = (u # None)

Init ==
  /\ server = "down"
  /\ auto \in BOOLEAN
  /\ url = None /\ generation = 0 /\ manifest = None
  /\ loop = "idle" /\ syncRequested = FALSE /\ queue = <<>> /\ run = None
  /\ fastMode = None
  /\ lock = EmptyLock /\ savedUrl = None /\ tree = {} /\ foreign = {}
  /\ consented = {} /\ deleted = {} /\ granted = {} /\ unsynced = FALSE

----------------------------------------------------------------------------
(***************************************************************************)
(* Requests                                                                *)
(***************************************************************************)
\* Requests run as tasks of their own: they are accepted until shutdown, and
\* not between the microtasks in which a loop settles.
Accepting == server = "up" /\ loop # "ending"
Room == Len(queue) < MaxQueue

\* syncNow(), after the operations q: join the loop in flight or start one.
SyncNow(q, g, flag) ==
  IF loop = "idle"
  THEN loop' = "running" /\ syncRequested' = FALSE /\ queue' = Append(q, Sync(g))
  ELSE loop' = loop /\ syncRequested' = (syncRequested \/ flag) /\ queue' = q

\* POST /v1/provision/manifest and handleAuthorizedSession(): register u, then
\* syncNow() before anything else can run.
RegisterAndSync(u) ==
  /\ Accepting /\ Room
  /\ Pinned \in {None, u}
  /\ u # url => generation < MaxGeneration
  /\ savedUrl' = IF Pinned = None THEN u ELSE savedUrl
  /\ url' = u
  /\ IF u = url
     THEN UNCHANGED <<generation, manifest, fastMode>>
     ELSE generation' = generation + 1 /\ manifest' = None /\ fastMode' = None
  /\ SyncNow(queue, generation', u # url)
  /\ unsynced' = (unsynced \/ u # url)
  /\ UNCHANGED <<server, auto, run, lock, tree, foreign, consented, deleted, granted>>

\* POST /v1/provision/sync and the refetch timer.
RequestSync ==
  /\ Accepting /\ Room
  /\ url # None
  /\ SyncNow(queue, generation, FALSE)
  /\ UNCHANGED <<server, auto, url, generation, manifest, run, fastMode,
                 diskVars, historyVars>>

\* Only names of the manifest of this generation can be approved.
Listed(i, g) == g = generation /\ manifest # None /\ i \in manifest

\* approveItem() up to its serialize().
RequestApprove(i, adopt) ==
  /\ Accepting /\ Room
  /\ adopt => i \in ConfigItem
  /\ Listed(i, generation)
  /\ queue' = Append(queue, [kind |-> "approve", item |-> i,
                             gen |-> generation, adopt |-> adopt])
  /\ syncRequested' = (syncRequested \/ loop = "running")
  /\ UNCHANGED <<server, auto, url, generation, manifest, loop, run, fastMode,
                 diskVars, historyVars>>

\* Mutant of Revoked: the approval outlives the revocation.
RevokedKeepsApproval(l, i) ==
  [l EXCEPT !.installed = @ \ {i}, !.revoked = @ \cup {i}, !.adopted = @ \ {i}]

\* deleteItem()'s lockfile update: revoked, so auto mode cannot undo it.
Revoked(l, i) ==
  [installed |-> l.installed \ {i}, approved |-> l.approved \ {i},
   revoked |-> l.revoked \cup {i}, adopted |-> l.adopted \ {i}]

\* Mutant of RequestDelete: mutates at once instead of waiting its turn.
RequestDeleteAtOnce(i) ==
  /\ Accepting /\ Room
  /\ lock' = Revoked(lock, i)
  /\ tree' = tree \ {i}
  /\ consented' = consented \ {i} /\ granted' = granted \ {i}
  /\ deleted' = deleted \cup {i}
  /\ syncRequested' = (syncRequested \/ loop = "running")
  /\ UNCHANGED <<server, auto, url, generation, manifest, loop, queue, run, fastMode,
                 savedUrl, foreign, unsynced>>

\* deleteItem() up to its serialize().
RequestDelete(i) ==
  /\ Accepting /\ Room
  /\ queue' = Append(queue, [kind |-> "delete", item |-> i])
  /\ syncRequested' = (syncRequested \/ loop = "running")
  /\ UNCHANGED <<server, auto, url, generation, manifest, loop, run, fastMode,
                 diskVars, historyVars>>

----------------------------------------------------------------------------
(***************************************************************************)
(* The queue                                                               *)
(***************************************************************************)
NextIs(kind) == run = None /\ queue # <<>> /\ Head(queue).kind = kind

\* The serialized half of approveItem(), and the syncNow() it returns, which
\* refuses once shutdown has begun.
ExecApprove ==
  /\ NextIs("approve")
  /\ LET op == Head(queue) IN
     IF Listed(op.item, op.gen)
     THEN /\ lock' = [lock EXCEPT !.revoked = @ \ {op.item},
                                  !.approved = @ \cup {op.item},
                                  !.adopted = IF op.adopt THEN @ \cup {op.item} ELSE @]
          /\ consented' = consented \cup {op.item}
          /\ deleted' = deleted \ {op.item}
          /\ granted' = IF op.adopt THEN granted \cup {op.item} ELSE granted
          /\ unsynced' = TRUE
          /\ IF server = "up"
             THEN SyncNow(Tail(queue), generation, FALSE)
             ELSE queue' = Tail(queue) /\ UNCHANGED <<loop, syncRequested>>
     ELSE /\ queue' = Tail(queue)
          /\ UNCHANGED <<loop, syncRequested, lock, historyVars>>
  /\ UNCHANGED <<server, auto, url, generation, manifest, run, fastMode,
                 savedUrl, tree, foreign>>

\* The serialized half of deleteItem().  An installed item whose files cannot
\* be removed safely keeps everything as it was.
ExecDelete ==
  /\ NextIs("delete")
  /\ LET i == Head(queue).item IN
     \/ /\ lock' = Revoked(lock, i)
        /\ tree' = tree \ {i}
        /\ consented' = consented \ {i} /\ granted' = granted \ {i}
        /\ deleted' = deleted \cup {i}
     \/ /\ i \in lock.installed
        /\ UNCHANGED <<lock, tree, consented, granted, deleted>>
  /\ queue' = Tail(queue)
  /\ UNCHANGED <<server, auto, url, generation, manifest, loop, syncRequested, run,
                 fastMode, savedUrl, foreign, unsynced>>

\* runSync() up to its fetch: the URL is the one registered by now, the
\* generation the one at the time this turn was queued.
StartSync ==
  /\ NextIs("sync")
  /\ run' = [url |-> url, gen |-> Head(queue).gen, want |-> {}, todo |-> {},
             at |-> None, adopt |-> FALSE, mem |-> EmptyLock]
  /\ queue' = Tail(queue)
  /\ unsynced' = (unsynced /\ Head(queue).gen # generation)
  /\ UNCHANGED <<server, auto, url, generation, manifest, loop, syncRequested,
                 fastMode, diskVars, consented, deleted, granted>>

----------------------------------------------------------------------------
(***************************************************************************)
(* One run                                                                 *)
(***************************************************************************)
\* Mutants of EndRun: a superseded run ends the loop; the flag is never reset.
EndRunSurfacesError ==
  /\ run' = None
  /\ IF run.gen = generation /\ syncRequested
     THEN syncRequested' = FALSE /\ queue' = Append(queue, Sync(generation))
          /\ UNCHANGED loop
     ELSE loop' = "ending" /\ UNCHANGED <<syncRequested, queue>>
EndRunKeepsFlag ==
  /\ run' = None
  /\ IF run.gen # generation \/ syncRequested
     THEN queue' = Append(queue, Sync(generation)) /\ UNCHANGED <<syncRequested, loop>>
     ELSE loop' = "ending" /\ UNCHANGED <<syncRequested, queue>>

\* The loop after runSync() settled, however it did: turn again or settle.
EndRun ==
  /\ run' = None
  /\ IF run.gen # generation \/ syncRequested
     THEN syncRequested' = FALSE /\ queue' = Append(queue, Sync(generation))
          /\ UNCHANGED loop
     ELSE loop' = "ending" /\ UNCHANGED <<syncRequested, queue>>

\* Items the loop over the manifest will wait for: approved ones, unless the
\* content at a first install's path is somebody else's.
Candidates(r) ==
  {i \in r.todo \ r.mem.revoked :
     /\ auto \/ i \in r.mem.approved \/ i \in r.mem.installed
     /\ i \in ConfigItem \/ i \in r.mem.installed \/ i \notin foreign}

\* Mutant of Park: the grant is consumed in memory only.
ParkUnsaved(r, l, t) ==
  /\ \E i \in Candidates(r) :
       run' = [r EXCEPT !.at = i, !.todo = @ \ {i}, !.adopt = i \in r.mem.adopted,
                        !.mem.adopted = @ \ {i}]
  /\ lock' = l
  /\ tree' = t
  /\ UNCHANGED <<loop, syncRequested, queue, fastMode, deleted>>

\* The run r goes on to its next item, with l and t on disk.  An adoption
\* grant is consumed, durably, before the attempt it authorizes.
Park(r, l, t) ==
  /\ \E i \in Candidates(r) :
       LET spent == [r.mem EXCEPT !.adopted = @ \ {i}] IN
       /\ run' = [r EXCEPT !.at = i, !.todo = @ \ {i},
                           !.adopt = i \in r.mem.adopted, !.mem = spent]
       /\ lock' = IF i \in r.mem.adopted THEN spent ELSE l
  /\ tree' = t
  /\ UNCHANGED <<loop, syncRequested, queue, fastMode, deleted>>

\* Nothing is left to apply: remove what the manifest dropped, each removal
\* succeeding or not, and publish the outcome unless it was superseded.  The
\* removal of a skill saves the run's lockfile before it touches the files.
Finish(r, l, t) ==
  LET dropped == r.mem.installed \ r.want IN
  /\ Candidates(r) = {}
  /\ \E gone \in SUBSET dropped :
       /\ tree' = t \ gone
       /\ lock' = IF r.gen = generation
                  THEN [installed |-> r.mem.installed \ gone,
                        approved |-> r.mem.approved,
                        revoked |-> r.mem.revoked \cap r.want,
                        adopted |-> r.mem.adopted \cap r.want]
                  ELSE IF dropped \subseteq ConfigItem THEN l ELSE r.mem
  /\ IF r.gen = generation
     THEN fastMode' \in {None, r.url} /\ deleted' = deleted \cap r.want
     ELSE UNCHANGED <<fastMode, deleted>>
  /\ EndRun

Proceed(r, l, t) == Park(r, l, t) \/ Finish(r, l, t)

\* The manifest arrives, with whatever the publisher lists today.
FetchOk(items) ==
  /\ run # None /\ run.at = None
  /\ IF run.gen = generation
     THEN /\ manifest' = items
          /\ Proceed([run EXCEPT !.want = items, !.todo = items, !.mem = lock], lock, tree)
     ELSE /\ EndRun
          /\ UNCHANGED <<manifest, fastMode, lock, tree, deleted>>
  /\ UNCHANGED <<server, auto, url, generation, savedUrl, foreign, consented, granted, unsynced>>

\* Unreachable, refused or malformed.
FetchFails ==
  /\ run # None /\ run.at = None
  /\ EndRun
  /\ UNCHANGED <<server, auto, url, generation, manifest, fastMode, diskVars, historyVars>>

AtItem == run # None /\ run.at # None
Tried == granted' = IF run.adopt THEN granted \ {run.at} ELSE granted

\* The item is installed and intact: nothing to do.  For a skill this saves
\* the run's lockfile; for neither does it ask for the generation.
ItemUnchanged ==
  /\ AtItem
  /\ run.at \in run.mem.installed \cap tree
  /\ Proceed(run, IF run.at \in ConfigItem THEN lock ELSE run.mem, tree)
  /\ Tried
  /\ UNCHANGED <<server, auto, url, generation, manifest, savedUrl, foreign,
                 consented, unsynced>>

\* A failed download, a refused archive, foreign content at the path: one
\* item failing does not stop the others.
ItemFails ==
  /\ AtItem
  /\ \E l \in {lock, run.mem} : Proceed(run, l, tree)
  /\ Tried
  /\ UNCHANGED <<server, auto, url, generation, manifest, savedUrl, foreign,
                 consented, unsynced>>

\* Mutant of ItemInstalled: no second look at the generation after the download.
ItemInstalledUnchecked ==
  /\ AtItem
  /\ run.at \in foreign => run.at \in ConfigItem /\ run.adopt
  /\ LET i == run.at
         owned == [run.mem EXCEPT !.installed = @ \cup {i}]
     IN
     /\ Proceed([run EXCEPT !.mem = [owned EXCEPT !.approved = @ \cup {i}]],
                owned, tree \cup {i})
     /\ foreign' = foreign \ {i}
     /\ consented' = consented \cup {i}
  /\ Tried
  /\ UNCHANGED <<server, auto, url, generation, manifest, savedUrl, unsynced>>

\* Mutant of ItemInstalled: the files appear before the lockfile owns them.
ItemInstalledUnowned ==
  /\ AtItem
  /\ run.gen = generation
  /\ run.at \in foreign => run.at \in ConfigItem /\ run.adopt
  /\ LET i == run.at IN
     /\ Proceed([run EXCEPT !.mem.installed = @ \cup {i}, !.mem.approved = @ \cup {i}],
                lock, tree \cup {i})
     /\ foreign' = foreign \ {i}
     /\ consented' = consented \cup {i}
  /\ Tried
  /\ UNCHANGED <<server, auto, url, generation, manifest, savedUrl, unsynced>>

\* The artifact is there.  beforeMutation asks for the generation once more;
\* from there to the end of this item no other code runs, and beforeCommit
\* records the ownership before the files appear.
ItemInstalled ==
  /\ AtItem
  /\ run.gen = generation
  /\ run.at \in foreign => run.at \in ConfigItem /\ run.adopt
  /\ LET i == run.at
         owned == [run.mem EXCEPT !.installed = @ \cup {i}]
     IN
     /\ Proceed([run EXCEPT !.mem = [owned EXCEPT !.approved = @ \cup {i}]],
                owned, tree \cup {i})
     /\ foreign' = foreign \ {i}
     /\ consented' = consented \cup {i}
  /\ Tried
  /\ UNCHANGED <<server, auto, url, generation, manifest, savedUrl, unsynced>>

\* beforeMutation finds the run superseded: nothing of this item happens.
ItemSuperseded ==
  /\ AtItem
  /\ run.gen # generation
  /\ lock' \in {lock, run.mem}
  /\ EndRun
  /\ Tried
  /\ UNCHANGED <<server, auto, url, generation, manifest, fastMode, savedUrl,
                 tree, foreign, consented, deleted, unsynced>>

\* The last microtasks of the loop: only now is inFlight null again, while an
\* operation queued behind the run may already have had its turn.
LoopEnds ==
  /\ loop = "ending"
  /\ loop' = "idle"
  /\ UNCHANGED <<server, auto, url, generation, manifest, syncRequested, queue, run,
                 fastMode, diskVars, historyVars>>

----------------------------------------------------------------------------
(***************************************************************************)
(* The process and the user                                                *)
(***************************************************************************)
\* initProvisioning(), with the first access of the workspace: a pinned URL,
\* else the saved one, is synced at once.
Start ==
  /\ server = "down"
  /\ server' = "up"
  /\ auto' \in BOOLEAN
  /\ Booted(IF Pinned # None THEN Pinned ELSE savedUrl)
  /\ UNCHANGED <<diskVars, consented, deleted, granted>>

\* shutdownProvisioning() up to its awaits.
ShutdownBegins ==
  /\ Accepting
  /\ server' = "stopping"
  /\ UNCHANGED <<auto, memoryVars, diskVars, historyVars>>

\* clearProvisioningState().
ForgetMemory ==
  /\ url' = None /\ generation' = 0 /\ manifest' = None /\ loop' = "idle"
  /\ syncRequested' = FALSE /\ queue' = <<>> /\ run' = None /\ fastMode' = None
  /\ unsynced' = FALSE

\* The loop and then the queue have drained.
ShutdownEnds ==
  /\ server = "stopping"
  /\ loop = "idle" /\ queue = <<>>
  /\ server' = "down"
  /\ ForgetMemory
  /\ UNCHANGED <<auto, diskVars, consented, deleted, granted>>

\* The process dies at any await; the disk stays.
Crash ==
  /\ server # "down"
  /\ server' = "down"
  /\ ForgetMemory
  /\ granted' = IF run # None /\ run.adopt THEN granted \ {run.at} ELSE granted
  /\ UNCHANGED <<auto, diskVars, consented, deleted>>

\* Installed files get lost or modified.
UserDrifts(i) ==
  /\ i \in tree
  /\ tree' = tree \ {i}
  /\ UNCHANGED <<server, auto, memoryVars, lock, savedUrl, foreign, historyVars>>

\* A user keeps content of their own where an item would go.
UserWrites(i) ==
  /\ i \notin tree \cup lock.installed \cup foreign
  /\ foreign' = foreign \cup {i}
  /\ UNCHANGED <<server, auto, memoryVars, lock, savedUrl, tree, historyVars>>

----------------------------------------------------------------------------
Next ==
  \/ \E u \in URL : RegisterAndSync(u)
  \/ RequestSync
  \/ \E i \in Item, adopt \in BOOLEAN : RequestApprove(i, adopt)
  \/ \E i \in Item : RequestDelete(i)
  \/ ExecApprove
  \/ ExecDelete
  \/ StartSync
  \/ \E items \in SUBSET Item : FetchOk(items)
  \/ FetchFails
  \/ ItemUnchanged
  \/ ItemFails
  \/ ItemInstalled
  \/ ItemSuperseded
  \/ LoopEnds
  \/ Start
  \/ ShutdownBegins
  \/ ShutdownEnds
  \/ Crash
  \/ \E i \in Item : UserDrifts(i)
  \/ \E i \in Item : UserWrites(i)

Spec == Init /\ [][Next]_vars

\* Fetches and downloads settle within their timeouts (30 s and 120 s), and
\* queued promises run.  Nothing is assumed of requests, users or restarts.
Fairness ==
  /\ WF_vars(ExecApprove)
  /\ WF_vars(ExecDelete)
  /\ WF_vars(StartSync)
  /\ WF_vars(FetchFails \/ \E items \in SUBSET Item : FetchOk(items))
  /\ WF_vars(ItemUnchanged \/ ItemFails \/ ItemInstalled \/ ItemSuperseded)
  /\ WF_vars(LoopEnds)
  /\ WF_vars(ShutdownEnds)

FairSpec == Spec /\ Fairness

----------------------------------------------------------------------------
(***************************************************************************)
(* Properties                                                              *)
(***************************************************************************)
\* Types of the runtime, the lockfile and the queue; a run has a URL.
TypeOK ==
  /\ server \in {"up", "stopping", "down"}
  /\ auto \in BOOLEAN
  /\ url \in URL \cup {None}
  /\ generation \in 0..MaxGeneration
  /\ manifest = None \/ manifest \in SUBSET Item
  /\ loop \in {"idle", "running", "ending"}
  /\ syncRequested \in BOOLEAN
  /\ queue \in Seq(Op)
  /\ run = None \/ run \in Run
  /\ fastMode \in URL \cup {None}
  /\ lock \in LockFile
  /\ savedUrl \in URL \cup {None}
  /\ tree \in SUBSET Item
  /\ foreign \in SUBSET Item
  /\ consented \in SUBSET Item
  /\ deleted \in SUBSET Item
  /\ granted \in SUBSET ConfigItem
  /\ unsynced \in BOOLEAN

\* The ownership boundary: managed files exist only under a lockfile record,
\* whenever the process may die, so a later removal or upgrade knows them.
\* The type invariant is its first conjunct.
OwnedOnDisk ==
  /\ TypeOK
  /\ tree \subseteq lock.installed

\* Outside auto mode files appear only for a name the operator approved, or
\* that auto mode once installed, and has not DELETEd since: also when the
\* approval, the DELETE and the download overlap, and across restarts.
ConsentedInstalls ==
  [][\A i \in tree' \ tree : auto \/ i \in consented]_vars

\* "Auto mode must not undo an explicit DELETE" (sync.ts:3019): while manifests
\* keep listing the item only an approval brings it back.  A run that loaded
\* the lockfile before the DELETE cannot do it either.
DeleteIsNotUndone ==
  [][\A i \in tree' \ tree : i \notin deleted]_vars

\* Whatever was registered during a fetch or a download, files come from the
\* URL that is registered when they appear.
InstalledFromRegistered ==
  [][tree' \subseteq tree \/ run.url = url]_vars

\* Content nobody recorded is replaced only under an adoption the operator
\* asked for and that no earlier attempt, failed, superseded or cut short by a
\* crash, has used (sync.ts:2503-2504).
AdoptionIsOneShot ==
  [][\A i \in foreign \ foreign' : i \in granted]_vars

\* An approval or a new URL gets its sync, or the process stops.
RequestsServed == unsynced ~> (~unsynced \/ server # "up")

\* A shutdown ends, whatever was in flight and queued when it began.
ShutdownCompletes == server = "stopping" ~> server = "down"
=============================================================================
