----------------------------- MODULE SkillLinks -----------------------------
(***************************************************************************)
(* The discovery links of one skill (src/src/provision/sync.ts): symbolic  *)
(* links in configured directories that point to the skill's canonical     *)
(* tree, published, retargeted and removed by runSync() with a record of   *)
(* each inode and of the one publication in progress in the lockfile.      *)
(*                                                                         *)
(* The links are changed without an await, but users may act in the        *)
(* directories between any two system calls.  A path stands for the        *)
(* skill's name in one discovery directory; no two are aliases.  A target  *)
(* is the canonical tree under one skills directory.  Random names are not *)
(* touched by users, and inode numbers are not reused.  The tree itself is *)
(* SkillInstall's; making the discovery directories is left out.           *)
(***************************************************************************)
EXTENDS Naturals, FiniteSets

CONSTANTS
  Path,
  Target,
  None,
  MaxInode,   \* bound: entries ever created
  MaxActs,    \* bound: acts of users in the directories
  MaxChanges, \* bound: new manifests and restarts with another configuration
  MaxFaults   \* bound: crashes, failing saves and helpers

Inode == 1..MaxInode

\* `skillLinks`, as pairs of a path and an inode whose target is known, and
\* `skillLinkPublication`.
Publication == [path : Path, target : Target]
Record == [links : SUBSET (Path \X Inode), publication : Publication \cup {None}]

\* "user" stands for content that is no link.
ASSUME LinksAssumption ==
  /\ None \notin Path \cup Target \cup Publication \cup Record
  /\ "user" \notin Target /\ Target # {}
  /\ {MaxInode, MaxActs, MaxChanges, MaxFaults} \subseteq Nat

NoLinks == [links |-> {}, publication |-> None]

VARIABLES
  entry,   \* path -> inode, 0 without one
  kind,    \* inode -> the target it links to, or "user" for other content
  ours,    \* history: inodes of symlinkAt(), but those a user moved or Disowned
  aside,   \* our or raced-in entries under random names
  inodes,  \* inodes in use
  lock,    \* the skill's record in the lockfile, or None
  want,    \* the skill is in the manifest
  conf,    \* skillLinkDirs() and skillsDir() of this process
  pc,      \* next step of the sync
  mem,     \* `state.installed[key]` of the sync
  owned,   \* desiredOwnership: path -> inode, 0 without one
  left,    \* paths still to do
  result,  \* links of the desired paths done
  obsolete,\* recorded links of no desired path, still to remove
  cur,     \* link at hand: its path, its recorded inode, and why it is moved
  hold,    \* inode the sync has moved aside
  failed,  \* the sync ends with an error
  had,     \* history: paths with a live link of ours when the sync began
  bounds

vars == <<entry, kind, ours, aside, inodes, lock, want, conf, pc, mem, owned, left, result,
          obsolete, cur, hold, failed, had, bounds>>
tree == <<entry, kind, ours, aside, inodes>>
plan == <<owned, left, result, obsolete>>
world == <<want, conf, had>>

NoLink == [path |-> None, inode |-> 0, why |-> "none"]

Spend(what, limit) == bounds[what] < limit /\ bounds' = [bounds EXCEPT ![what] = @ + 1]

\* The variables of a sync that has ended.
Rest ==
  /\ pc' = "idle"
  /\ mem' = None
  /\ owned' = [p \in Path |-> 0]
  /\ left' = {}
  /\ result' = {}
  /\ obsolete' = {}
  /\ cur' = NoLink
  /\ hold' = 0
  /\ failed' = FALSE
  /\ had' = {}

Init ==
  /\ entry = [p \in Path |-> 0]
  /\ kind = [k \in Inode |-> "user"]
  /\ ours = {}
  /\ aside = {}
  /\ inodes = 0
  /\ lock = None
  /\ want = TRUE
  /\ conf \in [dirs : SUBSET Path, target : {CHOOSE t \in Target : TRUE}]
  /\ pc = "idle"
  /\ mem = None
  /\ owned = [p \in Path |-> 0]
  /\ left = {}
  /\ result = {}
  /\ obsolete = {}
  /\ cur = NoLink
  /\ hold = 0
  /\ failed = FALSE
  /\ had = {}
  /\ bounds = [acts |-> 0, changes |-> 0, faults |-> 0]

-----------------------------------------------------------------------------
Present(p) == entry[p] # 0

\* sameSkillLinkIdentity()
Same(link) == entry[link[1]] = link[2]

\* adoptPublishedSkillLink(): any link with the right target.
Adoptable(publication) == kind[entry[publication.path]] = publication.target

\* A record in which the link of a path is replaced.
Linked(record, p, k) ==
  [links |-> {l \in record.links : l[1] # p} \cup {<<p, k>>}, publication |-> None]

Withdrawn(record) == [record EXCEPT !.publication = None]

\* The sync goes on with the link at hand unchanged.
Goes(step) == pc' = step /\ UNCHANGED <<cur, hold, failed>>

\* An error: what was recorded so far stays in memory, for the last save.
Fails == pc' = "save" /\ failed' = TRUE /\ UNCHANGED <<cur, hold>>

\* persist(): the sync goes on, or fails with what it has in memory.
Persists(record, step) ==
  /\ mem' = record
  /\ \/ lock' = record /\ Goes(step) /\ UNCHANGED bounds
     \/ Spend("faults", MaxFaults) /\ Fails /\ UNCHANGED lock

\* symlinkAt(): refuses an occupied path.
Linking(p, target) ==
  /\ inodes < MaxInode
  /\ inodes' = inodes + 1
  /\ entry' = [entry EXCEPT ![p] = inodes']
  /\ kind' = [kind EXCEPT ![inodes'] = target]
  /\ ours' = ours \cup {inodes'}
  /\ UNCHANGED aside

-----------------------------------------------------------------------------
(* An interrupted publication                                              *)

\* runSync() reaches the skill, or its removal.
Begins ==
  /\ pc = "idle"
  /\ want \/ lock # None
  /\ mem' = IF lock = None THEN NoLinks ELSE lock
  /\ had' = {p \in Path : entry[p] \in ours}
  /\ Goes(IF want THEN "finish" ELSE "check")
  /\ UNCHANGED <<tree, lock, plan, want, conf, bounds>>

\* A retained link of the path whose target is not the published one.
Retained(publication) ==
  \E l \in mem.links : l[2] = entry[publication.path] /\ kind[l[2]] # publication.target

\* finishSkillLinkPublication(), without a publication to finish ...
NothingToFinish ==
  /\ pc = "finish"
  /\ mem.publication = None
  /\ Goes("verify")
  /\ UNCHANGED <<tree, lock, mem, plan, bounds, world>>

\* ... or whose path is free, and no longer desired ...
StillDesired(publication) ==
  /\ want
  /\ publication.path \in conf.dirs
  /\ publication.target = conf.target

Withdraws ==
  /\ pc = "finish"
  /\ mem.publication # None
  /\ IF Present(mem.publication.path) THEN Retained(mem.publication)
     ELSE ~StillDesired(mem.publication)
  /\ Persists(Withdrawn(mem), "verify")
  /\ UNCHANGED <<tree, plan, world>>

\* Mutant of AdoptsLink: only links on record are ours.
AdoptsNothing ==
  /\ pc = "finish"
  /\ mem.publication # None
  /\ Present(mem.publication.path) /\ ~Retained(mem.publication)
  /\ Persists(Withdrawn(mem), "verify")
  /\ UNCHANGED <<tree, plan, world>>

\* ... or whose link is there, whoever made it ...
AdoptsLink ==
  /\ pc = "finish"
  /\ mem.publication # None
  /\ LET p == mem.publication.path
     IN  /\ Present(p) /\ ~Retained(mem.publication)
         /\ IF Adoptable(mem.publication)
            THEN Persists(Linked(mem, p, entry[p]), "verify")
            ELSE Fails /\ UNCHANGED <<lock, mem, bounds>>
  /\ UNCHANGED <<tree, plan, world>>

\* ... or that is published now.
Republishes ==
  /\ pc = "finish"
  /\ mem.publication # None
  /\ ~Present(mem.publication.path)
  /\ StillDesired(mem.publication)
  /\ Linking(mem.publication.path, mem.publication.target)
  /\ pc' = "adopt"
  /\ cur' = [path |-> mem.publication.path, inode |-> inodes', why |-> "finish"]
  /\ UNCHANGED <<lock, mem, plan, hold, failed, bounds, world>>

-----------------------------------------------------------------------------
(* ensureSkillLinks()                                                      *)

\* Desired paths get the recorded link whose inode they hold, or else the one
\* recorded for them.
Owner(p) ==
  LET matches == {l \in mem.links : entry[p] = l[2]}
      exact == {l \in mem.links : l[1] = p}
  IN  IF matches # {} THEN CHOOSE k \in Inode : \E l \in matches : l[2] = k
      ELSE IF exact # {} THEN CHOOSE k \in Inode : \E l \in exact : l[2] = k
      ELSE 0

Matched(l) == l[1] \in conf.dirs \/ \E p \in conf.dirs : entry[p] = l[2]

\* The whole destination set is verified before any link is changed.
Verifies ==
  /\ pc = "verify" /\ want
  /\ IF /\ \A p \in conf.dirs : Present(p) => entry[p] = Owner(p)
        /\ \A l \in mem.links : ~Matched(l) /\ Present(l[1]) => Same(l)
     THEN /\ owned' = [p \in Path |-> IF p \in conf.dirs THEN Owner(p) ELSE 0]
          /\ left' = conf.dirs
          /\ result' = {}
          /\ obsolete' = {l \in mem.links : ~Matched(l)}
          /\ Goes("paths")
     ELSE Fails /\ UNCHANGED plan
  /\ UNCHANGED <<tree, lock, mem, bounds, world>>

\* removeRecordedSkillLinks(): all of them, unless one is no longer the same.
TakesRecorded ==
  /\ pc = "verify" /\ ~want
  /\ obsolete' = mem.links
  /\ Goes("unlink")
  /\ UNCHANGED <<tree, lock, mem, owned, left, result, bounds, world>>

\* The next desired path: published, kept, retargeted or refused.
TakesPath(p) ==
  /\ pc = "paths"
  /\ p \in left
  /\ left' = left \ {p}
  /\ UNCHANGED <<tree, lock, mem, owned, obsolete, bounds, world>>
  /\ \/ /\ ~Present(p)
        /\ pc' = "intend"
        /\ cur' = [path |-> p, inode |-> owned[p], why |-> "publish"]
        /\ UNCHANGED <<result, hold, failed>>
     \/ /\ Present(p) /\ entry[p] # owned[p]
        /\ Fails
        /\ UNCHANGED result
     \/ /\ Present(p) /\ entry[p] = owned[p]
        /\ IF kind[owned[p]] = conf.target
           THEN result' = result \cup {<<p, owned[p]>>} /\ Goes("paths")
           ELSE /\ pc' = "retain"
                /\ cur' = [path |-> p, inode |-> owned[p], why |-> "retarget"]
                /\ UNCHANGED <<result, hold, failed>>

\* publishSkillLink(): the intent is saved before there is a link.
Intends ==
  /\ pc = "intend"
  /\ mem' = [mem EXCEPT !.publication = [path |-> cur.path, target |-> conf.target]]
  /\ lock' = mem'
  /\ Goes("link")
  /\ UNCHANGED <<tree, plan, bounds, world>>

\* The intent cannot be saved: it stays in memory, a link moved aside goes back.
IntentFails ==
  /\ pc = "intend"
  /\ Spend("faults", MaxFaults)
  /\ mem' = [mem EXCEPT !.publication = [path |-> cur.path, target |-> conf.target]]
  /\ Goes("undo")
  /\ UNCHANGED <<tree, lock, plan, world>>

\* createSkillLink()
Links ==
  /\ pc = "link"
  /\ ~Present(cur.path)
  /\ Linking(cur.path, conf.target)
  /\ pc' = "commit"
  /\ cur' = [cur EXCEPT !.inode = inodes']
  /\ UNCHANGED <<lock, mem, plan, hold, failed, bounds, world>>

\* The path was taken, or the helper failed without a link: no intent is left.
LinkFails ==
  /\ pc = "link"
  /\ \/ Present(cur.path) /\ UNCHANGED bounds
     \/ Spend("faults", MaxFaults)
  /\ mem' = Withdrawn(mem)
  /\ Goes("undo")
  /\ UNCHANGED <<tree, lock, plan, world>>

\* The helper died, and whether it made the link is not known.
LinkAmbiguous ==
  /\ pc = "link"
  /\ ~Present(cur.path)
  /\ Spend("faults", MaxFaults)
  /\ Linking(cur.path, conf.target) \/ UNCHANGED tree
  /\ Goes("rolled")
  /\ UNCHANGED <<lock, mem, plan, world>>

\* Mutant of Commits: the new link is recorded by the sync's last save.
CommitsInMemory ==
  /\ pc = "commit"
  /\ entry[cur.path] = cur.inode
  /\ mem' = Linked(mem, cur.path, cur.inode)
  /\ lock' = Withdrawn(mem)
  /\ result' = result \cup {<<cur.path, cur.inode>>}
  /\ Goes(IF hold = 0 THEN "paths" ELSE "discard")
  /\ UNCHANGED <<tree, owned, left, obsolete, bounds, world>>

\* The commit callback: the link's identity replaces the intent.
Commits ==
  /\ pc = "commit"
  /\ entry[cur.path] = cur.inode
  /\ result' = result \cup {<<cur.path, cur.inode>>}
  /\ mem' = Linked(mem, cur.path, cur.inode)
  /\ lock' = mem'
  /\ Goes(IF hold = 0 THEN "paths" ELSE "discard")
  /\ UNCHANGED <<tree, owned, left, obsolete, bounds, world>>

\* The same for a publication that was interrupted.
FinishesLink ==
  /\ pc = "adopt"
  /\ IF entry[cur.path] = cur.inode
     THEN Persists(Linked(mem, cur.path, cur.inode), "verify")
     ELSE Fails /\ UNCHANGED <<lock, mem, bounds>>
  /\ UNCHANGED <<tree, plan, world>>

\* The link is no longer what was made: it cannot be rolled back.
CommitRefused ==
  /\ pc = "commit"
  /\ entry[cur.path] # cur.inode
  /\ Goes("rolled")
  /\ UNCHANGED <<tree, lock, mem, plan, bounds, world>>

\* What is not answered for: a retargeted link that may go back off the record,
\* since the new one, which could not be saved, cannot be rolled back either (a
\* user took it, or the helper died) and stays on record in its place.
Disowned(p) == IF pc = "rollback" /\ cur.path = p THEN {hold} ELSE {}

\* The identity cannot be saved ...
CommitFails ==
  /\ pc = "commit"
  /\ entry[cur.path] = cur.inode
  /\ Spend("faults", MaxFaults)
  /\ Goes("rollback")
  /\ UNCHANGED <<tree, lock, mem, plan, world>>

\* ... and the link is removed by its identity, or stays with its intent.
RollsBack ==
  /\ pc = "rollback"
  /\ IF entry[cur.path] = cur.inode
     THEN /\ entry' = [entry EXCEPT ![cur.path] = 0]
          /\ mem' = Withdrawn(mem)
          /\ Goes("undo")
     ELSE /\ mem' = [Linked(mem, cur.path, cur.inode) EXCEPT !.publication = mem.publication]
          /\ Goes("rolled")
          /\ UNCHANGED entry
  /\ UNCHANGED <<kind, ours, aside, inodes, lock, plan, bounds, world>>

\* ... or the helper that removes it dies: the link is still there, or it is gone
\* or under a random name, and it stays on record with its intent all the same.
\* What made the save fail may be the cause: this is no fault of its own.
RollbackDies ==
  /\ pc = "rollback"
  /\ entry[cur.path] = cur.inode
  /\ \/ UNCHANGED <<entry, aside>>
     \/ /\ entry' = [entry EXCEPT ![cur.path] = 0]
        /\ aside' \in {aside, aside \cup {cur.inode}}
  /\ ours' = ours \ Disowned(cur.path)
  /\ mem' = [Linked(mem, cur.path, cur.inode) EXCEPT !.publication = mem.publication]
  /\ Goes("rolled")
  /\ UNCHANGED <<kind, inodes, lock, plan, bounds, world>>

\* Mutant of Undoes: the link that was moved aside is discarded.
UndoesNothing ==
  /\ pc \in {"undo", "rolled"}
  /\ aside' = aside \ {hold}
  /\ Fails
  /\ UNCHANGED <<entry, kind, ours, inodes, lock, mem, plan, bounds, world>>

\* A failed retarget: the old link is discarded if the new one is live, and
\* goes back where it was otherwise, if nothing is there.
Undoes ==
  /\ pc \in {"undo", "rolled"}
  /\ LET live == /\ pc = "rolled"
                 /\ mem.publication # None
                 /\ Present(mem.publication.path)
                 /\ Adoptable(mem.publication)
     IN  IF hold = 0 THEN UNCHANGED <<entry, aside>>
         ELSE IF live THEN aside' = aside \ {hold} /\ UNCHANGED entry
         ELSE IF Present(cur.path) THEN UNCHANGED <<entry, aside>>
         ELSE /\ entry' = [entry EXCEPT ![cur.path] = hold]
              /\ aside' = aside \ {hold}
  /\ Fails
  /\ UNCHANGED <<kind, ours, inodes, lock, mem, plan, bounds, world>>

-----------------------------------------------------------------------------
(* Moving a link aside, and removing it                                    *)

\* retainRecordedSkillLink(): whatever has the path is renamed ...
Retains ==
  /\ pc = "retain"
  /\ hold' = entry[cur.path]
  /\ entry' = [entry EXCEPT ![cur.path] = 0]
  /\ aside' = aside \cup ({entry[cur.path]} \ {0})
  /\ pc' = IF Present(cur.path) THEN "inspect"
           ELSE IF cur.why = "retarget" THEN "intend" ELSE "unlink"
  /\ UNCHANGED <<kind, ours, inodes, lock, mem, plan, cur, failed, bounds, world>>

\* Mutant of Inspects: what was moved is taken for the link.
InspectsNothing ==
  /\ pc = "inspect"
  /\ Goes(IF cur.why = "retarget" THEN "intend" ELSE "discard")
  /\ UNCHANGED <<tree, lock, mem, plan, bounds, world>>

\* ... and inspected: another entry goes back, or stays where it is.
Inspects ==
  /\ pc = "inspect"
  /\ IF hold = cur.inode
     THEN /\ Goes(IF cur.why = "retarget" THEN "intend" ELSE "discard")
          /\ UNCHANGED <<entry, aside>>
     ELSE /\ Fails
          /\ IF Present(cur.path) THEN UNCHANGED <<entry, aside>>
             ELSE /\ entry' = [entry EXCEPT ![cur.path] = hold]
                  /\ aside' = aside \ {hold}
  /\ UNCHANGED <<kind, ours, inodes, lock, mem, plan, bounds, world>>

\* discardRetainedSkillLink()
Discards ==
  /\ pc = "discard"
  /\ aside' = aside \ {hold}
  /\ hold' = 0
  /\ pc' = IF cur.why = "retarget" THEN "paths" ELSE "unlink"
  /\ UNCHANGED <<entry, kind, ours, inodes, lock, mem, plan, cur, failed, bounds, world>>

\* The desired paths are done: links of other paths go next.
PathsDone ==
  /\ pc = "paths"
  /\ left = {}
  /\ Goes("unlink")
  /\ UNCHANGED <<tree, lock, mem, plan, bounds, world>>

\* isolateRecordedSkillLink() of the next one.
TakesLink(l) ==
  /\ pc = "unlink"
  /\ l \in obsolete
  /\ obsolete' = obsolete \ {l}
  /\ pc' = "retain"
  /\ cur' = [path |-> l[1], inode |-> l[2], why |-> "remove"]
  /\ UNCHANGED <<tree, lock, mem, owned, left, result, hold, failed, bounds, world>>

\* None is left: an unchanged skill saves at once, an installed one does not;
\* a removed skill loses its record.
LinksDone ==
  /\ pc = "unlink"
  /\ obsolete = {}
  /\ mem' = IF want THEN [mem EXCEPT !.links = result] ELSE None
  /\ lock' \in {lock} \cup (IF want THEN {mem'} ELSE {})
  /\ Goes("save")
  /\ UNCHANGED <<tree, plan, bounds, world>>

-----------------------------------------------------------------------------
(* The removal of the skill, and the end of a sync                         *)

\* assertRecordedSkillLinksRemovable(), then the tree goes.
ChecksRemovable ==
  /\ pc = "check"
  /\ LET publication == mem.publication
     IN  IF /\ publication # None /\ Present(publication.path) => Adoptable(publication)
            /\ \A l \in mem.links : Present(l[1]) => Same(l)
         THEN Goes("finish")
         ELSE Fails
  /\ UNCHANGED <<tree, lock, mem, plan, bounds, world>>

\* The last saveState() of the sync.
Saves ==
  /\ pc = "save"
  /\ lock' = mem
  /\ Rest
  /\ UNCHANGED <<tree, want, conf, bounds>>

\* The process dies, or that save fails.
Dies ==
  /\ pc # "idle"
  /\ Spend("faults", MaxFaults)
  /\ Rest
  /\ UNCHANGED <<tree, lock, want, conf>>

-----------------------------------------------------------------------------
(* The operator, the publisher and the users of the directories            *)

\* Another manifest for the next sync, or a restart with other directories.
Changes ==
  /\ pc = "idle"
  /\ Spend("changes", MaxChanges)
  /\ \/ want' = ~want /\ UNCHANGED conf
     \/ conf' \in [dirs : SUBSET Path, target : Target] /\ conf' # conf /\ UNCHANGED want
  /\ UNCHANGED <<tree, lock, pc, mem, plan, cur, hold, failed, had>>

\* A user removes an entry, puts one there, or moves one.
UserActs ==
  /\ Spend("acts", MaxActs)
  /\ \/ \E p \in Path :
          /\ Present(p)
          /\ entry' = [entry EXCEPT ![p] = 0]
          /\ ours' = ours \ Disowned(p)
          /\ had' = had \ {p}
          /\ UNCHANGED <<kind, inodes>>
     \/ \E p \in Path, content \in {"user"} \cup Target :
          /\ inodes < MaxInode
          /\ inodes' = inodes + 1
          /\ entry' = [entry EXCEPT ![p] = inodes']
          /\ kind' = [kind EXCEPT ![inodes'] = content]
          /\ ours' = ours \ Disowned(p)
          /\ had' = had \ {p}
     \/ \E p, q \in Path :
          /\ Present(p) /\ ~Present(q)
          /\ entry' = [entry EXCEPT ![p] = 0, ![q] = entry[p]]
          /\ ours' = ours \ ({entry[p]} \cup Disowned(p))
          /\ had' = had \ {p, q}
          /\ UNCHANGED <<kind, inodes>>
  /\ UNCHANGED <<aside, lock, want, conf, pc, mem, plan, cur, hold, failed>>

RunStep ==
  \/ Begins \/ NothingToFinish \/ Withdraws \/ AdoptsLink \/ Republishes \/ FinishesLink
  \/ Verifies \/ TakesRecorded \/ PathsDone \/ LinksDone \/ ChecksRemovable \/ Saves
  \/ \E p \in Path : TakesPath(p)
  \/ \E l \in obsolete : TakesLink(l)
  \/ Intends \/ Links \/ LinkFails \/ Commits \/ CommitRefused \/ RollsBack \/ Undoes
  \/ Retains \/ Inspects \/ Discards

Next ==
  \/ RunStep
  \/ IntentFails \/ LinkAmbiguous \/ CommitFails \/ RollbackDies \/ Dies
  \/ Changes \/ UserActs

Spec == Init /\ [][Next]_vars

\* Syncs keep being asked for, and each comes to its end.
FairSpec == Spec /\ WF_vars(RunStep)

-----------------------------------------------------------------------------
TypeOK ==
  /\ entry \in [Path -> 0..MaxInode]
  /\ kind \in [Inode -> Target \cup {"user"}]
  /\ ours \cup aside \subseteq Inode
  /\ inodes \in 0..MaxInode
  /\ {lock, mem} \subseteq Record \cup {None}
  /\ conf \in [dirs : SUBSET Path, target : Target]
  /\ {want, failed} \subseteq BOOLEAN
  /\ pc \in {"idle", "finish", "adopt", "verify", "paths", "intend", "link", "commit",
             "rollback", "undo", "rolled", "retain", "inspect", "discard", "unlink",
             "check", "save"}
  /\ owned \in [Path -> 0..MaxInode]
  /\ left \cup had \subseteq Path
  /\ result \cup obsolete \subseteq Path \X Inode
  /\ cur \in [path : Path \cup {None}, inode : 0..MaxInode,
              why : {"none", "finish", "publish", "retarget", "remove"}]
  /\ hold \in 0..MaxInode

Recorded(p) ==
  /\ lock # None
  /\ \/ \E l \in lock.links : l[2] = entry[p]
     \/ lock.publication = [path |-> p, target |-> kind[entry[p]]]

\* A link the sync made is on record wherever it dies: nothing else removes or
\* retargets it later (sync.ts:1298-1300).  Only an old link goes off the record,
\* when the save and the rollback of the new one both fail.  The type invariant
\* comes first.
LinksAreRecorded ==
  /\ TypeOK
  /\ \A p \in Path : entry[p] \in ours => Recorded(p)

\* What users put at a link's path survives every race: no step of the sync
\* removes it, though it may leave it under a random name.
UsersEntriesSurvive ==
  [][pc' # pc =>
       \A k \in Inode :
         kind[k] = "user" /\ (k \in aside \/ \E p \in Path : entry[p] = k)
           => k \in aside' \/ \E p \in Path : entry'[p] = k]_vars

\* A sync that fails takes no discovery link away that is still desired, unless
\* a user touched its path meanwhile: a retarget that cannot be published goes
\* back (sync.ts:1395-1397 and 1449-1467).
FanoutStaysLive ==
  pc = "save" /\ failed /\ want =>
    \A p \in had \cap conf.dirs : Present(p) /\ kind[entry[p]] # "user"

\* A retarget was cut short: its intent is on record with the old link, and one
\* of the two is at the path.  The removal takes it for a user's, although
\* docs/provisioning.md:410-411 promises that it is removed safely.
RefusesRemoval ==
  /\ ~want
  /\ lock # None /\ lock.publication # None
  /\ LET publication == lock.publication
     IN  \E l \in lock.links :
           /\ l[1] = publication.path
           /\ Present(l[1])
           /\ ~Same(l) \/ ~Adoptable(publication)

\* A Disowned link went back: what is recorded for its path is not there, so no
\* sync changes anything again.
OldLinkIsBack == \E p \in Path : Present(p) /\ entry[p] \notin ours

\* While users leave the directories alone, syncs reach exactly the desired
\* links, on disk and on record, whatever was cut short before.  Excepted are
\* RefusesRemoval, out of which only a wanted skill gets, and OldLinkIsBack,
\* which takes a failing save and a helper that dies in the rollback.
LinksConverge ==
  []<>(\/ bounds.acts # 0
       \/ RefusesRemoval \/ OldLinkIsBack
       \/ /\ want /\ lock # None
          /\ lock.publication = None
          /\ lock.links = {<<p, entry[p]>> : p \in conf.dirs}
          /\ \A p \in Path :
               IF p \in conf.dirs THEN Present(p) /\ kind[entry[p]] = conf.target
               ELSE ~Present(p)
       \/ ~want /\ lock = None /\ \A p \in Path : ~Present(p))
=============================================================================
