---------------------------- MODULE SkillInstall ----------------------------
(***************************************************************************)
(* One skill of one workspace on disk: installation, upgrade, removal and  *)
(* the journals that let a later sync finish what a crash interrupted      *)
(* (src/src/provision/installer.ts and the skill part of sync.ts).         *)
(*                                                                         *)
(* The proxy runs one operation at a time, without an await except for the *)
(* download; but every rename and every lockfile write is a step here,     *)
(* since the process can die after it and since users of the machine move  *)
(* and edit directories in between.                                        *)
(***************************************************************************)
EXTENDS Naturals, FiniteSets

CONSTANTS
  File,        \* relative paths a skill may contain
  Version,     \* the sources the manifest can ask for (fingerprints)
  Content,     \* Version -> File -> hash, or None where the file is absent
  None,
  target,      \* the pathname of the skill
  candidate,   \* the pathname of the tree being prepared
  elsewhere,   \* a pathname only users know
  MaxId,       \* bound: recovery identities in use at one time
  MaxTree,     \* bound: directory trees that exist at one time
  MaxUser,     \* bound: what users of the machine do
  MaxCrash,    \* bound: crashes
  MaxChange    \* bound: changes of the manifest

Marker == "marker"   \* the .provision-install-<random> file
Name == File \cup {Marker}
Hash == UNION {{Content[v][f] : f \in File} : v \in Version} \ {None}

Id == 1..MaxId
Tree == 1..MaxTree

Listing == [Name -> Hash \cup {"user", Marker, None}]
Snapshot == [ver : Version, has : Listing]
Record ==
  [snap : Snapshot, pending : Snapshot \cup {None}, uncommitted : BOOLEAN,
   ident : Tree \cup {None}, marker : BOOLEAN, reject : Id \cup {None},
   removal : Id \cup {None}]

\* No archive is installed that has no file (installer.ts:741-743), and a value
\* stands for one thing only.
ASSUME ConstantsAssumption ==
  /\ Marker \notin File
  /\ Content \in [Version -> [File -> Hash \cup {None}]]
  /\ {"user", Marker} \cap Hash = {} /\ None \notin {"user", Marker}
  /\ \A v \in Version : \E f \in File : Content[v][f] # None
  /\ None \notin Version \cup Tree \cup Id \cup Snapshot \cup Record
  /\ Cardinality({target, candidate, elsewhere}) = 3
  /\ {target, candidate, elsewhere} \cap Id = {}
  /\ MaxId \in Nat /\ MaxTree \in Nat /\ MaxUser \in Nat
  /\ MaxCrash \in Nat /\ MaxChange \in Nat

VARIABLES
  at,       \* pathname -> the tree (the inode) found there, or None
  files,    \* tree -> the hash of each file, None where absent
  lock,     \* the lockfile on disk
  mem,      \* the lockfile as the running operation has read and changed it
  op,       \* the running operation: where it is and what it holds
  want,     \* the version desired and approved, None if the item is not
  user,     \* what users may still do
  crashes,  \* how often the process may still die
  changes,  \* how often the manifest may still change
  mine,     \* history: trees the proxy extracted
  edited,   \* history: trees a user edited or made
  moved     \* history: trees a user moved

vars == <<at, files, lock, mem, op, want, user, crashes, changes, mine, edited, moved>>

\* A recovery identity stands for its hidden path .provision-<kind>-<id>: it is
\* drawn for one removal, one upgrade or one rejection.
Place == {target, candidate, elsewhere} \cup Id

LockFile == [rec : Record \cup {None}, removals : SUBSET Id, upgrades : SUBSET Id]
Pc == {"idle", "reconcile", "isolate", "restore", "marker", "item", "download",
       "commit", "expose", "aside", "audit", "swap", "verify", "retain", "publish",
       "fail", "final", "remove", "removeMove", "removeBack", "drop", "forget"}
\* `tree` is the candidate, or the target a removal has audited; `up` and `rej`
\* are the preclaimed recoveries; `strict` is requireVerifiedOwnership.
Op == [pc : Pc, kind : {"sync", "delete"}, stage : {"begin", "install"},
       want : Version \cup {None}, tree : Tree \cup {None},
       up : Id \cup {None}, rej : Id \cup {None}, strict : BOOLEAN]

Idle == [pc |-> "idle", kind |-> "sync", stage |-> "begin", want |-> None,
         tree |-> None, up |-> None, rej |-> None, strict |-> FALSE]
EmptyLock == [rec |-> None, removals |-> {}, upgrades |-> {}]
Nothing == [n \in Name |-> None]

Init ==
  /\ at = [p \in Place |-> None]
  /\ files = [t \in Tree |-> Nothing]
  /\ lock = EmptyLock /\ mem = EmptyLock
  /\ op = Idle
  /\ want = None
  /\ user = MaxUser /\ crashes = MaxCrash /\ changes = MaxChange
  /\ mine = {} /\ edited = {} /\ moved = {}

\* Neither the disk nor the proxy's own state.
budgets == <<want, user, crashes, changes, edited, moved>>

(***************************************************************************)
(* Helpers                                                                 *)
(***************************************************************************)
Target == at[target]
Of(v) == [n \in Name |-> IF n = Marker THEN None ELSE Content[v][n]]
SnapshotOf(v) == [ver |-> v, has |-> Of(v)]
Marked(s) == [s EXCEPT !.has[Marker] = Marker]
Paths(s) == {n \in Name : s.has[n] # None}
Least(S) == CHOOSE x \in S : \A y \in S : x <= y

\* stableSnapshot(): a record without any journal.
Plain(s) == [snap |-> s, pending |-> None, uncommitted |-> FALSE, ident |-> None,
             marker |-> FALSE, reject |-> None, removal |-> None]
Snapshots(rec) == {rec.snap, rec.pending} \ {None}

\* Identities and inodes that neither the disk nor a journal refers to.
FreshTrees ==
  Tree \ ({at[p] : p \in Place} \cup {op.tree}
          \cup {l.rec.ident : l \in {k \in {lock, mem} : k.rec # None}})
FreshIds ==
  {i \in Id : at[i] = None}
    \ UNION {l.removals \cup l.upgrades \cup
             (IF l.rec = None THEN {} ELSE {l.rec.removal, l.rec.reject}) : l \in {lock, mem}}

\* installedSnapshotMatchesEntireTreeAt, installedSnapshotIntactAt,
\* hasUntrackedContent and managedTreeHasVerifiedOwnedFile.
MatchesEntirely(t, s) == t # None /\ files[t] = s.has
Intact(t, s) == t # None /\ \A n \in Paths(s) : files[t][n] = s.has[n]
HasUntracked(t, paths) == t # None /\ \E n \in Name \ paths : files[t][n] # None
HasOwnedFile(t, snaps) ==
  t # None /\ \E s \in snaps : \E n \in Paths(s) : files[t][n] = s.has[n]

\* Mutant of Vacant: rename(2), which replaces what it finds.
VacantOrNot(p) == p \in Place

\* What renameDirectoryNoReplace() asks of the destination, atomically.
Vacant(p) == at[p] = None

Move(p, q) == at' = [at EXCEPT ![p] = None, ![q] = at[p]]

Save(m) == mem' = m /\ lock' = m
Goto(pc) == op' = [op EXCEPT !.pc = pc]
\* An error that reaches the caller of the whole operation.
Abort == op' = Idle /\ mem' = EmptyLock

\* finalizeUpgradeRecoveries() and finalizeRemovalRecoveries(): the identities
\* whose path exists.
Existing(ids) == {i \in ids : at[i] # None}

\* The candidate is deleted, or abandoned under its random name; the model
\* does not follow it any further.
Discarded ==
  LET c == at[candidate] IN
  /\ files' = IF c = None THEN files ELSE [files EXCEPT ![c] = Nothing]
  /\ mine' = mine \ {c}
DiscardCandidate == at' = [at EXCEPT ![candidate] = None] /\ Discarded

----------------------------------------------------------------------------
(***************************************************************************)
(* Reading the lockfile and resolving a first-install journal              *)
(***************************************************************************)
\* A sync for the current manifest, or a DELETE of the item.
Begin(kind) ==
  /\ op.pc = "idle"
  /\ mem' = lock
  /\ op' = [Idle EXCEPT !.pc = "reconcile", !.kind = kind, !.want = want]
  /\ UNCHANGED <<at, files, lock, budgets, mine>>

\* The candidate was staged by us and still has every byte, its marker included.
Exposed(rec) ==
  /\ Target = rec.ident
  /\ MatchesEntirely(Target, IF rec.marker THEN Marked(rec.snap) ELSE rec.snap)

\* reconcileFirstInstallJournals(), first pass: commit what was exposed, give up
\* what was not, and isolate our own tree if somebody has changed it.
Reconcile ==
  /\ op.pc = "reconcile"
  /\ LET rec == mem.rec
         journal == rec # None /\ rec.uncommitted
     IN
     \/ /\ ~journal
        /\ Goto("marker")
        /\ UNCHANGED <<lock, mem>>
     \/ /\ journal /\ Exposed(rec)
        /\ Save([mem EXCEPT !.rec.uncommitted = FALSE, !.rec.ident = None,
                            !.rec.reject = None])
        /\ Goto("marker")
     \/ /\ journal /\ ~Exposed(rec) /\ Target = rec.ident
        /\ op' = [op EXCEPT !.pc = "isolate", !.tree = rec.ident, !.rej = rec.reject]
        /\ UNCHANGED <<lock, mem>>
     \/ /\ journal /\ Target # rec.ident
        /\ Save([mem EXCEPT !.rec = None])
        /\ Goto("marker")
  /\ UNCHANGED <<at, files, budgets, mine>>

\* An exception ends the operation while it reads its journals, and only this
\* item's turn later.
Raise ==
  IF op.stage = "begin" THEN Abort ELSE Goto("fail") /\ UNCHANGED mem

\* isolateRejectedCandidate(): move our tree to its preclaimed recovery.  The
\* name can be rebound between the check of the identity and the rename.
Isolate ==
  /\ op.pc = "isolate"
  /\ \/ /\ Target # None /\ Vacant(op.rej)
        /\ Move(target, op.rej)
        /\ Goto("restore")
        /\ UNCHANGED mem
     \/ /\ Target # op.tree \/ ~Vacant(op.rej)
        /\ UNCHANGED at
        /\ Raise
  /\ UNCHANGED <<files, lock, budgets, mine>>

\* The second look: keep the isolated tree and drop the journal of a first
\* install, or put a stranger's tree back.
Restore ==
  /\ op.pc = "restore"
  /\ \/ /\ at[op.rej] = op.tree
        /\ IF op.up = None THEN Save([mem EXCEPT !.rec = None]) ELSE UNCHANGED <<lock, mem>>
        /\ Goto(IF op.stage = "begin" THEN "marker" ELSE "fail")
        /\ UNCHANGED at
     \/ /\ at[op.rej] # op.tree
        /\ IF Vacant(target) THEN Move(op.rej, target) ELSE UNCHANGED at
        /\ Raise
        /\ UNCHANGED lock
  /\ UNCHANGED <<files, budgets, mine>>

\* Second pass: remove the marker from a committed tree, or own what a user
\* has made of it; then go on with what the journals were resolved for.
ClearMarker ==
  LET rec == mem.rec
      owed == rec # None /\ rec.marker
      found == IF Target = None THEN None ELSE files[Target][Marker]
  IN
  /\ op.pc = "marker"
  /\ \/ /\ owed /\ found = Marker
        /\ files' = [files EXCEPT ![Target][Marker] = None]
        /\ UNCHANGED <<lock, mem, op>>
     \/ /\ owed /\ found # Marker
        /\ Save([mem EXCEPT !.rec.marker = FALSE, !.rec.snap.has[Marker] = found])
        /\ UNCHANGED <<files, op>>
     \/ /\ ~owed
        /\ Goto(IF op.stage = "install" THEN IF rec = None THEN "fail" ELSE "publish"
                ELSE IF op.kind = "sync" THEN "item"
                ELSE IF rec = None THEN "forget" ELSE "remove")
        /\ UNCHANGED <<files, lock, mem>>
  /\ UNCHANGED <<at, budgets, mine>>

----------------------------------------------------------------------------
(***************************************************************************)
(* One item of a sync                                                      *)
(***************************************************************************)
\* Mutant of Reconciled: the swap is taken for done.
ReconciledBlindly(rec) == IF rec.pending = None THEN rec ELSE Plain(rec.pending)

\* reconcileUpgradeJournal(): whichever complete snapshot is at the target.
Reconciled(rec) ==
  IF rec.pending = None THEN rec
  ELSE IF MatchesEntirely(Target, rec.pending) THEN Plain(rec.pending)
  ELSE IF MatchesEntirely(Target, rec.snap) THEN Plain(rec.snap)
  ELSE rec

\* Installed at the desired version already.
UpToDate(rec) ==
  rec # None /\ rec.snap.ver = op.want /\ Intact(Target, rec.snap)

\* hasInterruptedRemovalForRecord().
InterruptedRemoval(rec) ==
  rec # None /\
    (rec.removal # None \/ \E i \in mem.removals, s \in Snapshots(rec) : Intact(at[i], s))

\* Identities are on disk before their paths can appear.
Claim(rec, up, rej, upgrades) ==
  /\ Save([mem EXCEPT !.rec = rec, !.upgrades = upgrades])
  /\ op' = [op EXCEPT !.pc = "download", !.stage = "install", !.up = up, !.rej = rej,
                      !.strict = InterruptedRemoval(rec)]

\* Mutant of Prepare: the list is pruned after the new identity has been added.
PreparePrunesLast(rec) ==
  LET up == IF rec = None THEN None ELSE Least(FreshIds)
      rej == Least(FreshIds \ {up})
  IN
  /\ Cardinality(FreshIds) >= 2
  /\ Claim(rec, up, rej, Existing((mem.upgrades \cup {up}) \ {None}) \cup {rej})

\* prepareUpgradeRecovery(), which prunes the list, and
\* prepareRejectedCandidateRecovery().
Prepare(rec) ==
  LET up == IF rec = None THEN None ELSE Least(FreshIds)
      rej == Least(FreshIds \ {up})
      kept == IF rec = None THEN mem.upgrades ELSE Existing(mem.upgrades) \cup {up}
  IN
  /\ Cardinality(FreshIds) >= 2
  /\ Claim(rec, up, rej, kept \cup {rej})

\* The loop body of runSync() up to the download; an item the manifest dropped
\* goes to the removal loop.
Item ==
  /\ op.pc = "item"
  /\ LET rec == IF mem.rec = None THEN None ELSE Reconciled(mem.rec)
         unresolved == rec # None /\ (rec.uncommitted \/ rec.pending # None)
         foreign == rec = None /\ Target # None
     IN
     \/ /\ op.want = None
        /\ Goto(IF mem.rec = None THEN "final" ELSE "remove")
        /\ UNCHANGED <<lock, mem>>
     \/ /\ op.want # None
        /\ unresolved \/ foreign
        /\ mem' = [mem EXCEPT !.rec = rec]
        /\ Goto("final")
        /\ UNCHANGED lock
     \/ /\ op.want # None /\ ~unresolved
        /\ UpToDate(rec)
        /\ Save(IF rec.removal = None THEN [mem EXCEPT !.rec = rec]
                ELSE [mem EXCEPT !.rec = Plain(rec.snap), !.removals = Existing(@)])
        /\ Goto("final")
     \/ /\ op.want # None /\ ~unresolved /\ ~foreign
        /\ ~UpToDate(rec)
        /\ Prepare(rec)
  /\ UNCHANGED <<at, files, budgets, mine>>

\* The download, its checks and the extraction; the candidate is audited.
Extract ==
  /\ op.pc = "download"
  /\ FreshTrees # {}
  /\ LET t == Least(FreshTrees) IN
     /\ at' = [at EXCEPT ![candidate] = t]
     /\ files' = [files EXCEPT ![t] = Of(op.want)]
     /\ mine' = mine \cup {t}
     /\ op' = [op EXCEPT !.pc = "commit", !.tree = t]
  /\ UNCHANGED <<lock, mem, budgets>>

DownloadFails ==
  /\ op.pc = "download"
  /\ Goto("fail")
  /\ UNCHANGED <<at, files, lock, mem, budgets, mine>>

\* assertCurrentGeneration(): a newer manifest URL ends the run, its lockfile
\* in memory is lost.
Superseded ==
  /\ op.pc = "download" \/ (op.pc = "final" /\ op.kind = "sync")
  /\ want # op.want
  /\ Abort
  /\ UNCHANGED <<at, files, lock, budgets, mine>>

\* Mutant of Commit: a first install is recorded once it is visible.
CommitLater ==
  /\ op.pc = "commit"
  /\ op.up = None /\ Target = None
  /\ files' = [files EXCEPT ![op.tree][Marker] = Marker]
  /\ mem' = [mem EXCEPT !.rec = [Plain(SnapshotOf(op.want)) EXCEPT
              !.uncommitted = TRUE, !.ident = op.tree, !.marker = TRUE, !.reject = op.rej]]
  /\ Goto("expose")
  /\ UNCHANGED <<at, mine, lock, budgets>>

\* The last checks and beforeCommit(): ownership is on disk before anything
\* visible moves.
Commit ==
  LET refused == IF op.up = None THEN Target # None
                 ELSE HasUntracked(Target, Paths(mem.rec.snap))
  IN
  /\ op.pc = "commit"
  /\ \/ /\ refused
        /\ DiscardCandidate
        /\ Goto("fail")
        /\ UNCHANGED <<lock, mem>>
     \/ /\ ~refused /\ op.up = None
        /\ files' = [files EXCEPT ![op.tree][Marker] = Marker]
        /\ Save([mem EXCEPT !.rec = [Plain(SnapshotOf(op.want)) EXCEPT
                   !.uncommitted = TRUE, !.ident = op.tree, !.marker = TRUE,
                   !.reject = op.rej]])
        /\ Goto("expose")
        /\ UNCHANGED <<at, mine>>
     \/ /\ ~refused /\ op.up # None
        /\ Save([mem EXCEPT !.rec = [Plain(mem.rec.snap) EXCEPT
                   !.pending = SnapshotOf(op.want)]])
        /\ Goto("aside")
        /\ UNCHANGED <<at, files, mine>>
  /\ UNCHANGED budgets

\* First install: one rename makes the whole tree visible; if somebody was
\* faster the ownership claim is undone.
Expose ==
  /\ op.pc = "expose"
  /\ \/ /\ Vacant(target)
        /\ Move(candidate, target)
        /\ Goto("verify")
        /\ UNCHANGED <<files, lock, mem, mine>>
     \/ /\ ~Vacant(target)
        /\ DiscardCandidate
        /\ Save([mem EXCEPT !.rec = None])
        /\ Goto("fail")
  /\ UNCHANGED budgets

\* Upgrade: the visible tree, if there is one, is set aside.  The identity is
\* fresh, so its path is vacant and the rename cannot fail.
SetAside ==
  /\ op.pc = "aside"
  /\ IF Target = None THEN UNCHANGED at ELSE Move(target, op.up)
  /\ Goto("audit")
  /\ UNCHANGED <<files, lock, mem, budgets, mine>>

\* What was set aside is inspected where nobody else has a name for it, and
\* goes back if it is more than what the record owns.
AuditAside ==
  LET aside == at[op.up]
      refused == \/ HasUntracked(aside, Paths(mem.rec.snap))
                 \/ op.strict /\ aside # None /\ ~HasOwnedFile(aside, {mem.rec.snap})
  IN
  /\ op.pc = "audit"
  /\ \/ /\ ~refused
        /\ Goto("swap")
        /\ UNCHANGED <<at, files, mine>>
     \/ /\ refused
        /\ at' = IF Vacant(target)
                 THEN [at EXCEPT ![candidate] = None, ![target] = aside, ![op.up] = None]
                 ELSE [at EXCEPT ![candidate] = None]
        /\ Discarded
        /\ Goto("fail")
  /\ UNCHANGED <<lock, mem, budgets>>

Swap ==
  /\ op.pc = "swap"
  /\ \/ /\ Vacant(target)
        /\ Move(candidate, target)
        /\ Goto("verify")
        /\ UNCHANGED <<files, mine>>
     \/ /\ ~Vacant(target)
        /\ DiscardCandidate
        /\ Goto("fail")
  /\ UNCHANGED <<lock, mem, budgets>>

\* assertPublishedCandidate(): what is visible is still the audited candidate.
Verify ==
  LET audited == IF op.up = None THEN Marked(SnapshotOf(op.want)) ELSE SnapshotOf(op.want)
  IN
  /\ op.pc = "verify"
  /\ Goto(IF ~(Target = op.tree /\ MatchesEntirely(Target, audited)) THEN "isolate"
          ELSE IF op.up = None THEN "reconcile" ELSE "retain")
  /\ UNCHANGED <<at, files, lock, mem, budgets, mine>>

\* removeManagedTree() without a quarantine: the previous tree stays whole.
Retain ==
  /\ op.pc = "retain"
  /\ LET aside == at[op.up] IN
     Goto(IF aside # None /\ {n \in Name : files[aside][n] # None} # Paths(mem.rec.snap)
          THEN "fail" ELSE "publish")
  /\ UNCHANGED <<at, files, lock, mem, budgets, mine>>

\* The completed record; publishing discovery links saves it at once, otherwise
\* the end of the sync does.
Publish(linked) ==
  /\ op.pc = "publish"
  /\ LET done == [mem EXCEPT !.rec = Plain(SnapshotOf(op.want))] IN
     /\ lock' = IF linked THEN done ELSE lock
     /\ mem' = [done EXCEPT !.upgrades = Existing(@)]
  /\ Goto("final")
  /\ UNCHANGED <<at, files, budgets, mine>>

\* The catch block of the item.
ItemFails ==
  /\ op.pc = "fail"
  /\ mem' = [mem EXCEPT !.rec = IF @ = None THEN None ELSE Reconciled(@),
                        !.upgrades = Existing(@)]
  /\ Goto("final")
  /\ UNCHANGED <<at, files, lock, budgets, mine>>

\* The end of runSync().
Finish ==
  /\ op.pc = "final"
  /\ lock' = mem
  /\ Abort
  /\ UNCHANGED <<at, files, budgets, mine>>

----------------------------------------------------------------------------
(***************************************************************************)
(* Removal                                                                 *)
(***************************************************************************)
\* Mutant of Remove: an absent target is an error.
RemovePresent ==
  /\ op.pc = "remove"
  /\ HasOwnedFile(Target, Snapshots(mem.rec))
  /\ LET id == IF mem.rec.removal # None THEN mem.rec.removal ELSE Least(FreshIds) IN
     /\ mem.rec.removal # None \/ FreshIds # {}
     /\ Save([mem EXCEPT !.rec.removal = id, !.removals = @ \cup {id}])
     /\ op' = [op EXCEPT !.pc = "removeMove", !.tree = Target]
  /\ UNCHANGED <<at, files, budgets, mine>>

\* prepareRemovalRecovery(), then removeManagedTree() up to its rename: only a
\* tree with a file whose hash we recorded is moved.
Remove ==
  /\ op.pc = "remove"
  /\ LET id == IF mem.rec.removal # None THEN mem.rec.removal ELSE Least(FreshIds)
         owned == HasOwnedFile(Target, Snapshots(mem.rec))
     IN
     /\ mem.rec.removal # None \/ FreshIds # {}
     /\ Save([mem EXCEPT !.rec.removal = id, !.removals = @ \cup {id}])
     /\ op' = [op EXCEPT !.pc = IF owned THEN "removeMove" ELSE "drop",
                         !.tree = IF owned THEN Target ELSE None]
  /\ UNCHANGED <<at, files, budgets, mine>>

\* A removal that throws: the record stays.  DELETE reports the error, a sync
\* goes on.
RemovalFails ==
  LET kept == [mem EXCEPT !.removals = Existing(@)] IN
  IF op.kind = "delete" THEN lock' = kept /\ Abort
  ELSE mem' = kept /\ Goto("final") /\ UNCHANGED lock

RemoveMove ==
  /\ op.pc = "removeMove"
  /\ \/ /\ Target # None /\ Vacant(mem.rec.removal)
        /\ Move(target, mem.rec.removal)
        /\ Goto(IF Target = op.tree THEN "drop" ELSE "removeBack")
        /\ UNCHANGED <<lock, mem>>
     \/ /\ Target = None \/ ~Vacant(mem.rec.removal)
        /\ RemovalFails
        /\ UNCHANGED at
  /\ UNCHANGED <<files, budgets, mine>>

\* The name was rebound after the audit: the other tree goes back.
RemoveBack ==
  /\ op.pc = "removeBack"
  /\ \/ /\ Vacant(target)
        /\ Move(mem.rec.removal, target)
        /\ Goto("drop")
        /\ UNCHANGED <<lock, mem>>
     \/ /\ ~Vacant(target)
        /\ RemovalFails
        /\ UNCHANGED at
  /\ UNCHANGED <<files, budgets, mine>>

\* The record goes; a DELETE writes the lockfile once before and once after.
DropRecord ==
  /\ op.pc = "drop"
  /\ LET kept == [mem EXCEPT !.removals = Existing(@)] IN
     IF op.kind = "sync"
     THEN /\ mem' = [kept EXCEPT !.rec = None]
          /\ Goto("final")
          /\ UNCHANGED lock
     ELSE Save(kept) /\ Goto("forget")
  /\ UNCHANGED <<at, files, budgets, mine>>

\* deleteItem() ends: the record goes and the approval is revoked.
Forget ==
  /\ op.pc = "forget"
  /\ lock' = [mem EXCEPT !.rec = None]
  /\ Abort
  /\ want' = None
  /\ UNCHANGED <<at, files, user, crashes, changes, edited, moved, mine>>

----------------------------------------------------------------------------
(***************************************************************************)
(* The world                                                               *)
(***************************************************************************)
\* The manifest asks for another version, for none, or an operator approves.
ManifestChanges(w) ==
  /\ changes > 0 /\ w # want
  /\ want' = w
  /\ changes' = changes - 1
  /\ UNCHANGED <<at, files, lock, mem, op, user, crashes, mine, edited, moved>>

Crash ==
  /\ op.pc # "idle" /\ crashes > 0
  /\ Abort
  /\ DiscardCandidate
  /\ crashes' = crashes - 1
  /\ UNCHANGED <<lock, want, user, changes, edited, moved>>

\* Somebody writes or deletes a file of the visible tree, or, through a
\* descriptor opened before, of the one that an upgrade has set aside.
UserEdits(p, n, h) ==
  /\ user > 0 /\ at[p] # None
  /\ files[at[p]][n] # h
  /\ files' = [files EXCEPT ![at[p]][n] = h]
  /\ edited' = edited \cup {at[p]}
  /\ user' = user - 1
  /\ UNCHANGED <<at, lock, mem, op, want, crashes, changes, mine, moved>>

\* Somebody makes the skill's directory: empty, by hand, or from a backup.
UserMakes(listing) ==
  /\ user > 0 /\ Vacant(target) /\ FreshTrees # {}
  /\ LET t == Least(FreshTrees) IN
     /\ at' = [at EXCEPT ![target] = t]
     /\ files' = [files EXCEPT ![t] = listing]
     /\ mine' = mine \ {t}
     /\ edited' = edited \cup {t}
  /\ user' = user - 1
  /\ UNCHANGED <<lock, mem, op, want, crashes, changes, moved>>

\* Somebody moves the directory away, or back.
UserMoves(p, q) ==
  /\ user > 0 /\ at[p] # None /\ Vacant(q)
  /\ Move(p, q)
  /\ moved' = moved \cup {at[p]}
  /\ user' = user - 1
  /\ UNCHANGED <<files, lock, mem, op, want, crashes, changes, mine, edited>>

UserActs ==
  \/ \E p \in {target, op.up} \ {None}, n \in Name, h \in {None, "user"} : UserEdits(p, n, h)
  \/ \E v \in Version : UserMakes(Of(v))
  \/ \E f \in File : UserMakes([Nothing EXCEPT ![f] = "user"])
  \/ UserMakes(Nothing)
  \/ UserMoves(target, elsewhere)
  \/ UserMoves(elsewhere, target)

Proxy ==
  \/ Reconcile \/ Isolate \/ Restore \/ ClearMarker
  \/ Item \/ Extract \/ DownloadFails \/ Superseded \/ Commit
  \/ Expose \/ SetAside \/ AuditAside \/ Swap \/ Verify \/ Retain
  \/ \E linked \in BOOLEAN : Publish(linked)
  \/ ItemFails \/ Finish
  \/ Remove \/ RemoveMove \/ RemoveBack \/ DropRecord \/ Forget

Next ==
  \/ \E kind \in {"sync", "delete"} : Begin(kind)
  \/ Proxy
  \/ \E w \in Version \cup {None} : ManifestChanges(w)
  \/ Crash
  \/ UserActs

Spec == Init /\ [][Next]_vars

\* The refetch timer starts another sync and what runs goes on; nothing is
\* assumed of users, of downloads or of crashes.
FairSpec ==
  /\ Spec
  /\ WF_vars(Begin("sync"))
  /\ WF_vars(Proxy)

----------------------------------------------------------------------------
\* Types; and no directory is at two pathnames, for which a rename is enough.
TypeOK ==
  /\ at \in [Place -> Tree \cup {None}]
  /\ files \in [Tree -> Listing]
  /\ lock \in LockFile /\ mem \in LockFile
  /\ op \in Op
  /\ want \in Version \cup {None}
  /\ user \in 0..MaxUser /\ crashes \in 0..MaxCrash /\ changes \in 0..MaxChange
  /\ mine \subseteq Tree /\ edited \subseteq Tree /\ moved \subseteq Tree
  /\ \A p, q \in Place : at[p] = at[q] /\ p # q => at[p] = None

\* No step of the proxy, of a user or of a crash loses a directory that was
\* ever visible: it is at its name or at a recovery path.
TreesSurvive ==
  [][\A p \in Place \ {candidate} :
       at[p] # None => \E q \in Place : at'[q] = at[p]]_vars

\* Whatever a recovery path holds, the lockfile on disk lists: an operator
\* finds every retained tree, after any crash.  Exempt is a tree that somebody
\* has moved: away while its isolation begins, so that the unused identity is
\* dropped from the list, and back before the next sync isolates it there; and
\* one of users that takes its place in between.
Excused(t) == t \in moved \/ (t \notin mine /\ mine \cap moved # {})
RetainedAreRecorded ==
  \A i \in Id : at[i] # None => i \in lock.removals \cup lock.upgrades \/ Excused(at[i])

\* A tree of ours that is visible as we made it has a record on disk: the
\* manifest can still upgrade and remove it.  The type invariant comes first.
OwnedAreRecorded ==
  /\ TypeOK
  /\ Target \in mine \ (edited \cup moved) => lock.rec # None

\* Between operations, and while nobody else touches the directory, the
\* lockfile says what is there.
LockfileDescribesTarget ==
  op.pc = "idle" /\ edited \cup moved = {} =>
    LET rec == lock.rec IN
    /\ rec = None => Target = None
    /\ rec # None /\ Plain(rec.snap) = rec => MatchesEntirely(Target, rec.snap)
    /\ rec # None /\ rec.pending # None /\ Target # None =>
         \E s \in Snapshots(rec) : MatchesEntirely(Target, s)

\* An item that is no longer wanted loses its record, whatever state it is in;
\* unless a crash has cut its removal short and somebody has put a directory
\* back since: the removal then has nowhere to move it, and says so for ever.
RestoredByHand ==
  /\ lock.rec # None /\ lock.rec.removal # None
  /\ at[lock.rec.removal] # None /\ Target # None
UninstallCompletes ==
  (want = None) ~> (lock.rec = None \/ want # None \/ RestoredByHand)

\* provisioning.md says that upgrades journal both ownership snapshots before
\* swapping directories, "so an interrupted swap is recoverable", and sync.ts
\* that the pair lets the next install recover: a swap cut short by a crash is
\* over after some later sync.
InterruptedSwapRecovers ==
  (lock.rec # None /\ lock.rec.pending # None)
    ~> (lock.rec = None \/ lock.rec.pending = None)
=============================================================================
