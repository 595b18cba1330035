------------------------- MODULE SkillInstall_proofs -------------------------
(***************************************************************************)
(* The safety properties of SkillInstall for every set of files, versions  *)
(* and contents and every bound on identities, trees, users, crashes and   *)
(* changes of the manifest.                                                *)
(***************************************************************************)
EXTENDS SkillInstall, FiniteSetTheorems, WellFoundedInduction, TLAPS

(***************************************************************************)
(* The inductive invariant.                                                *)
(***************************************************************************)
\* A tree of ours as we made it; one that cannot be the proxy's latest; and the
\* time before users touch anything.
Own(t) == t \in mine \ (edited \cup moved)
Strange(t) == t \in moved \/ t \notin mine
Quiet == edited \cup moved = {}

\* Trees come from us or from users, and what users have touched stays visible.
HistoryInv ==
  /\ \A p \in Place : at[p] # None => at[p] \in mine \cup edited
  /\ \A t \in edited \cup moved : \E p \in Place \ {candidate} : at[p] = t

\* A first install is journaled with all it takes to isolate the candidate; the
\* marker is part of no snapshot; every snapshot has a file.
Shaped(rec) ==
  /\ rec.uncommitted => rec.marker /\ rec.ident \in Tree /\ rec.reject \in Id
  /\ rec.marker =>
       rec.pending = None /\ rec.removal = None /\ rec.snap.has[Marker] = None
  /\ \A s \in Snapshots(rec) : \E f \in File : s.has[f] # None

\* The record tells the tree t by its content.
Describes(rec, t) ==
  IF rec.uncommitted THEN t = rec.ident /\ files[t] = Marked(rec.snap).has
  ELSE IF rec.marker THEN files[t] \in {rec.snap.has, Marked(rec.snap).has}
  ELSE \E s \in Snapshots(rec) : files[t] = s.has

Settled(rec) == ~rec.uncommitted /\ rec.pending = None /\ rec.removal = None

\* What holds of the lockfile whenever the process can die.
OwnedInv(l) == Own(Target) => l.rec # None /\ Describes(l.rec, Target)
PresentInv(l) == Quiet /\ l.rec # None /\ Settled(l.rec) => Target # None
RetainedInv(l) ==
  \A i \in Id : at[i] # None => i \in l.removals \cup l.upgrades \/ Excused(at[i])
RejectInv(l) ==
  l.rec # None /\ l.rec.uncommitted =>
    l.rec.reject \in l.upgrades \/ l.rec.ident \in mine \cap moved

Good(l) ==
  /\ l.rec # None => Shaped(l.rec)
  /\ OwnedInv(l) /\ PresentInv(l) /\ RetainedInv(l) /\ RejectInv(l)

\* Only the end of a sync works on a lockfile that is not on disk.
LockInv ==
  /\ Good(lock)
  /\ op.pc = "final" => Good(mem)
  /\ op.pc \notin {"idle", "final"} => mem = lock

Staged == {"commit", "expose", "aside", "audit", "swap"}
Installs == Staged \cup {"download", "verify", "retain", "publish"}
Resolves == {"reconcile", "isolate", "restore", "marker"}
Upgrading ==
  \/ op.pc \in {"aside", "audit", "swap", "retain"}
  \/ op.pc \in {"verify", "isolate", "restore"} /\ op.up # None

\* The candidate is where this run put it, and whole.
CandidateInv ==
  /\ op.pc \notin Staged => at[candidate] = None
  /\ op.pc \in Staged =>
       /\ op.tree \in mine /\ at[candidate] = op.tree
       /\ files[op.tree] = IF op.pc = "expose" THEN Marked(SnapshotOf(op.want)).has
                           ELSE Of(op.want)

\* The identities of an installation are on disk before their paths appear.
ClaimInv ==
  /\ op.pc \in Installs => op.stage = "install"
  /\ op.pc \in Resolves /\ op.stage = "begin" => op.up = None
  /\ op.pc \in {"reconcile", "marker", "expose"} => op.up = None
  /\ op.pc \in {"aside", "audit", "swap", "retain"} => op.up # None
  /\ op.pc \in Installs \cup Resolves /\ op.stage = "install" =>
       /\ op.want \in Version
       /\ op.rej \in lock.upgrades
       /\ op.up # None => op.up \in lock.upgrades /\ op.up # op.rej
       /\ op.pc \notin {"restore", "marker", "publish", "retain"} => at[op.rej] = None
  /\ op.pc \in {"download", "commit", "aside"} /\ op.up # None => at[op.up] = None

\* The record that each step works on.
RecordInv ==
  /\ Upgrading \/ op.pc \in {"item", "download", "commit", "remove", "removeMove",
                          "removeBack", "drop", "forget"} =>
       (lock.rec # None => ~lock.rec.uncommitted /\ ~lock.rec.marker)
  /\ op.pc \in {"download", "commit"} =>
       /\ op.up = None <=> lock.rec = None
       /\ lock.rec # None => lock.rec.pending = None
  /\ Upgrading => lock.rec # None /\ lock.rec.pending = SnapshotOf(op.want)
  /\ \/ op.pc = "expose"
     \/ op.pc \in {"isolate", "restore"} /\ op.up = None
     \/ op.pc \in {"verify", "reconcile"} /\ op.stage = "install" /\ op.up = None
     => /\ lock.rec # None /\ lock.rec.uncommitted
        /\ lock.rec.ident = op.tree /\ lock.rec.reject = op.rej
  /\ op.pc \in {"expose", "verify", "reconcile", "marker"} /\ op.stage = "install"
       /\ op.up = None /\ lock.rec # None /\ lock.rec.marker
     => lock.rec.snap = SnapshotOf(op.want)
  /\ op.pc = "marker" /\ lock.rec # None => ~lock.rec.uncommitted
  /\ op.pc \in {"remove", "removeMove", "removeBack", "drop"} => lock.rec # None
  /\ op.pc \in {"removeMove", "removeBack", "drop"} => lock.rec.removal # None
  /\ op.pc = "removeMove" => lock.rec.removal \in lock.removals

Seeing == op.pc \in {"verify", "retain", "publish", "isolate"}
          \/ (op.pc \in {"reconcile", "marker"} /\ op.stage = "install")

\* What was seen at the target is there, unless a user has acted since.
SightInv ==
  /\ Seeing =>
       /\ op.tree \in Tree
       /\ op.stage = "install" => op.tree \in mine
       /\ Target = op.tree \/ (op.tree \in moved /\ Strange(Target))
  /\ op.pc \in {"retain", "publish"} \/ (op.pc = "verify" /\ op.up # None) =>
       (Own(Target) => files[Target] = Of(op.want))
  /\ op.pc = "marker" /\ op.stage = "install" /\ lock.rec # None /\ ~lock.rec.marker =>
       (Own(Target) => files[Target] = Of(op.want))
  /\ op.pc \in {"audit", "swap", "restore", "removeBack", "drop", "forget"} => ~Own(Target)
  /\ op.pc = "audit" /\ Own(at[op.up]) =>
       \E s \in Snapshots(lock.rec) : files[at[op.up]] = s.has
  /\ op.pc \in {"isolate", "restore"} => ~Quiet
  /\ op.pc = "restore" =>
       /\ op.rej \in Id /\ at[op.rej] # None
       /\ at[op.rej] = op.tree \/ (op.tree \in moved /\ Strange(at[op.rej]))
       /\ op.stage = "install" => op.tree \in mine
  /\ op.pc = "fail" /\ lock.rec # None /\ lock.rec.uncommitted =>
       lock.rec.ident \in mine \cap moved
  /\ op.pc = "removeMove" => op.tree \in Tree /\ (Target = op.tree \/ ~Own(Target))
  /\ op.pc = "removeBack" => at[lock.rec.removal] # None /\ ~Own(at[lock.rec.removal])

IInv ==
  /\ TypeOK /\ HistoryInv /\ LockInv /\ CandidateInv /\ ClaimInv /\ RecordInv /\ SightInv

----------------------------------------------------------------------------
\* A nonempty set of identities has a least member: the one that stands for the
\* random identity of a journal (sync.ts:1823, 1839).
LEMMA LeastIn ==
  ASSUME NEW S \in SUBSET Nat, S # {}
  PROVE  Least(S) \in S
<1> DEFINE R == {p \in Nat \X Nat : p[1] < p[2]}
<1>1. IsWellFoundedOn(R, Nat)
  BY NatLessThanWellFounded DEF OpToRel
<1> HIDE DEF R
<1>2. PICK x \in S : \A y \in S : <<y, x>> \notin R
  BY <1>1, WFMin
<1>3. \A y \in S : x <= y
  <2>. TAKE y \in S
  <2>1. x \in Nat /\ y \in Nat /\ (y < x => <<y, x>> \in R)
    BY DEF R
  <2>. QED
    BY <1>2, <2>1
<1>. QED
  BY <1>3 DEF Least

\* The three paths outside the identities are three, and none is an identity.
LEMMA Pathnames ==
  /\ target # candidate /\ target # elsewhere /\ candidate # elsewhere
  /\ target \notin Id /\ candidate \notin Id /\ elsewhere \notin Id
<1>1. \A x, y : Cardinality({x, y}) # 3
  <2>. TAKE x, y
  <2>1. IsFiniteSet({y}) /\ Cardinality({y}) = 1
    BY FS_Singleton
  <2>2. Cardinality({y} \cup {x}) \in {1, 2}
    BY <2>1, FS_AddElement
  <2>3. {x, y} = {y} \cup {x}
    OBVIOUS
  <2>. QED
    BY <2>2, <2>3
<1>2. Cardinality({target, candidate, elsewhere}) = 3
  BY ConstantsAssumption
<1>3. ASSUME target = candidate \/ target = elsewhere \/ candidate = elsewhere PROVE FALSE
  <2>1. PICK x, y : {target, candidate, elsewhere} = {x, y}
    BY <1>3
  <2>2. Cardinality({x, y}) = 3
    BY <2>1, <1>2
  <2>. QED
    BY <2>2, <1>1
<1>. QED
  BY <1>3, ConstantsAssumption

\* An identity minted for a journal is one that no path and no record has, and
\* two of them can be minted apart (installer.ts takes the reject and the
\* upgrade directory of an installation together).
LEMMA FreshIdsFacts ==
  /\ FreshIds \subseteq Id
  /\ FreshIds # {} => Least(FreshIds) \in FreshIds
  /\ \A i : Cardinality(FreshIds) >= 2 => Least(FreshIds \ {i}) \in FreshIds \ {i}
<1>1. FreshIds \subseteq Id /\ Id \subseteq Nat
  BY DEF FreshIds, Id
<1>2. IsFiniteSet(FreshIds)
  <2>1. 1 \in Int /\ MaxId \in Int
    BY ConstantsAssumption
  <2>2. IsFiniteSet(Id)
    BY <2>1, FS_Interval DEF Id
  <2>. QED
    BY <1>1, <2>2, FS_Subset
<1>3. ASSUME NEW i, FreshIds \ {i} = {} PROVE Cardinality(FreshIds) <= 1
  <2>1. FreshIds \ {i} = {} /\ Cardinality({}) = 0
    BY <1>3, FS_EmptySet
  <2>. QED
    BY <2>1, <1>2, FS_RemoveElement, FS_CardinalityType
<1>. QED
  <2>1. Cardinality(FreshIds) \in Nat
    BY <1>2, FS_CardinalityType
  <2>2. \A i : FreshIds \ {i} \in SUBSET Nat
    BY <1>1
  <2>. QED
    BY <1>1, <1>3, <2>1, <2>2, LeastIn

\* All that is on disk but the lockfile, with its history.
disk == <<at, files, mine, edited, moved>>

\* The snapshot of an archive, with its marker or without, is a snapshot.
LEMMA SnapshotFacts ==
  /\ \A v \in Version : SnapshotOf(v) \in Snapshot /\ Marked(SnapshotOf(v)) \in Snapshot
  /\ \A s \in Snapshot : Marked(s) \in Snapshot
  /\ \A s \in Snapshot, h \in {None, "user"} : [s EXCEPT !.has[Marker] = h] \in Snapshot
  /\ \A s \in Snapshot : Plain(s) \in Record
  /\ \A v \in Version : Of(v) \in Listing
  /\ \A v \in Version : \E f \in File : Of(v)[f] # None
<1>1. \A v \in Version : Of(v) \in Listing
  BY ConstantsAssumption DEF Of, Listing, Name
<1>2. \A v \in Version : SnapshotOf(v) \in Snapshot
  BY <1>1 DEF SnapshotOf, Snapshot
<1>3. \A s \in Snapshot, h \in {None, "user", Marker} : [s EXCEPT !.has[Marker] = h] \in Snapshot
  BY DEF Snapshot, Listing
<1>4. \A s \in Snapshot : Marked(s) \in Snapshot
  BY <1>3 DEF Marked
<1>5. \A s \in Snapshot : Plain(s) \in Record
  BY DEF Plain, Record
<1>6. \A v \in Version : \E f \in File : Of(v)[f] # None
  BY ConstantsAssumption DEF Of, Name
<1>. QED
  BY <1>1, <1>2, <1>3, <1>4, <1>5, <1>6

\* A step that only moves on keeps what the operation carries.
LEMMA Goes ==
  ASSUME TypeOK, NEW pc \in Pc, Goto(pc)
  PROVE  /\ op' \in Op /\ op'.pc = pc /\ op'.kind = op.kind /\ op'.stage = op.stage
         /\ op'.want = op.want /\ op'.tree = op.tree /\ op'.up = op.up
         /\ op'.rej = op.rej /\ op'.strict = op.strict
BY DEF TypeOK, Op, Goto

\* An operation that ends lets go of what it had in memory.
LEMMA Aborts ==
  ASSUME Abort
  PROVE  /\ op' \in Op /\ op'.pc = "idle" /\ mem' \in LockFile
         /\ op'.stage = "begin" /\ op'.up = None
BY DEF Abort, Idle, EmptyLock, Op, LockFile, Pc

\* The parts of a lockfile.
LEMMA LockTypes ==
  ASSUME NEW l \in LockFile
  PROVE  /\ l = [rec |-> l.rec, removals |-> l.removals, upgrades |-> l.upgrades]
         /\ l.rec \in Record \cup {None} /\ l.removals \subseteq Id /\ l.upgrades \subseteq Id
         /\ \A r \in Record \cup {None} : [l EXCEPT !.rec = r] \in LockFile
         /\ Existing(l.removals) \subseteq Id /\ Existing(l.upgrades) \subseteq Id
BY DEF LockFile, Existing

\* The parts of a skill's record, and that reconciling it gives a record.
LEMMA RecordTypes ==
  ASSUME NEW r \in Record
  PROVE  /\ r # None
         /\ r.snap \in Snapshot /\ r.pending \in Snapshot \cup {None}
         /\ r.uncommitted \in BOOLEAN /\ r.marker \in BOOLEAN
         /\ r.ident \in Tree \cup {None} /\ r.reject \in Id \cup {None}
         /\ r.removal \in Id \cup {None}
         /\ Reconciled(r) \in Record
         /\ Snapshots(r) \subseteq Snapshot
BY SnapshotFacts, ConstantsAssumption DEF Record, Reconciled, Snapshots

\* What only the lockfile changes keeps the invariant on the disk.
LEMMA HistoryStands ==
  ASSUME HistoryInv, disk' = disk
  PROVE  HistoryInv'
BY DEF HistoryInv, disk

\* Renames that lose no tree keep the invariant on the disk.
LEMMA HistoryMoves ==
  ASSUME TypeOK, HistoryInv, mine' = mine, edited' = edited, moved' = moved,
         \A p \in Place : at'[p] # None => \E q \in Place : at[q] = at'[p],
         \A p \in Place \ {candidate} :
           at[p] # None => \E q \in Place \ {candidate} : at'[q] = at[p]
  PROVE  HistoryInv'
<1>1. \A p \in Place : at'[p] # None => at'[p] \in mine \cup edited
  BY DEF HistoryInv
<1>2. ASSUME NEW t \in edited \cup moved
      PROVE  \E p \in Place \ {candidate} : at'[p] = t
  <2>1. t # None
    BY ConstantsAssumption DEF TypeOK
  <2>2. PICK p \in Place \ {candidate} : at[p] = t
    BY DEF HistoryInv
  <2>. QED
    BY <2>1, <2>2
<1>. QED
  BY <1>1, <1>2 DEF HistoryInv

\* A lockfile that is saved is good if what is saved is good on the same disk.
LEMMA LockBecomes ==
  ASSUME Good(lock'), disk' = disk
  PROVE  Good(lock)'
BY DEF Good, OwnedInv, PresentInv, RetainedInv, RejectInv, Own, Quiet, Excused,
   Describes, disk, Target

\* The same of the lockfile in memory.
LEMMA MemBecomes ==
  ASSUME Good(mem'), disk' = disk
  PROVE  Good(mem)'
BY DEF Good, OwnedInv, PresentInv, RetainedInv, RejectInv, Own, Quiet, Excused,
   Describes, disk, Target

\* Dropping identities whose paths do not exist costs nothing.
LEMMA Prunes ==
  ASSUME NEW l, Good(l), NEW m, m.rec = l.rec,
         \A i \in Id : at[i] # None /\ i \in l.removals \cup l.upgrades
                        => i \in m.removals \cup m.upgrades,
         m.rec # None /\ m.rec.uncommitted =>
           m.rec.reject \in m.upgrades \/ m.rec.ident \in mine \cap moved
  PROVE  Good(m)
BY DEF Good, OwnedInv, PresentInv, RetainedInv, RejectInv

\* Reconciling takes the snapshot that is at the target.
LEMMA Reconciles ==
  ASSUME TypeOK, NEW l, l.rec \in Record, Good(l), NEW m,
         m.rec = Reconciled(l.rec), m.removals = l.removals, m.upgrades = l.upgrades
  PROVE  Good(m)
<1>1. CASE m.rec = l.rec
  BY <1>1 DEF Good, OwnedInv, PresentInv, RetainedInv, RejectInv
<1>2. CASE \E s \in Snapshots(l.rec) : m.rec = Plain(s) /\ MatchesEntirely(Target, s)
  <2>1. PICK s \in Snapshots(l.rec) : m.rec = Plain(s) /\ MatchesEntirely(Target, s)
    BY <1>2
  <2>2. Shaped(m.rec) /\ Snapshots(m.rec) = {s}
    BY <2>1, ConstantsAssumption DEF Good, Shaped, Plain, Snapshots
  <2>3. m.rec # None /\ ~m.rec.uncommitted /\ ~m.rec.marker
    BY <2>1, RecordTypes, SnapshotFacts, ConstantsAssumption DEF Plain
  <2>4. OwnedInv(m)
    BY <2>1, <2>2, <2>3 DEF OwnedInv, Describes, MatchesEntirely
  <2>5. PresentInv(m) /\ RetainedInv(m) /\ RejectInv(m)
    BY <2>1, <2>3 DEF Good, PresentInv, RetainedInv, RejectInv, MatchesEntirely
  <2>. QED
    BY <2>2, <2>4, <2>5 DEF Good
<1>3. l.rec.pending # None => {l.rec.pending, l.rec.snap} \subseteq Snapshots(l.rec)
  BY RecordTypes, ConstantsAssumption DEF Snapshots
<1>. QED
  BY <1>1, <1>2, <1>3 DEF Reconciled

\* The candidate is at no other pathname, and no user has touched it.
LEMMA Discards ==
  ASSUME TypeOK, HistoryInv, DiscardCandidate, edited' = edited, moved' = moved
  PROVE  /\ at' \in [Place -> Tree \cup {None}] /\ files' \in [Tree -> Listing]
         /\ mine' \subseteq Tree
         /\ \A p, q \in Place : at'[p] = at'[q] /\ p # q => at'[p] = None
         /\ at'[candidate] = None
         /\ \A p \in Place \ {candidate} :
              /\ at'[p] = at[p]
              /\ at[p] # None => files'[at[p]] = files[at[p]]
                    /\ (at[p] \in mine' <=> at[p] \in mine)
         /\ mine' \cap moved = mine \cap moved
         /\ mine' \subseteq mine
         /\ HistoryInv'
<1>1. candidate \in Place /\ at[candidate] \in Tree \cup {None}
  BY DEF Place, TypeOK
<1>2. at[candidate] # None => at[candidate] \notin edited \cup moved
  BY <1>1 DEF TypeOK, HistoryInv
<1>3. None \notin Tree /\ Nothing \in Listing
  BY ConstantsAssumption DEF Nothing, Listing
<1>4. /\ at' \in [Place -> Tree \cup {None}] /\ files' \in [Tree -> Listing]
      /\ mine' \subseteq Tree /\ mine' \subseteq mine
      /\ at'[candidate] = None
  BY <1>1, <1>3 DEF TypeOK, DiscardCandidate, Discarded
<1>5. \A p \in Place \ {candidate} :
         /\ at'[p] = at[p]
         /\ at[p] # None => files'[at[p]] = files[at[p]] /\ (at[p] \in mine' <=> at[p] \in mine)
  BY <1>1, <1>3 DEF TypeOK, DiscardCandidate, Discarded
<1>6. \A p, q \in Place : at'[p] = at'[q] /\ p # q => at'[p] = None
  BY <1>4, <1>5 DEF TypeOK
<1>7. mine' \cap moved = mine \cap moved
  BY <1>2, <1>3 DEF TypeOK, DiscardCandidate, Discarded
<1>8. HistoryInv'
  BY <1>1, <1>4, <1>5 DEF HistoryInv, TypeOK
<1>. QED
  BY <1>4, <1>5, <1>6, <1>7, <1>8

\* Discarding the candidate takes nothing that the lockfile tells of.
LEMMA DiscardStands ==
  ASSUME TypeOK, HistoryInv, DiscardCandidate, edited' = edited, moved' = moved, Good(lock')
  PROVE  Good(lock)'
<1>. DEFINE l == lock'
<1>1. target \in Place \ {candidate} /\ Id \subseteq Place \ {candidate}
  BY Pathnames DEF Place
<1>2. None \notin mine /\ None \notin mine'
  BY Discards, ConstantsAssumption DEF TypeOK
<1>3. OwnedInv(lock)'
  BY <1>1, <1>2, Discards DEF Good, OwnedInv, Own, Describes, Target
<1>4. PresentInv(lock)'
  BY <1>1, Discards DEF Good, PresentInv, Quiet, Target
<1>5. RetainedInv(lock)'
  BY <1>1, Discards DEF Good, RetainedInv, Excused
<1>6. RejectInv(lock)'
  BY <1>1, Discards DEF Good, RejectInv
<1>. QED
  BY <1>3, <1>4, <1>5, <1>6 DEF Good

----------------------------------------------------------------------------
(***************************************************************************)
(* One lemma for each action. First the journal of a first install.        *)
(***************************************************************************)

\* Memory is what is on disk.
LEMMA BeginStep ==
  ASSUME IInv, NEW kind \in {"sync", "delete"}, Begin(kind)
  PROVE  IInv'
<1>1. /\ op' \in Op /\ op'.pc = "reconcile" /\ op'.stage = "begin" /\ op'.up = None
      /\ op.pc = "idle" /\ lock' = lock /\ mem' = lock /\ disk' = disk
  BY DEF IInv, TypeOK, Begin, Idle, Op, Pc, budgets, disk
<1>2. TypeOK'
  BY <1>1 DEF IInv, TypeOK, budgets, Begin
<1>3. HistoryInv'
  BY <1>1, HistoryStands DEF IInv
<1>4. LockInv'
  BY <1>1, LockBecomes DEF IInv, LockInv
<1>5. CandidateInv'
  BY <1>1 DEF IInv, CandidateInv, Staged, disk
<1>6. ClaimInv'
  BY <1>1 DEF ClaimInv, Installs, Staged
<1>7. RecordInv'
  BY <1>1 DEF IInv, RecordInv, Upgrading
<1>8. SightInv'
  BY <1>1 DEF SightInv, Seeing
<1>. QED
  BY <1>2, <1>3, <1>4, <1>5, <1>6, <1>7, <1>8 DEF IInv

\* A first install that was exposed is ours; one that was not leaves nothing of
\* ours at the target; and one that is neither whole nor gone was touched by users.
LEMMA ReconcileStep ==
  ASSUME IInv, Reconcile
  PROVE  IInv'
<1>. DEFINE rec == lock.rec
            journal == rec # None /\ rec.uncommitted
<1>1. /\ op.pc = "reconcile" /\ mem = lock /\ disk' = disk /\ op.up = None
      /\ lock \in LockFile /\ Good(lock) /\ rec \in Record \cup {None}
      /\ rec # None => rec \in Record /\ Shaped(rec)
  BY LockTypes DEF Reconcile, IInv, TypeOK, budgets, disk, LockInv, ClaimInv, Good
<1>2. CASE Goto("marker") /\ ~journal /\ UNCHANGED <<lock, mem>>
  <2>1. /\ op' \in Op /\ op'.pc = "marker" /\ op'.stage = op.stage /\ op'.want = op.want
        /\ op'.tree = op.tree /\ op'.up = None /\ op'.rej = op.rej
        /\ lock' = lock /\ mem' = mem
    BY <1>1, <1>2, Goes DEF IInv, Pc
  <2>2. op.stage # "install"
    BY <1>1, <1>2 DEF IInv, RecordInv
  <2>3. TypeOK'
    BY <2>1 DEF IInv, TypeOK, budgets, Reconcile
  <2>4. HistoryInv'
    BY <1>1, <1>2, <2>1, <2>2, HistoryStands DEF IInv
  <2>5. LockInv'
    BY <1>1, <2>1, LockBecomes DEF LockInv
  <2>6. CandidateInv'
    BY <1>1, <2>1 DEF IInv, CandidateInv, Staged, disk
  <2>7. ClaimInv'
    BY <2>1, <2>2 DEF ClaimInv, Installs, Staged
  <2>8. RecordInv'
    BY <1>2, <2>1, <2>2 DEF RecordInv, Upgrading
  <2>9. SightInv'
    BY <2>1, <2>2 DEF SightInv, Seeing
  <2>. QED
    BY <2>3, <2>4, <2>5, <2>6, <2>7, <2>8, <2>9 DEF IInv
<1>3. CASE /\ journal /\ Exposed(rec) /\ Goto("marker")
           /\ Save([mem EXCEPT !.rec.uncommitted = FALSE, !.rec.ident = None,
                               !.rec.reject = None])
  <2>1. /\ op' \in Op /\ op'.pc = "marker" /\ op'.stage = op.stage /\ op'.want = op.want
        /\ op'.tree = op.tree /\ op'.up = None /\ op'.rej = op.rej
    BY <1>1, <1>3, Goes DEF IInv, Pc
  <2>2. /\ mem' = lock' /\ lock' \in LockFile /\ lock'.rec \in Record
        /\ lock'.upgrades = lock.upgrades /\ lock'.removals = lock.removals
        /\ ~lock'.rec.uncommitted /\ lock'.rec.marker = rec.marker
        /\ lock'.rec.pending = rec.pending /\ lock'.rec.snap = rec.snap
        /\ lock'.rec.removal = rec.removal
    BY <1>1, <1>3 DEF Save, LockFile, Record
  <2>3. /\ rec.marker /\ Target # None /\ files[Target] = Marked(rec.snap).has
        /\ Snapshots(lock'.rec) = Snapshots(rec)
    BY <1>1, <1>3, <2>2 DEF Shaped, Exposed, MatchesEntirely, Snapshots
  <2>4. Good(lock')
    <3>1. Shaped(lock'.rec)
      BY <1>1, <1>3, <2>2, <2>3 DEF Shaped
    <3>2. OwnedInv(lock') /\ PresentInv(lock')
      BY <2>2, <2>3, RecordTypes DEF OwnedInv, PresentInv, Describes
    <3>3. RetainedInv(lock') /\ RejectInv(lock')
      BY <1>1, <2>2 DEF Good, RetainedInv, RejectInv
    <3>. QED
      BY <3>1, <3>2, <3>3 DEF Good
  <2>5. TypeOK'
    BY <2>1, <2>2 DEF IInv, TypeOK, budgets, Reconcile
  <2>6. HistoryInv'
    BY <1>1, <1>3, <2>1, <2>2, <2>3, HistoryStands DEF IInv
  <2>7. LockInv'
    BY <1>1, <2>1, <2>2, <2>4, LockBecomes DEF LockInv
  <2>8. CandidateInv'
    BY <1>1, <2>1 DEF IInv, CandidateInv, Staged, disk
  <2>9. ClaimInv'
    BY <1>1, <2>1, <2>2 DEF IInv, ClaimInv, Installs, Staged, Resolves
  <2>10. RecordInv'
    BY <1>1, <2>1, <2>2 DEF IInv, RecordInv, Upgrading
  <2>11. SightInv'
    BY <1>1, <2>1, <2>2, <2>3 DEF IInv, SightInv, Seeing, disk, Strange, Target
  <2>. QED
    BY <2>5, <2>6, <2>7, <2>8, <2>9, <2>10, <2>11 DEF IInv
<1>4. CASE /\ journal /\ ~Exposed(rec) /\ Target = rec.ident
           /\ op' = [op EXCEPT !.pc = "isolate", !.tree = rec.ident, !.rej = rec.reject]
           /\ UNCHANGED <<lock, mem>>
  <2>1. /\ rec.ident \in Tree /\ rec.reject \in Id /\ rec.marker /\ Target \in Tree
    BY <1>1, <1>4 DEF Shaped
  <2>2. /\ op' \in Op /\ op'.pc = "isolate" /\ op'.stage = op.stage /\ op'.want = op.want
        /\ op'.tree = rec.ident /\ op'.up = None /\ op'.rej = rec.reject
        /\ lock' = lock /\ mem' = mem
    BY <1>1, <1>4, <2>1 DEF IInv, TypeOK, Op, Pc
  <2>3. op.stage = "install" => op.rej = rec.reject /\ op.tree = rec.ident
    BY <1>1 DEF IInv, RecordInv
  <2>4. ~Quiet
    <3>1. SUFFICES ASSUME Quiet PROVE FALSE
      OBVIOUS
    <3>2. Own(Target)
      BY <2>1, <3>1, ConstantsAssumption DEF Quiet, Own, IInv, HistoryInv, Place, Target
    <3>3. files[Target] = Marked(rec.snap).has /\ Target # None
      BY <1>1, <1>4, <2>1, <3>2, ConstantsAssumption DEF Good, OwnedInv, Describes
    <3>. QED
      BY <1>1, <1>4, <2>1, <3>3 DEF Exposed, MatchesEntirely
  <2>5. TypeOK'
    BY <2>2 DEF IInv, TypeOK, budgets, Reconcile
  <2>6. HistoryInv'
    BY <1>1, <1>4, <2>1, <2>2, <2>3, HistoryStands DEF IInv
  <2>7. LockInv'
    BY <1>1, <2>2, LockBecomes DEF LockInv
  <2>8. CandidateInv'
    BY <1>1, <2>2 DEF IInv, CandidateInv, Staged, disk
  <2>9. ClaimInv'
    BY <1>1, <2>2, <2>3 DEF IInv, ClaimInv, Installs, Staged, Resolves, disk
  <2>10. RecordInv'
    BY <1>4, <2>2 DEF RecordInv, Upgrading
  <2>11. SightInv'
    BY <1>1, <1>4, <2>1, <2>3, <2>4 DEF IInv, SightInv, Seeing, disk, Quiet, Target
  <2>. QED
    BY <2>5, <2>6, <2>7, <2>8, <2>9, <2>10, <2>11 DEF IInv
<1>5. CASE journal /\ Target # rec.ident /\ Save([mem EXCEPT !.rec = None]) /\ Goto("marker")
  <2>1. /\ op' \in Op /\ op'.pc = "marker" /\ op'.stage = op.stage /\ op'.want = op.want
        /\ op'.tree = op.tree /\ op'.up = None /\ op'.rej = op.rej
    BY <1>1, <1>5, Goes DEF IInv, Pc
  <2>2. /\ mem' = lock' /\ lock' \in LockFile /\ lock'.rec = None
        /\ lock'.upgrades = lock.upgrades /\ lock'.removals = lock.removals
    BY <1>1, <1>5 DEF Save, LockFile
  <2>3. Good(lock')
    BY <1>1, <1>5, <2>2 DEF Good, OwnedInv, PresentInv, RetainedInv, RejectInv,
       Describes
  <2>4. TypeOK'
    BY <2>1, <2>2 DEF IInv, TypeOK, budgets, Reconcile
  <2>5. HistoryInv'
    BY <1>1, <1>5, <2>1, <2>2, HistoryStands DEF IInv
  <2>6. LockInv'
    BY <1>1, <2>1, <2>2, <2>3, LockBecomes DEF LockInv
  <2>7. CandidateInv'
    BY <1>1, <2>1 DEF IInv, CandidateInv, Staged, disk
  <2>8. ClaimInv'
    BY <1>1, <2>1, <2>2 DEF IInv, ClaimInv, Installs, Staged, Resolves
  <2>9. RecordInv'
    BY <2>1, <2>2 DEF RecordInv, Upgrading
  <2>10. SightInv'
    BY <1>1, <2>1, <2>2 DEF IInv, SightInv, Seeing, disk, Strange, Target
  <2>. QED
    BY <2>4, <2>5, <2>6, <2>7, <2>8, <2>9, <2>10 DEF IInv
<1>. QED
  BY <1>1, <1>2, <1>3, <1>4, <1>5 DEF Reconcile

\* The identity it moves to is in the lockfile, or was given up because a user had
\* moved the tree.
LEMMA IsolateStep ==
  ASSUME IInv, Isolate
  PROVE  IInv'
<1>1. /\ op.pc = "isolate" /\ lock' = lock /\ files' = files
      /\ mine' = mine /\ edited' = edited /\ moved' = moved
  BY DEF Isolate, budgets
<1>2. /\ mem = lock /\ lock \in LockFile /\ Good(lock) /\ ~Quiet
      /\ op.stage \in {"begin", "install"}
      /\ op.up = None => /\ lock.rec # None /\ lock.rec.uncommitted
                         /\ lock.rec.ident = op.tree /\ lock.rec.reject = op.rej
      /\ op.up # None => op.stage = "install" /\ lock.rec # None /\ ~lock.rec.uncommitted
      /\ op.stage = "install" => op.rej \in lock.upgrades
  BY <1>1 DEF IInv, TypeOK, Op, LockInv, ClaimInv, RecordInv, SightInv, Resolves,
     Upgrading
<1>3. /\ op.rej \in Id /\ target # op.rej /\ candidate # op.rej /\ candidate # target
      /\ target \in Place /\ op.rej \in Place /\ candidate \in Place
      /\ Id \subseteq Place
  BY <1>2, LockTypes, Pathnames DEF Good, Shaped, Place
<1>4. /\ op.tree \in Tree /\ op.stage = "install" => op.tree \in mine
      /\ Target = op.tree \/ (op.tree \in moved /\ Strange(Target))
  BY <1>1, <1>2 DEF IInv, SightInv, Seeing
<1>5. CASE Target # None /\ Vacant(op.rej) /\ Move(target, op.rej) /\ Goto("restore")
      /\ UNCHANGED mem
  <2>1. /\ op' \in Op /\ op'.pc = "restore" /\ op'.stage = op.stage /\ op'.want = op.want
        /\ op'.tree = op.tree /\ op'.up = op.up /\ op'.rej = op.rej /\ mem' = mem
    BY <1>5, Goes DEF IInv, Pc
  <2>2. /\ at' \in [Place -> Tree \cup {None}]
        /\ at'[target] = None /\ at'[op.rej] = Target
        /\ \A p \in Place \ {target, op.rej} : at'[p] = at[p]
    BY <1>3, <1>5 DEF IInv, TypeOK, Move, Target
  <2>3. Target' = None /\ None \notin mine
    BY <2>2, ConstantsAssumption DEF Target, IInv, TypeOK
  <2>4. Good(lock)'
    <3>1. OwnedInv(lock)' /\ PresentInv(lock)'
      BY <1>1, <1>2, <2>3 DEF OwnedInv, PresentInv, Own, Quiet
    <3>2. op.rej \in lock.upgrades \/ Excused(Target)
      BY <1>2, <1>4 DEF Good, RejectInv, Strange, Excused
    <3>3. RetainedInv(lock)' /\ RejectInv(lock)'
      BY <1>1, <1>2, <1>3, <2>2, <3>2 DEF Good, RetainedInv, RejectInv, Excused
    <3>. QED
      BY <1>1, <1>2, <3>1, <3>3 DEF Good
  <2>5. \A p, q \in Place : at'[p] = at'[q] /\ p # q => at'[p] = None
    BY <1>3, <2>2 DEF IInv, TypeOK, Target
  <2>6. \A p \in Place \ {candidate} : \E q \in Place \ {candidate} : at[p] # None
        => at'[q] = at[p]
    BY <1>3, <1>5, <2>2 DEF Vacant, Target
  <2>7. TypeOK'
    BY <2>1, <2>2, <2>5 DEF IInv, TypeOK, budgets, Isolate, budgets
  <2>8. HistoryInv'
    BY <1>1, <1>3, <2>2, <2>6 DEF IInv, HistoryInv, Target
  <2>9. LockInv'
    BY <1>1, <1>2, <2>1, <2>4 DEF LockInv
  <2>10. CandidateInv'
    BY <1>1, <1>3, <2>1, <2>2 DEF IInv, CandidateInv, Staged
  <2>11. ClaimInv'
    BY <1>1, <2>1 DEF IInv, ClaimInv, Installs, Staged, Resolves
  <2>12. RecordInv'
    BY <1>1, <2>1 DEF IInv, RecordInv, Upgrading
  <2>13. SightInv'
    BY <1>1, <1>3, <1>5, <2>1, <2>2, <2>3 DEF IInv, SightInv, Seeing, Strange, Quiet,
       Own
  <2>. QED
    BY <2>7, <2>8, <2>9, <2>10, <2>11, <2>12, <2>13 DEF IInv
<1>6. CASE Target # op.tree /\ UNCHANGED at /\ Raise
  <2>1. disk' = disk /\ op' \in Op /\ mem' \in LockFile
    BY <1>1, <1>2, <1>6, Aborts, Goes DEF disk, Raise, IInv, Pc
  <2>2. \/ /\ op'.pc = "idle" /\ op'.stage = "begin" /\ op'.up = None
        \/ /\ op'.pc = "fail" /\ op'.stage = op.stage /\ op'.up = op.up
              /\ op.stage = "install" /\ mem' = mem
    BY <1>6, Aborts, Goes DEF Raise, IInv, Op, Pc
  <2>3. TypeOK'
    BY <1>6, <2>1 DEF IInv, TypeOK, budgets, Isolate, budgets
  <2>4. HistoryInv'
    BY <1>1, <1>2, <1>4, <1>6, <2>1, <2>2, HistoryStands DEF IInv
  <2>5. LockInv'
    BY <1>1, <1>2, <2>1, <2>2, LockBecomes DEF LockInv
  <2>6. CandidateInv'
    BY <1>1, <1>6, <2>2 DEF IInv, CandidateInv, Staged
  <2>7. ClaimInv'
    BY <2>2 DEF ClaimInv, Installs, Staged, Resolves
  <2>8. RecordInv'
    BY <2>2 DEF RecordInv, Upgrading
  <2>9. SightInv'
    BY <1>1, <1>2, <1>6, <2>2 DEF IInv, SightInv, Seeing
  <2>. QED
    BY <2>3, <2>4, <2>5, <2>6, <2>7, <2>8, <2>9 DEF IInv
<1>7. CASE Target = op.tree /\ ~Vacant(op.rej) /\ UNCHANGED at /\ Raise
  <2>1. op.stage = "begin"
    BY <1>1, <1>2, <1>7 DEF IInv, ClaimInv, Vacant, Resolves
  <2>2. disk' = disk /\ op' \in Op /\ mem' \in LockFile /\ op'.pc = "idle"
        /\ op'.stage = "begin" /\ op'.up = None
    BY <1>1, <1>7, <2>1, Aborts DEF disk, Raise
  <2>3. TypeOK'
    BY <1>7, <2>2 DEF IInv, TypeOK, budgets, Isolate, budgets
  <2>4. HistoryInv'
    BY <1>1, <1>2, <1>7, <2>1, <2>2, HistoryStands DEF IInv
  <2>5. LockInv'
    BY <1>1, <1>2, <2>2, LockBecomes DEF LockInv
  <2>6. CandidateInv'
    BY <1>1, <1>7, <2>2 DEF IInv, CandidateInv, Staged
  <2>7. ClaimInv'
    BY <2>2 DEF ClaimInv, Installs, Staged
  <2>8. RecordInv'
    BY <2>2 DEF RecordInv, Upgrading
  <2>9. SightInv'
    BY <2>2 DEF SightInv, Seeing
  <2>. QED
    BY <2>3, <2>4, <2>5, <2>6, <2>7, <2>8, <2>9 DEF IInv
<1>. QED
  BY <1>5, <1>6, <1>7 DEF Isolate

\* Either way nothing of ours stays at the target.
LEMMA RestoreStep ==
  ASSUME IInv, Restore
  PROVE  IInv'
<1>1. /\ op.pc = "restore" /\ files' = files
      /\ mine' = mine /\ edited' = edited /\ moved' = moved
  BY DEF Restore, budgets
<1>2. /\ mem = lock /\ lock \in LockFile /\ Good(lock) /\ ~Quiet /\ ~Own(Target)
      /\ op.up = None => /\ lock.rec # None /\ lock.rec.uncommitted
                         /\ lock.rec.ident = op.tree /\ lock.rec.reject = op.rej
      /\ op.up # None => op.stage = "install" /\ lock.rec # None /\ ~lock.rec.uncommitted
      /\ op.stage = "install" => op.rej \in lock.upgrades
  BY <1>1 DEF IInv, TypeOK, Op, LockInv, ClaimInv, RecordInv, SightInv, Resolves,
     Upgrading
<1>3. /\ op.rej \in Id /\ target # op.rej /\ candidate # op.rej /\ candidate # target
      /\ target \in Place /\ op.rej \in Place /\ candidate \in Place
      /\ Id \subseteq Place
  BY <1>1, Pathnames DEF Place, IInv, SightInv
<1>4. /\ at[op.rej] # None /\ (op.stage = "install" => op.tree \in mine)
      /\ at[op.rej] = op.tree \/ (op.tree \in moved /\ Strange(at[op.rej]))
      /\ op.stage \in {"begin", "install"}
  BY <1>1 DEF IInv, SightInv, TypeOK, Op
<1>5. CASE /\ at[op.rej] = op.tree
           /\ IF op.up = None THEN Save([mem EXCEPT !.rec = None]) ELSE UNCHANGED <<lock, mem>>
           /\ Goto(IF op.stage = "begin" THEN "marker" ELSE "fail")
           /\ UNCHANGED at
  <2>1. /\ op' \in Op /\ op'.pc = (IF op.stage = "begin" THEN "marker" ELSE "fail")
        /\ op'.stage = op.stage /\ op'.up = op.up /\ disk' = disk
    BY <1>1, <1>5, Goes DEF IInv, Pc, disk
  <2>2. /\ mem' = lock' /\ lock' \in LockFile
        /\ op.up = None => lock'.rec = None
        /\ op.up # None => lock'.rec = lock.rec
        /\ lock'.upgrades = lock.upgrades /\ lock'.removals = lock.removals
    BY <1>1, <1>2, <1>5 DEF Save, LockFile
  <2>3. Good(lock')
    BY <1>2, <2>2 DEF Good, OwnedInv, PresentInv, RetainedInv, RejectInv
  <2>4. TypeOK'
    BY <2>1, <2>2 DEF IInv, TypeOK, budgets, Restore, budgets, disk
  <2>5. HistoryInv'
    BY <1>1, <1>2, <1>4, <2>1, <2>2, HistoryStands DEF IInv
  <2>6. LockInv'
    BY <2>1, <2>2, <2>3, LockBecomes DEF LockInv
  <2>7. CandidateInv'
    BY <1>1, <2>1 DEF IInv, CandidateInv, Staged, disk
  <2>8. ClaimInv'
    BY <1>2, <2>1 DEF ClaimInv, Installs, Staged, Resolves
  <2>9. RecordInv'
    BY <1>2, <2>1, <2>2 DEF RecordInv, Upgrading
  <2>10. SightInv'
    BY <1>2, <2>1, <2>2 DEF SightInv, Seeing
  <2>. QED
    BY <2>4, <2>5, <2>6, <2>7, <2>8, <2>9, <2>10 DEF IInv
<1>6. CASE /\ at[op.rej] # op.tree
           /\ IF Vacant(target) THEN Move(op.rej, target) ELSE UNCHANGED at
           /\ Raise
           /\ UNCHANGED lock
  <2>1. op' \in Op /\ mem' \in LockFile
    BY <1>2, <1>6, Aborts, Goes DEF Raise, IInv, Pc
  <2>2. \/ /\ op'.pc = "idle" /\ op'.stage = "begin" /\ op'.up = None
        \/ /\ op'.pc = "fail" /\ op'.stage = op.stage /\ op'.up = op.up
              /\ op.stage = "install" /\ mem' = mem
    BY <1>6, Aborts, Goes DEF Raise, IInv, Op, Pc
  <2>3. /\ at' \in [Place -> Tree \cup {None}]
        /\ at'[target] \in {Target, at[op.rej]}
        /\ at'[op.rej] \in {None, at[op.rej]}
        /\ \A p \in Place \ {target, op.rej} : at'[p] = at[p]
    BY <1>3, <1>6 DEF IInv, TypeOK, Move, Target
  <2>4. ~Own(Target)'
    BY <1>1, <1>2, <1>4, <1>6, <2>3 DEF Own, Strange, Target
  <2>5. Good(lock)'
    <3>1. OwnedInv(lock)' /\ PresentInv(lock)'
      BY <1>1, <1>2, <2>4 DEF OwnedInv, PresentInv, Quiet
    <3>2. RetainedInv(lock)' /\ RejectInv(lock)'
      BY <1>1, <1>2, <1>3, <1>6, <2>3, Pathnames DEF Good, RetainedInv, RejectInv,
         Excused
    <3>. QED
      BY <1>1, <1>2, <1>6, <3>1, <3>2 DEF Good
  <2>6. /\ \A p, q \in Place : at'[p] = at'[q] /\ p # q => at'[p] = None
        /\ \A p \in Place : \E q \in Place : at[p] # None => at'[q] = at[p]
              /\ (p # candidate => q # candidate)
    <3>1. CASE Vacant(target)
      BY <1>3, <1>6 DEF IInv, TypeOK, Vacant, Move
    <3>2. CASE ~Vacant(target)
      BY <1>6, <3>2 DEF IInv, TypeOK
    <3>. QED
      BY <3>1, <3>2
  <2>7. TypeOK'
    BY <1>6, <2>1, <2>3, <2>6 DEF IInv, TypeOK, budgets, Restore, budgets
  <2>8. HistoryInv'
    BY <1>1, <1>3, <2>3, <2>6 DEF IInv, HistoryInv, Target
  <2>9. LockInv'
    BY <1>1, <1>2, <1>6, <2>2, <2>5 DEF LockInv
  <2>10. CandidateInv'
    BY <1>1, <1>3, <2>2, <2>3 DEF IInv, CandidateInv, Staged
  <2>11. ClaimInv'
    BY <2>2 DEF ClaimInv, Installs, Staged, Resolves
  <2>12. RecordInv'
    BY <2>2 DEF RecordInv, Upgrading
  <2>13. SightInv'
    BY <1>1, <1>2, <1>4, <1>6, <2>2 DEF SightInv, Seeing
  <2>. QED
    BY <2>7, <2>8, <2>9, <2>10, <2>11, <2>12, <2>13 DEF IInv
<1>. QED
  BY <1>5, <1>6 DEF Restore

\* A tree of ours holds the marker, or was cleared by us: a user's file of that name
\* makes it no longer ours as we made it.
LEMMA ClearMarkerStep ==
  ASSUME IInv, ClearMarker
  PROVE  IInv'
<1>. DEFINE rec == lock.rec
            owed == rec # None /\ rec.marker
            found == IF Target = None THEN None ELSE files[Target][Marker]
<1>1. /\ op.pc = "marker" /\ at' = at /\ mine' = mine /\ edited' = edited /\ moved' = moved
  BY DEF ClearMarker, budgets
<1>2. /\ mem = lock /\ lock \in LockFile /\ Good(lock) /\ op.up = None
      /\ rec \in Record \cup {None}
      /\ rec # None => rec \in Record /\ Shaped(rec) /\ ~rec.uncommitted
      /\ op.stage = "install" /\ rec # None /\ rec.marker => rec.snap = SnapshotOf(op.want)
      /\ op.stage \in {"begin", "install"}
  BY <1>1, LockTypes DEF IInv, TypeOK, Op, LockInv, Good, ClaimInv, RecordInv
<1>3. target \in Place /\ Target \in Tree \cup {None} /\ None \notin Tree
  BY ConstantsAssumption DEF IInv, TypeOK, Place, Target
<1>4. CASE /\ owed /\ found = Marker
           /\ files' = [files EXCEPT ![Target][Marker] = None]
           /\ UNCHANGED <<lock, mem, op>>
  <2>1. Target \in Tree /\ files[Target][Marker] = Marker
    BY <1>3, <1>4, ConstantsAssumption
  <2>2. /\ files' \in [Tree -> Listing]
        /\ files'[Target] = [files[Target] EXCEPT ![Marker] = None]
        /\ \A t \in Tree \ {Target} : files'[t] = files[t]
    BY <1>4, <2>1 DEF IInv, TypeOK, Listing
  <2>3. Own(Target) => files'[Target] = rec.snap.has
    <3>1. SUFFICES ASSUME Own(Target) PROVE files'[Target] = rec.snap.has
      OBVIOUS
    <3>2. files[Target] \in {rec.snap.has, Marked(rec.snap).has} /\ rec.snap.has[Marker] = None
      BY <1>2, <1>4, <3>1 DEF Good, OwnedInv, Describes, Shaped
    <3>3. rec.snap \in Snapshot
      BY <1>2, <1>4, RecordTypes
    <3>4. CASE files[Target] = Marked(rec.snap).has
      <4>1. rec.snap.has \in Listing
            /\ Marked(rec.snap).has = [rec.snap.has EXCEPT ![Marker] = Marker]
        BY <3>3 DEF Snapshot, Marked
      <4>2. [files[Target] EXCEPT ![Marker] = None] = rec.snap.has
        BY <3>2, <3>4, <4>1 DEF Listing
      <4>. QED
        BY <2>2, <4>2
    <3>. QED
      BY <2>1, <3>2, <3>4, ConstantsAssumption
  <2>4. Good(lock)'
    BY <1>1, <1>2, <1>4, <2>3 DEF Good, OwnedInv, PresentInv, RetainedInv, RejectInv,
       Own, Quiet, Excused, Describes, Target
  <2>5. TypeOK'
    BY <1>4, <2>2 DEF IInv, TypeOK, budgets, ClearMarker, budgets
  <2>6. HistoryInv'
    BY <1>1 DEF IInv, HistoryInv
  <2>7. LockInv'
    BY <1>1, <1>4, <2>4 DEF IInv, LockInv
  <2>8. CandidateInv'
    BY <1>1, <1>4 DEF IInv, CandidateInv, Staged
  <2>9. ClaimInv'
    BY <1>1, <1>4 DEF IInv, ClaimInv
  <2>10. RecordInv'
    BY <1>1, <1>2, <1>4 DEF RecordInv, Upgrading
  <2>11. SightInv'
    BY <1>1, <1>4 DEF IInv, SightInv, Seeing, Strange, Target
  <2>. QED
    BY <2>5, <2>6, <2>7, <2>8, <2>9, <2>10, <2>11 DEF IInv
<1>5. CASE /\ owed /\ found # Marker
           /\ Save([mem EXCEPT !.rec.marker = FALSE, !.rec.snap.has[Marker] = found])
           /\ UNCHANGED <<files, op>>
  <2>1. rec.snap \in Snapshot /\ rec.snap.has[Marker] = None
        /\ found \in Hash \cup {"user", Marker, None}
    BY <1>2, <1>3, <1>5, RecordTypes DEF Shaped, IInv, TypeOK, Listing, Name
  <2>2. [rec.snap EXCEPT !.has[Marker] = found] \in Snapshot
    BY <2>1 DEF Snapshot, Listing
  <2>3. /\ mem' = lock' /\ lock' \in LockFile /\ lock'.rec \in Record
        /\ lock'.upgrades = lock.upgrades /\ lock'.removals = lock.removals
        /\ ~lock'.rec.uncommitted /\ ~lock'.rec.marker /\ lock'.rec.pending = None
        /\ rec.pending = None
        /\ lock'.rec.snap = [rec.snap EXCEPT !.has[Marker] = found]
        /\ lock'.rec.removal = rec.removal
    BY <1>2, <1>5, <2>2 DEF Save, LockFile, Record, Shaped
  <2>4. Snapshots(lock'.rec) = {lock'.rec.snap} /\ disk' = disk /\ lock'.rec # None
    BY <1>1, <1>5, <2>3, RecordTypes, ConstantsAssumption DEF Snapshots, disk
  <2>5. ASSUME Own(Target) PROVE lock'.rec.snap = rec.snap /\ files[Target] = rec.snap.has
    <3>1. files[Target] \in {rec.snap.has, Marked(rec.snap).has}
      BY <1>2, <1>5, <2>5 DEF Good, OwnedInv, Describes
    <3>2. Target # None
      BY <1>3, <2>5 DEF Own, IInv, TypeOK
    <3>3. Marked(rec.snap).has[Marker] = Marker
      BY <2>1 DEF Marked, Snapshot, Listing, Name
    <3>4. files[Target] = rec.snap.has /\ found = None
      BY <1>5, <2>1, <3>1, <3>2, <3>3
    <3>5. rec.snap = [rec.snap EXCEPT !.has[Marker] = None]
      BY <2>1 DEF Snapshot, Listing
    <3>. QED
      BY <2>3, <3>4, <3>5
  <2>6. Good(lock')
    <3>1. \E f \in File : lock'.rec.snap.has[f] # None
      <4>1. PICK f \in File : rec.snap.has[f] # None
        BY <1>2, <1>5, <2>1, ConstantsAssumption DEF Shaped, Snapshots
      <4>2. lock'.rec.snap.has[f] = rec.snap.has[f]
        BY <2>3, ConstantsAssumption
      <4>. QED
        BY <4>1, <4>2
    <3>2. Shaped(lock'.rec)
      BY <2>3, <2>4, <3>1 DEF Shaped
    <3>3. OwnedInv(lock')
      BY <2>3, <2>4, <2>5 DEF OwnedInv, Describes
    <3>4. PresentInv(lock') /\ RetainedInv(lock') /\ RejectInv(lock')
      BY <1>2, <1>5, <2>3 DEF Good, PresentInv, RetainedInv, RejectInv, Settled
    <3>. QED
      BY <3>2, <3>3, <3>4 DEF Good
  <2>7. op.stage = "install" => (Own(Target) => files[Target] = Of(op.want))
    BY <1>2, <1>5, <2>5 DEF SnapshotOf
  <2>8. TypeOK'
    BY <1>5, <2>3 DEF IInv, TypeOK, budgets, ClearMarker
  <2>9. HistoryInv'
    BY <1>1, <1>2, <1>3, <1>5, <2>3, <2>4, HistoryStands DEF IInv
  <2>10. LockInv'
    BY <1>1, <1>5, <2>3, <2>4, <2>6, LockBecomes DEF LockInv
  <2>11. CandidateInv'
    BY <1>1, <1>5 DEF IInv, CandidateInv
  <2>12. ClaimInv'
    BY <1>1, <1>5, <2>3 DEF IInv, ClaimInv
  <2>13. RecordInv'
    BY <1>1, <1>5, <2>3 DEF RecordInv, Upgrading
  <2>14. SightInv'
    BY <1>1, <1>5, <2>7 DEF IInv, SightInv, Seeing, Own, Strange, Target
  <2>. QED
    BY <2>8, <2>9, <2>10, <2>11, <2>12, <2>13, <2>14 DEF IInv
<1>6. CASE /\ ~owed
           /\ Goto(IF op.stage = "install" THEN IF rec = None THEN "fail" ELSE "publish"
                   ELSE IF op.kind = "sync" THEN "item"
                   ELSE IF rec = None THEN "forget" ELSE "remove")
           /\ UNCHANGED <<files, lock, mem>>
  <2>1. /\ op' \in Op /\ op'.stage = op.stage /\ op'.up = op.up /\ op'.want = op.want
        /\ op'.tree = op.tree /\ op'.rej = op.rej
        /\ disk' = disk /\ lock' = lock /\ mem' = mem
        /\ \/ op'.pc = "fail" /\ rec = None
           \/ op'.pc = "publish" /\ op.stage = "install" /\ rec # None /\ ~rec.marker
           \/ op'.pc = "item" /\ op.stage # "install"
           \/ op'.pc = "forget" /\ rec = None
           \/ op'.pc = "remove" /\ rec # None
    BY <1>1, <1>6, Goes DEF disk, IInv, Pc
  <2>2. rec = None => ~Own(Target)
    BY <1>2 DEF Good, OwnedInv
  <2>3. TypeOK'
    BY <2>1 DEF IInv, TypeOK, budgets, ClearMarker
  <2>4. HistoryInv'
    BY <1>1, <1>2, <1>6, <2>1, HistoryStands DEF IInv
  <2>5. LockInv'
    BY <1>2, <2>1, LockBecomes DEF LockInv
  <2>6. CandidateInv'
    BY <1>1, <2>1 DEF IInv, CandidateInv, Staged
  <2>7. ClaimInv'
    BY <1>1, <2>1 DEF IInv, ClaimInv, Installs, Staged, Resolves
  <2>8. RecordInv'
    BY <1>2, <1>6, <2>1 DEF RecordInv, Upgrading
  <2>9. SightInv'
    BY <1>1, <1>6, <2>1, <2>2 DEF IInv, SightInv, Seeing, Own, Strange, Target
  <2>. QED
    BY <2>3, <2>4, <2>5, <2>6, <2>7, <2>8, <2>9 DEF IInv
<1>. QED
  BY <1>1, <1>2, <1>4, <1>5, <1>6 DEF ClearMarker

----------------------------------------------------------------------------
(***************************************************************************)
(* One item of a sync.                                                     *)
(***************************************************************************)

\* The identities of an installation are listed before its first rename.
LEMMA ItemStep ==
  ASSUME IInv, Item
  PROVE  IInv'
<1>. DEFINE rec == IF lock.rec = None THEN None ELSE Reconciled(lock.rec)
            unresolved == rec # None /\ (rec.uncommitted \/ rec.pending # None)
            half == [lock EXCEPT !.rec = rec]
<1>1. /\ op.pc = "item" /\ disk' = disk
      /\ mem = lock /\ lock \in LockFile /\ Good(lock)
      /\ lock.rec # None => lock.rec \in Record /\ ~lock.rec.uncommitted /\ ~lock.rec.marker
  BY LockTypes DEF Item, budgets, disk, IInv, TypeOK, LockInv, RecordInv
<1>2. /\ rec \in Record \cup {None} /\ half \in LockFile /\ half.rec = rec
      /\ half.upgrades = lock.upgrades /\ half.removals = lock.removals
      /\ rec # None => rec \in Record /\ ~rec.uncommitted /\ ~rec.marker
  BY <1>1, RecordTypes, LockTypes DEF Reconciled, Plain
<1>3. Good(half)
  <2>1. CASE lock.rec = None
    BY <1>1, <1>2, <2>1, Prunes
  <2>2. CASE lock.rec # None
    BY <1>1, <1>2, <2>2, Reconciles DEF IInv
  <2>. QED
    BY <2>1, <2>2
<1>4. ASSUME NEW pc \in Pc, Goto(pc)
      PROVE  op' \in Op /\ op'.pc = pc /\ op'.stage = op.stage /\ op'.up = op.up
  BY <1>4, Goes DEF IInv
<1>5. CASE Goto(IF lock.rec = None THEN "final" ELSE "remove") /\ UNCHANGED <<lock, mem>>
  <2>1. /\ op' \in Op /\ op'.stage = op.stage /\ op'.up = op.up /\ lock' = lock /\ mem' = mem
        /\ op'.pc = "final" \/ (op'.pc = "remove" /\ lock.rec # None)
    BY <1>4, <1>5 DEF Pc
  <2>2. TypeOK'
    BY <2>1 DEF IInv, TypeOK, budgets, Item, budgets
  <2>3. HistoryInv'
    BY <1>1, <2>1, HistoryStands DEF IInv
  <2>4. LockInv'
    BY <1>1, <2>1, LockBecomes, MemBecomes DEF LockInv
  <2>5. CandidateInv'
    BY <1>1, <2>1 DEF IInv, CandidateInv, Staged, disk
  <2>6. ClaimInv'
    BY <2>1 DEF ClaimInv, Installs, Staged, Resolves
  <2>7. RecordInv'
    BY <1>1, <2>1 DEF IInv, RecordInv, Upgrading
  <2>8. SightInv'
    BY <2>1 DEF SightInv, Seeing
  <2>. QED
    BY <2>2, <2>3, <2>4, <2>5, <2>6, <2>7, <2>8 DEF IInv
<1>6. CASE mem' = half /\ Goto("final") /\ UNCHANGED lock
  <2>1. /\ op' \in Op /\ op'.stage = op.stage /\ op'.up = op.up /\ lock' = lock /\ mem' = half
        /\ op'.pc = "final"
    BY <1>4, <1>6 DEF Pc
  <2>2. TypeOK'
    BY <1>2, <2>1 DEF IInv, TypeOK, budgets, Item, budgets
  <2>3. HistoryInv'
    BY <1>1, <1>2, <2>1, HistoryStands DEF IInv
  <2>4. LockInv'
    BY <1>1, <1>3, <2>1, LockBecomes, MemBecomes DEF LockInv
  <2>5. CandidateInv'
    BY <1>1, <2>1 DEF IInv, CandidateInv, Staged, disk
  <2>6. ClaimInv'
    BY <2>1 DEF ClaimInv, Installs, Staged, Resolves
  <2>7. RecordInv'
    BY <2>1 DEF RecordInv, Upgrading
  <2>8. SightInv'
    BY <2>1 DEF SightInv, Seeing
  <2>. QED
    BY <2>2, <2>3, <2>4, <2>5, <2>6, <2>7, <2>8 DEF IInv
<1>7. CASE /\ ~unresolved /\ UpToDate(rec)
           /\ Save(IF rec.removal = None THEN half
                   ELSE [mem EXCEPT !.rec = Plain(rec.snap), !.removals = Existing(@)])
           /\ Goto("final")
  <2>1. /\ op' \in Op /\ op'.stage = op.stage /\ op'.up = op.up /\ lock' = mem'
        /\ op'.pc = "final"
    BY <1>4, <1>7 DEF Pc, Save
  <2>2. rec \in Record /\ rec.snap \in Snapshot /\ Target # None
    BY <1>2, <1>7, RecordTypes DEF UpToDate, Intact
  <2>3. CASE lock' = half
    <3>1. TypeOK'
      BY <1>2, <2>1, <2>3 DEF IInv, TypeOK, budgets, Item, budgets
    <3>2. HistoryInv'
      BY <1>1, <1>2, <2>1, <2>3, HistoryStands DEF IInv
    <3>3. LockInv'
      BY <1>1, <1>3, <2>1, <2>3, LockBecomes, MemBecomes DEF LockInv
    <3>4. CandidateInv'
      BY <1>1, <2>1 DEF IInv, CandidateInv, Staged, disk
    <3>5. ClaimInv'
      BY <2>1 DEF ClaimInv, Installs, Staged, Resolves
    <3>6. RecordInv'
      BY <2>1 DEF RecordInv, Upgrading
    <3>7. SightInv'
      BY <2>1 DEF SightInv, Seeing
    <3>. QED
      BY <3>1, <3>2, <3>3, <3>4, <3>5, <3>6, <3>7 DEF IInv
  <2>4. CASE lock' = [mem EXCEPT !.rec = Plain(rec.snap), !.removals = Existing(@)]
    <3>1. /\ Plain(rec.snap) \in Record /\ Plain(rec.snap) # None
          /\ Snapshots(Plain(rec.snap)) = {rec.snap} /\ Snapshots(rec) = {rec.snap}
      BY <1>7, <2>2, SnapshotFacts, ConstantsAssumption DEF Plain, Snapshots
    <3>2. /\ lock' \in LockFile /\ lock'.rec = Plain(rec.snap) /\ lock'.upgrades = lock.upgrades
          /\ lock'.removals = Existing(lock.removals)
      BY <1>1, <2>4, <3>1 DEF LockFile, Existing
    <3>3. ~lock'.rec.uncommitted /\ ~lock'.rec.marker
      BY <3>2 DEF Plain
    <3>4. Shaped(lock'.rec)
      <4>. HIDE DEF half, rec
      <4>1. Shaped(rec)
        BY <1>2, <1>3, <2>2, ConstantsAssumption DEF Good
      <4>2. \E f \in File : rec.snap.has[f] # None
        BY <3>1, <4>1 DEF Shaped
      <4>. QED
        BY <3>1, <3>2, <3>3, <4>2 DEF Shaped
    <3>5. OwnedInv(lock')
      BY <1>2, <1>3, <3>1, <3>2, <3>3 DEF Good, OwnedInv, Describes
    <3>6. PresentInv(lock') /\ RetainedInv(lock') /\ RejectInv(lock')
      BY <1>1, <2>2, <3>2, <3>3 DEF Good, PresentInv, RetainedInv, RejectInv, Existing
    <3>7. Good(lock')
      BY <3>4, <3>5, <3>6 DEF Good
    <3>8. TypeOK'
      BY <2>1, <3>2 DEF IInv, TypeOK, budgets, Item, budgets
    <3>9. HistoryInv'
      BY <1>1, <2>1, <3>2, HistoryStands DEF IInv
    <3>10. LockInv'
      BY <1>1, <2>1, <3>7, LockBecomes, MemBecomes DEF LockInv
    <3>11. CandidateInv'
      BY <1>1, <2>1 DEF IInv, CandidateInv, Staged, disk
    <3>12. ClaimInv'
      BY <2>1 DEF ClaimInv, Installs, Staged, Resolves
    <3>13. RecordInv'
      BY <2>1 DEF RecordInv, Upgrading
    <3>14. SightInv'
      BY <2>1 DEF SightInv, Seeing
    <3>. QED
      BY <3>8, <3>9, <3>10, <3>11, <3>12, <3>13, <3>14 DEF IInv
  <2>. QED
    BY <1>1, <1>7, <2>3, <2>4 DEF Save
<1>8. CASE op.want # None /\ ~unresolved /\ Prepare(rec)
  <2>. DEFINE up == IF rec = None THEN None ELSE Least(FreshIds)
              rej == Least(FreshIds \ {up})
              kept == IF rec = None THEN lock.upgrades ELSE Existing(lock.upgrades) \cup {up}
  <2>1. /\ Claim(rec, up, rej, kept \cup {rej})
        /\ rej \in FreshIds \ {up} /\ (rec # None => up \in FreshIds) /\ FreshIds \subseteq Id
    BY <1>1, <1>8, FreshIdsFacts DEF Prepare
  <2>2. /\ up \in Id \cup {None} /\ rej \in Id /\ up # rej /\ (up = None <=> rec = None)
        /\ at[rej] = None /\ (up # None => at[up] = None)
    BY <2>1, ConstantsAssumption DEF FreshIds
  <2>3. kept \subseteq Id /\ (up # None => up \in kept)
        /\ \A i \in lock.upgrades : at[i] # None => i \in kept
    BY <1>1, <2>2, LockTypes DEF Existing
  <2>. DEFINE strict == InterruptedRemoval(rec)
  <2>4. op.want \in Version /\ strict \in BOOLEAN
    BY <1>8 DEF IInv, TypeOK, Op, InterruptedRemoval
  <2>. HIDE DEF up, rej, kept, strict
  <2>5. /\ op' \in Op /\ op'.pc = "download" /\ op'.stage = "install" /\ op'.up = up
        /\ op'.rej = rej /\ op'.want = op.want
    <3>1. op' = [op EXCEPT !.pc = "download", !.stage = "install", !.up = up, !.rej = rej,
                           !.strict = strict]
      BY <2>1 DEF Claim, strict
    <3>2. /\ op.kind \in {"sync", "delete"} /\ op.tree \in Tree \cup {None}
          /\ op' = [pc |-> "download", kind |-> op.kind, stage |-> "install",
                    want |-> op.want, tree |-> op.tree, up |-> up, rej |-> rej,
                    strict |-> strict]
      BY <3>1 DEF IInv, TypeOK, Op
    <3>. QED
      BY <2>2, <2>4, <3>2 DEF Op, Pc
  <2>6. /\ mem' = lock' /\ lock' \in LockFile /\ lock'.rec = rec
        /\ lock'.upgrades = kept \cup {rej} /\ lock'.removals = lock.removals
    BY <1>1, <1>2, <2>1, <2>2, <2>3 DEF Claim, Save, LockFile
  <2>7. Good(lock')
    BY <1>2, <1>3, <2>3, <2>6, Prunes
  <2>8. TypeOK'
    BY <2>5, <2>6 DEF IInv, TypeOK, budgets, Item, budgets
  <2>9. HistoryInv'
    BY <1>1, <1>2, <2>2, <2>3, <2>4, <2>5, <2>6, HistoryStands DEF IInv
  <2>10. LockInv'
    BY <1>1, <2>5, <2>6, <2>7, LockBecomes DEF LockInv
  <2>11. CandidateInv'
    BY <1>1, <2>5 DEF IInv, CandidateInv, Staged, disk
  <2>12. ClaimInv'
    BY <1>1, <2>2, <2>3, <2>4, <2>5, <2>6 DEF ClaimInv, disk
  <2>13. RecordInv'
    BY <1>2, <2>2, <2>5, <2>6, <1>8 DEF RecordInv, Upgrading
  <2>14. SightInv'
    BY <2>5 DEF SightInv, Seeing
  <2>. QED
    BY <2>8, <2>9, <2>10, <2>11, <2>12, <2>13, <2>14 DEF IInv
<1>. QED
  BY <1>1, <1>5, <1>6, <1>7, <1>8 DEF Item

\* A fresh directory is of no other pathname and of no user.
LEMMA ExtractStep ==
  ASSUME IInv, Extract
  PROVE  IInv'
<1>. DEFINE t == Least(FreshTrees)
<1>1. t \in Tree /\ t \notin {at[p] : p \in Place}
  BY LeastIn DEF Extract, FreshTrees, Tree
<1>. HIDE DEF t
<1>2. /\ op.pc = "download" /\ lock' = lock /\ mem' = mem
      /\ edited' = edited /\ moved' = moved
      /\ at' = [at EXCEPT ![candidate] = t] /\ files' = [files EXCEPT ![t] = Of(op.want)]
      /\ mine' = mine \cup {t} /\ op' = [op EXCEPT !.pc = "commit", !.tree = t]
  BY DEF Extract, budgets, t
<1>3. /\ op.want \in Version /\ op.stage = "install" /\ mem = lock /\ Good(lock)
      /\ at[candidate] = None /\ lock \in LockFile
      /\ lock.rec # None => ~lock.rec.uncommitted /\ ~lock.rec.marker
  BY <1>2 DEF IInv, TypeOK, ClaimInv, Installs, LockInv, CandidateInv, Staged, RecordInv
<1>4. /\ op' \in Op /\ op'.pc = "commit" /\ op'.tree = t /\ op'.stage = op.stage
      /\ op'.up = op.up /\ op'.rej = op.rej /\ op'.want = op.want
  BY <1>1, <1>2 DEF IInv, TypeOK, Op, Pc
<1>5. /\ candidate \in Place /\ target \in Place \ {candidate}
      /\ Id \subseteq Place \ {candidate}
      /\ None \notin Tree
  BY Pathnames, ConstantsAssumption DEF Place
<1>6. /\ at' \in [Place -> Tree \cup {None}] /\ at'[candidate] = t
      /\ \A p \in Place \ {candidate} : at'[p] = at[p] /\ at[p] # t
      /\ files' \in [Tree -> Listing] /\ files'[t] = Of(op.want)
      /\ \A u \in Tree \ {t} : files'[u] = files[u]
  BY <1>1, <1>2, <1>3, <1>5, SnapshotFacts DEF IInv, TypeOK
<1>7. /\ \A p, q \in Place : at'[p] = at'[q] /\ p # q => at'[p] = None
      /\ Target' = Target /\ Target \in Tree \cup {None} /\ Target # t
  BY <1>5, <1>6 DEF IInv, TypeOK, Target
<1>8. t \notin edited \cup moved
  BY <1>1 DEF IInv, HistoryInv
<1>9. Good(lock)'
  <2>1. OwnedInv(lock)' /\ PresentInv(lock)'
    BY <1>2, <1>3, <1>7 DEF Good, OwnedInv, PresentInv, Own, Quiet, Describes
  <2>2. RetainedInv(lock)' /\ RejectInv(lock)'
    BY <1>2, <1>3, <1>5, <1>6 DEF Good, RetainedInv, RejectInv, Excused
  <2>. QED
    BY <1>2, <1>3, <2>1, <2>2 DEF Good
<1>10. /\ op.rej \in lock.upgrades /\ op.rej \in Id /\ at[op.rej] = None
       /\ op.up # None => op.up \in Id /\ op.up # op.rej /\ op.up \in lock.upgrades
             /\ at[op.up] = None
  BY <1>2, <1>3, LockTypes DEF IInv, ClaimInv, Installs
<1>11. TypeOK'
  BY <1>4, <1>6 DEF IInv, TypeOK, budgets, Extract
<1>12. HistoryInv'
  BY <1>2 DEF IInv, HistoryInv
<1>13. LockInv'
  BY <1>2, <1>3, <1>4, <1>9 DEF LockInv
<1>14. CandidateInv'
  BY <1>2, <1>6 DEF CandidateInv, Staged
<1>15. ClaimInv'
  BY <1>2, <1>3, <1>5, <1>10 DEF ClaimInv
<1>16. RecordInv'
  BY <1>2 DEF IInv, RecordInv, Upgrading
<1>17. SightInv'
  BY <1>4 DEF SightInv, Seeing
<1>. QED
  BY <1>11, <1>12, <1>13, <1>14, <1>15, <1>16, <1>17 DEF IInv

\* A download that fails leaves the journal as it was written before it.
LEMMA DownloadFailsStep ==
  ASSUME IInv, DownloadFails
  PROVE  IInv'
<1>1. /\ op' \in Op /\ op'.pc = "fail" /\ op'.stage = op.stage /\ op'.up = op.up
      /\ op.pc = "download" /\ lock' = lock /\ mem' = mem /\ disk' = disk
  BY Goes DEF DownloadFails, IInv, Pc, budgets, disk
<1>2. TypeOK'
  BY <1>1 DEF IInv, TypeOK, budgets, DownloadFails
<1>3. HistoryInv'
  BY <1>1, HistoryStands DEF IInv
<1>4. LockInv'
  BY <1>1, LockBecomes DEF IInv, LockInv
<1>5. CandidateInv'
  BY <1>1 DEF IInv, CandidateInv, Staged, disk
<1>6. ClaimInv'
  BY <1>1 DEF ClaimInv, Installs, Staged, Resolves
<1>7. RecordInv'
  BY <1>1 DEF IInv, RecordInv, Upgrading
<1>8. SightInv'
  BY <1>1 DEF IInv, SightInv, Seeing, RecordInv
<1>. QED
  BY <1>2, <1>3, <1>4, <1>5, <1>6, <1>7, <1>8 DEF IInv

\* What is lost was in memory only.
LEMMA SupersededStep ==
  ASSUME IInv, Superseded
  PROVE  IInv'
<1>1. /\ op' \in Op /\ op'.pc = "idle" /\ op'.stage = "begin" /\ op'.up = None
      /\ op.pc \in {"download", "final"} /\ lock' = lock /\ mem' \in LockFile /\ disk' = disk
  BY Aborts DEF Superseded, budgets, disk
<1>2. TypeOK'
  BY <1>1 DEF IInv, TypeOK, budgets, Superseded
<1>3. HistoryInv'
  BY <1>1, HistoryStands DEF IInv
<1>4. LockInv'
  BY <1>1, LockBecomes DEF IInv, LockInv
<1>5. CandidateInv'
  BY <1>1 DEF IInv, CandidateInv, Staged, disk
<1>6. ClaimInv'
  BY <1>1 DEF ClaimInv, Installs, Staged
<1>7. RecordInv'
  BY <1>1 DEF IInv, RecordInv, Upgrading
<1>8. SightInv'
  BY <1>1 DEF SightInv, Seeing
<1>. QED
  BY <1>2, <1>3, <1>4, <1>5, <1>6, <1>7, <1>8 DEF IInv

\* The journal describes what is at the target now and what will be.
LEMMA CommitStep ==
  ASSUME IInv, Commit
  PROVE  IInv'
<1>. DEFINE refused == IF op.up = None THEN Target # None
                       ELSE HasUntracked(Target, Paths(mem.rec.snap))
<1>1. /\ op.pc = "commit" /\ edited' = edited /\ moved' = moved
      /\ mem = lock /\ lock \in LockFile /\ Good(lock)
      /\ op.up = None <=> lock.rec = None
      /\ lock.rec # None => lock.rec \in Record /\ lock.rec.pending = None
                            /\ ~lock.rec.uncommitted /\ ~lock.rec.marker
  BY LockTypes DEF Commit, budgets, IInv, TypeOK, LockInv, RecordInv
<1>2. /\ op.want \in Version /\ op.stage = "install" /\ op.rej \in lock.upgrades
      /\ op.rej \in Id /\ op.tree \in mine /\ op.tree \in Tree
      /\ at[candidate] = op.tree /\ files[op.tree] = Of(op.want)
  BY <1>1, LockTypes DEF IInv, TypeOK, ClaimInv, Installs, Staged, CandidateInv
<1>3. /\ candidate \in Place /\ target \in Place \ {candidate}
      /\ Id \subseteq Place \ {candidate}
      /\ None \notin Tree /\ None \notin Snapshot
  BY Pathnames, ConstantsAssumption DEF Place
<1>4. CASE refused /\ DiscardCandidate /\ Goto("fail") /\ UNCHANGED <<lock, mem>>
  <2>1. /\ op' \in Op /\ op'.pc = "fail" /\ op'.stage = op.stage /\ op'.up = op.up
        /\ lock' = lock /\ mem' = mem
    BY <1>4, Goes DEF IInv, Pc
  <2>2. Good(lock)' /\ HistoryInv'
    BY <1>1, <1>4, <2>1, Discards, DiscardStands DEF IInv
  <2>3. TypeOK'
    BY <2>1, <1>4, Discards DEF IInv, TypeOK, budgets, Commit, budgets
  <2>4. HistoryInv'
    BY <2>2
  <2>5. LockInv'
    BY <1>1, <2>1, <2>2 DEF LockInv
  <2>6. CandidateInv'
    BY <1>1, <2>1, <1>4, Discards DEF IInv, CandidateInv, Staged
  <2>7. ClaimInv'
    BY <2>1 DEF ClaimInv, Installs, Staged, Resolves
  <2>8. RecordInv'
    BY <1>1, <2>1 DEF IInv, RecordInv, Upgrading
  <2>9. SightInv'
    BY <1>1, <2>1 DEF SightInv, Seeing
  <2>. QED
    BY <2>3, <2>4, <2>5, <2>6, <2>7, <2>8, <2>9 DEF IInv
<1>5. CASE /\ ~refused /\ op.up = None
           /\ files' = [files EXCEPT ![op.tree][Marker] = Marker]
           /\ Save([mem EXCEPT !.rec = [Plain(SnapshotOf(op.want)) EXCEPT
                      !.uncommitted = TRUE, !.ident = op.tree, !.marker = TRUE,
                      !.reject = op.rej]])
           /\ Goto("expose")
           /\ UNCHANGED <<at, mine>>
  <2>. DEFINE new == [Plain(SnapshotOf(op.want)) EXCEPT !.uncommitted = TRUE, !.ident = op.tree,
                                                       !.marker = TRUE, !.reject = op.rej]
  <2>1. /\ op' \in Op /\ op'.pc = "expose" /\ op'.stage = op.stage /\ op'.want = op.want
        /\ op'.tree = op.tree /\ op'.up = op.up /\ op'.rej = op.rej
    BY <1>5, Goes DEF IInv, Pc
  <2>2. SnapshotOf(op.want) \in Snapshot /\ Of(op.want) \in Listing
    BY <1>2, SnapshotFacts
  <2>3. /\ new \in Record /\ new # None /\ new.uncommitted /\ new.marker /\ new.ident = op.tree
        /\ new.reject = op.rej /\ new.snap = SnapshotOf(op.want) /\ new.pending = None
        /\ new.removal = None
    BY <1>2, <2>2, ConstantsAssumption DEF Plain, Record
  <2>4. Snapshots(new) = {SnapshotOf(op.want)}
    BY <1>3, <2>2, <2>3 DEF Snapshots
  <2>. HIDE DEF new
  <2>5. /\ mem' = lock' /\ lock' \in LockFile /\ lock'.rec = new
        /\ lock'.upgrades = lock.upgrades /\ lock'.removals = lock.removals
    BY <1>1, <1>5, <2>3 DEF Save, LockFile, new
  <2>6. /\ files' \in [Tree -> Listing] /\ files'[op.tree] = Marked(SnapshotOf(op.want)).has
        /\ at' = at /\ mine' = mine /\ Target = None
    BY <1>2, <1>5, <2>2 DEF IInv, TypeOK, Listing, Name, Marked, SnapshotOf
  <2>7. Good(lock)'
    <3>1. Shaped(new)
      BY <1>2, <2>3, <2>4, SnapshotFacts DEF Shaped, SnapshotOf, Of, Name
    <3>2. OwnedInv(lock)' /\ PresentInv(lock)'
      BY <1>3, <2>3, <2>5, <2>6 DEF OwnedInv, PresentInv, Settled, Own, Target, IInv,
         TypeOK
    <3>3. RetainedInv(lock)' /\ RejectInv(lock)'
      BY <1>1, <1>2, <2>3, <2>5, <2>6 DEF Good, RetainedInv, RejectInv, Excused
    <3>4. Shaped(lock.rec)'
      BY <2>5, <3>1 DEF Shaped
    <3>. QED
      BY <3>2, <3>3, <3>4 DEF Good
  <2>8. TypeOK'
    BY <2>1, <2>5, <2>6 DEF IInv, TypeOK, budgets, Commit, budgets
  <2>9. HistoryInv'
    BY <1>1, <2>6 DEF IInv, HistoryInv
  <2>10. LockInv'
    BY <2>1, <2>5, <2>7 DEF LockInv
  <2>11. CandidateInv'
    BY <1>2, <2>1, <2>6 DEF CandidateInv, Staged
  <2>12. ClaimInv'
    BY <1>1, <1>5, <2>1, <2>5 DEF IInv, ClaimInv, Installs, Staged
  <2>13. RecordInv'
    BY <2>1, <2>3, <2>5 DEF RecordInv, Upgrading
  <2>14. SightInv'
    BY <2>1 DEF SightInv, Seeing
  <2>. QED
    BY <2>8, <2>9, <2>10, <2>11, <2>12, <2>13, <2>14 DEF IInv
<1>6. CASE /\ ~refused /\ op.up # None
           /\ Save([mem EXCEPT !.rec = [Plain(mem.rec.snap) EXCEPT
                      !.pending = SnapshotOf(op.want)]])
           /\ Goto("aside")
           /\ UNCHANGED <<at, files, mine>>
  <2>. DEFINE new == [Plain(lock.rec.snap) EXCEPT !.pending = SnapshotOf(op.want)]
  <2>1. /\ op' \in Op /\ op'.pc = "aside" /\ op'.stage = op.stage /\ op'.want = op.want
        /\ op'.tree = op.tree /\ op'.up = op.up /\ op'.rej = op.rej /\ disk' = disk
    BY <1>1, <1>6, Goes DEF IInv, Pc, disk
  <2>2. SnapshotOf(op.want) \in Snapshot /\ lock.rec.snap \in Snapshot /\ lock.rec \in Record
    BY <1>1, <1>2, <1>6, SnapshotFacts, RecordTypes
  <2>3. /\ new \in Record /\ new # None /\ ~new.uncommitted /\ ~new.marker
        /\ new.snap = lock.rec.snap /\ new.pending = SnapshotOf(op.want) /\ new.removal = None
    BY <2>2, ConstantsAssumption DEF Plain, Record
  <2>4. Snapshots(new) = {lock.rec.snap, SnapshotOf(op.want)}
        /\ Snapshots(lock.rec) = {lock.rec.snap}
    BY <1>1, <1>3, <2>2, <2>3, RecordTypes DEF Snapshots
  <2>. HIDE DEF new
  <2>5. /\ mem' = lock' /\ lock' \in LockFile /\ lock'.rec = new
        /\ lock'.upgrades = lock.upgrades /\ lock'.removals = lock.removals
    BY <1>1, <1>6, <2>3 DEF Save, LockFile, new
  <2>6. Good(lock')
    <3>1. Shaped(lock'.rec)
      BY <1>1, <1>2, <2>2, <2>3, <2>4, <2>5, SnapshotFacts, RecordTypes DEF Good,
         Shaped, SnapshotOf
    <3>2. OwnedInv(lock')
      BY <1>1, <2>3, <2>4, <2>5 DEF Good, OwnedInv, Describes
    <3>3. PresentInv(lock') /\ RetainedInv(lock') /\ RejectInv(lock')
      BY <1>1, <1>3, <2>2, <2>3, <2>5 DEF Good, PresentInv, RetainedInv, RejectInv,
         Settled
    <3>. QED
      BY <3>1, <3>2, <3>3 DEF Good
  <2>7. TypeOK'
    BY <1>6, <2>1, <2>5 DEF IInv, TypeOK, budgets, Commit, budgets
  <2>8. HistoryInv'
    BY <1>1, <1>2, <1>6, <2>1, <2>3, <2>5, HistoryStands DEF IInv
  <2>9. LockInv'
    BY <2>1, <2>5, <2>6, LockBecomes DEF LockInv
  <2>10. CandidateInv'
    BY <1>2, <1>6, <2>1 DEF CandidateInv, Staged
  <2>11. ClaimInv'
    BY <1>1, <1>6, <2>1, <2>5 DEF IInv, ClaimInv, Installs, Staged
  <2>12. RecordInv'
    BY <2>1, <2>3, <2>5 DEF RecordInv
  <2>13. SightInv'
    BY <2>1 DEF SightInv, Seeing
  <2>. QED
    BY <2>7, <2>8, <2>9, <2>10, <2>11, <2>12, <2>13 DEF IInv
<1>. QED
  BY <1>4, <1>5, <1>6 DEF Commit

\* The journal names the candidate; whatever else is at the target is not ours.
LEMMA ExposeStep ==
  ASSUME IInv, Expose
  PROVE  IInv'
<1>1. /\ op.pc = "expose" /\ edited' = edited /\ moved' = moved
      /\ mem = lock /\ lock \in LockFile /\ Good(lock) /\ op.up = None
      /\ lock.rec # None /\ lock.rec.uncommitted /\ lock.rec.ident = op.tree
      /\ lock.rec.reject = op.rej
      /\ lock.rec.marker /\ op.stage = "install"
      /\ op.tree \in mine /\ op.tree \in Tree /\ at[candidate] = op.tree
      /\ files[op.tree] = Marked(SnapshotOf(op.want)).has
  BY DEF Expose, budgets, IInv, TypeOK, LockInv, RecordInv, ClaimInv, Installs, Staged,
     CandidateInv, Good, Shaped
<1>2. /\ candidate \in Place /\ target \in Place \ {candidate}
      /\ Id \subseteq Place \ {candidate, target}
      /\ None \notin Tree
  BY Pathnames, ConstantsAssumption DEF Place
<1>3. lock.rec.snap = SnapshotOf(op.want)
  BY <1>1 DEF IInv, RecordInv
<1>4. CASE Vacant(target) /\ Move(candidate, target) /\ Goto("verify")
      /\ UNCHANGED <<files, lock, mem, mine>>
  <2>1. /\ op' \in Op /\ op'.pc = "verify" /\ op'.stage = op.stage /\ op'.want = op.want
        /\ op'.tree = op.tree /\ op'.up = op.up /\ op'.rej = op.rej
        /\ files' = files /\ mine' = mine /\ lock' = lock /\ mem' = mem
    BY <1>4, Goes DEF IInv, Pc
  <2>2. /\ at' \in [Place -> Tree \cup {None}] /\ at'[candidate] = None /\ at'[target] = op.tree
        /\ \A p \in Place \ {target, candidate} : at'[p] = at[p]
    BY <1>1, <1>2, <1>4 DEF IInv, TypeOK, Move
  <2>3. /\ \A p, q \in Place : at'[p] = at'[q] /\ p # q => at'[p] = None
        /\ \A p \in Place : \E q \in Place \ {candidate} : at[p] # None => at'[q] = at[p]
    BY <1>1, <1>2, <1>4, <2>2 DEF IInv, TypeOK, Vacant
  <2>4. \A p \in Place : at'[p] # None => \E q \in Place : at[q] = at'[p]
    BY <1>1, <1>2, <2>2
  <2>5. Good(lock)'
    <3>1. OwnedInv(lock)' /\ PresentInv(lock)'
      BY <1>1, <1>2, <1>3, <2>1, <2>2 DEF OwnedInv, PresentInv, Describes, Target
    <3>2. RetainedInv(lock)' /\ RejectInv(lock)'
      BY <1>1, <1>2, <2>1, <2>2 DEF Good, RetainedInv, RejectInv, Excused
    <3>. QED
      BY <1>1, <2>1, <3>1, <3>2 DEF Good
  <2>6. TypeOK'
    BY <2>1, <2>2, <2>3 DEF IInv, TypeOK, budgets, Expose, budgets
  <2>7. HistoryInv'
    BY <1>1, <2>1, <2>3, <2>4, HistoryMoves DEF IInv
  <2>8. LockInv'
    BY <1>1, <2>1, <2>5 DEF LockInv
  <2>9. CandidateInv'
    BY <2>1, <2>2 DEF CandidateInv, Staged
  <2>10. ClaimInv'
    BY <1>1, <1>2, <2>1, <2>2, LockTypes DEF IInv, ClaimInv, Installs, Staged
  <2>11. RecordInv'
    BY <1>1, <2>1 DEF IInv, RecordInv, Upgrading
  <2>12. SightInv'
    BY <1>1, <2>1, <2>2 DEF SightInv, Target
  <2>. QED
    BY <2>6, <2>7, <2>8, <2>9, <2>10, <2>11, <2>12 DEF IInv
<1>5. CASE /\ ~Vacant(target) /\ DiscardCandidate
           /\ Save([mem EXCEPT !.rec = None]) /\ Goto("fail")
  <2>1. op' \in Op /\ op'.pc = "fail" /\ op'.stage = op.stage /\ op'.up = op.up
    BY <1>5, Goes DEF IInv, Pc
  <2>2. /\ mem' = lock' /\ lock' \in LockFile /\ lock'.rec = None
        /\ lock'.upgrades = lock.upgrades /\ lock'.removals = lock.removals
    BY <1>1, <1>5 DEF Save, LockFile
  <2>3. ~Own(Target)
    BY <1>1, <1>2 DEF Good, OwnedInv, Describes, Target, IInv, TypeOK
  <2>4. Good(lock')
    BY <1>1, <2>2, <2>3 DEF Good, OwnedInv, PresentInv, RetainedInv, RejectInv
  <2>5. Good(lock)' /\ HistoryInv'
    BY <1>1, <1>5, <2>4, Discards, DiscardStands DEF IInv
  <2>6. TypeOK'
    BY <2>1, <2>2, <1>5, Discards DEF IInv, TypeOK, budgets, Expose, budgets
  <2>7. HistoryInv'
    BY <2>5
  <2>8. LockInv'
    BY <1>1, <2>1, <2>2, <2>5 DEF LockInv
  <2>9. CandidateInv'
    BY <1>1, <2>1, <1>5, Discards DEF IInv, CandidateInv, Staged
  <2>10. ClaimInv'
    BY <2>1 DEF ClaimInv, Installs, Staged, Resolves
  <2>11. RecordInv'
    BY <2>1 DEF RecordInv, Upgrading
  <2>12. SightInv'
    BY <2>1, <2>2 DEF SightInv, Seeing
  <2>. QED
    BY <2>6, <2>7, <2>8, <2>9, <2>10, <2>11, <2>12 DEF IInv
<1>. QED
  BY <1>4, <1>5 DEF Expose

\* The tree set aside goes to an identity the lockfile has had since Item.
LEMMA SetAsideStep ==
  ASSUME IInv, SetAside
  PROVE  IInv'
<1>1. /\ op.pc = "aside" /\ files' = files /\ mine' = mine /\ edited' = edited /\ moved' = moved
      /\ lock' = lock /\ mem' = mem
  BY DEF SetAside, budgets
<1>2. /\ at[op.up] = None
      /\ mem = lock /\ lock \in LockFile /\ Good(lock) /\ op.up # None
      /\ lock.rec \in Record /\ lock.rec.pending = SnapshotOf(op.want)
      /\ ~lock.rec.uncommitted /\ ~lock.rec.marker /\ op.stage = "install"
      /\ op.rej \in lock.upgrades /\ op.rej \in Id /\ at[op.rej] = None
      /\ op.up \in lock.upgrades /\ op.up \in Id /\ op.up # op.rej
      /\ op.tree \in mine /\ op.tree \in Tree /\ at[candidate] = op.tree
      /\ files[op.tree] = Of(op.want) /\ op.want \in Version
  BY <1>1, LockTypes DEF IInv, TypeOK, LockInv, RecordInv, Upgrading, ClaimInv,
     Installs, Staged, CandidateInv
<1>3. /\ candidate \in Place /\ target \in Place \ {candidate} /\ None \notin Tree
      /\ Id \subseteq Place \ {candidate, target} /\ None \notin Snapshot
      /\ SnapshotOf(op.want) \in Snapshot
  BY <1>2, SnapshotFacts, Pathnames, ConstantsAssumption DEF Place
<1>4. /\ op' \in Op /\ op'.pc = "audit" /\ op'.stage = op.stage /\ op'.want = op.want
      /\ op'.tree = op.tree /\ op'.up = op.up /\ op'.rej = op.rej
  BY Goes DEF SetAside, IInv, Pc
<1>5. /\ at' \in [Place -> Tree \cup {None}] /\ at'[target] = None /\ at'[op.up] = Target
      /\ \A p \in Place \ {target, op.up} : at'[p] = at[p]
  BY <1>2, <1>3 DEF SetAside, IInv, TypeOK, Move, Target
<1>6. /\ \A p, q \in Place : at'[p] = at'[q] /\ p # q => at'[p] = None
      /\ \A p \in Place : at'[p] # None => \E q \in Place : at[q] = at'[p]
      /\ \A p \in Place \ {candidate} : at[p] # None
            => \E q \in Place \ {candidate} : at'[q] = at[p]
  BY <1>2, <1>3, <1>5 DEF IInv, TypeOK, Target
<1>7. ~Own(Target)'
  BY <1>3, <1>1, <1>5 DEF IInv, TypeOK, Own, Target
<1>8. Own(at[target]) => \E s \in Snapshots(lock.rec) : files[at[target]] = s.has
  BY <1>2 DEF Good, OwnedInv, Describes, Target
<1>9. Good(lock)'
  <2>1. OwnedInv(lock)' /\ PresentInv(lock)'
    BY <1>1, <1>2, <1>3, <1>7 DEF OwnedInv, PresentInv, Settled
  <2>2. RetainedInv(lock)' /\ RejectInv(lock)'
    BY <1>1, <1>2, <1>3, <1>5 DEF Good, RetainedInv, RejectInv, Excused
  <2>. QED
    BY <1>1, <1>2, <2>1, <2>2 DEF Good
<1>10. TypeOK'
  BY <1>4, <1>5, <1>6 DEF IInv, TypeOK, budgets, SetAside, budgets
<1>11. HistoryInv'
  BY <1>1, <1>6, HistoryMoves DEF IInv
<1>12. LockInv'
  BY <1>1, <1>2, <1>4, <1>9 DEF LockInv
<1>13. CandidateInv'
  BY <1>1, <1>2, <1>3, <1>4, <1>5 DEF CandidateInv, Staged
<1>14. ClaimInv'
  BY <1>1, <1>2, <1>3, <1>4, <1>5 DEF ClaimInv
<1>15. RecordInv'
  BY <1>1, <1>4 DEF IInv, RecordInv, Upgrading
<1>16. SightInv'
  BY <1>1, <1>4, <1>5, <1>7, <1>8 DEF SightInv, Seeing, Own, Target
<1>. QED
  BY <1>10, <1>11, <1>12, <1>13, <1>14, <1>15, <1>16 DEF IInv

\* What goes back is what the journal still describes.
LEMMA AuditAsideStep ==
  ASSUME IInv, AuditAside
  PROVE  IInv'
<1>. DEFINE aside == at[op.up]
<1>1. /\ op.pc = "audit" /\ edited' = edited /\ moved' = moved /\ lock' = lock /\ mem' = mem
  BY DEF AuditAside, budgets
<1>2. /\ ~Own(Target)
      /\ Own(aside) => \E s \in Snapshots(lock.rec) : files[aside] = s.has
      /\ mem = lock /\ lock \in LockFile /\ Good(lock) /\ op.up # None
      /\ lock.rec \in Record /\ lock.rec.pending = SnapshotOf(op.want)
      /\ ~lock.rec.uncommitted /\ ~lock.rec.marker /\ op.stage = "install"
      /\ op.rej \in lock.upgrades /\ op.rej \in Id /\ at[op.rej] = None
      /\ op.up \in lock.upgrades /\ op.up \in Id /\ op.up # op.rej
      /\ op.tree \in mine /\ op.tree \in Tree /\ at[candidate] = op.tree
      /\ files[op.tree] = Of(op.want) /\ op.want \in Version
  BY <1>1, LockTypes DEF IInv, TypeOK, LockInv, RecordInv, Upgrading, ClaimInv,
     Installs, Staged, CandidateInv, SightInv
<1>3. /\ candidate \in Place /\ target \in Place \ {candidate} /\ None \notin Tree
      /\ Id \subseteq Place \ {candidate, target} /\ None \notin Snapshot
      /\ SnapshotOf(op.want) \in Snapshot
  BY <1>2, SnapshotFacts, Pathnames, ConstantsAssumption DEF Place
<1>4. CASE Goto("swap") /\ UNCHANGED <<at, files, mine>>
  <2>1. /\ op' \in Op /\ op'.pc = "swap" /\ op'.stage = op.stage /\ op'.want = op.want
        /\ op'.tree = op.tree /\ op'.up = op.up /\ op'.rej = op.rej /\ disk' = disk
    BY <1>1, <1>4, Goes DEF IInv, Pc, disk
  <2>2. TypeOK'
    BY <2>1 DEF IInv, TypeOK, budgets, AuditAside, budgets, disk
  <2>3. HistoryInv'
    BY <1>1, <1>2, <1>3, <2>1, HistoryStands DEF IInv
  <2>4. LockInv'
    BY <1>1, <1>2, <2>1, LockBecomes DEF LockInv
  <2>5. CandidateInv'
    BY <1>2, <2>1 DEF CandidateInv, Staged, disk
  <2>6. ClaimInv'
    BY <1>1, <1>2, <2>1 DEF ClaimInv, disk
  <2>7. RecordInv'
    BY <1>1, <2>1 DEF IInv, RecordInv, Upgrading
  <2>8. SightInv'
    BY <1>2, <2>1 DEF SightInv, Seeing, disk, Own, Target
  <2>. QED
    BY <2>2, <2>3, <2>4, <2>5, <2>6, <2>7, <2>8 DEF IInv
<1>5. CASE /\ aside # None /\ Discarded /\ Goto("fail")
           /\ at' = IF Vacant(target)
                    THEN [at EXCEPT ![candidate] = None, ![target] = aside, ![op.up] = None]
                    ELSE [at EXCEPT ![candidate] = None]
  <2>1. op' \in Op /\ op'.pc = "fail" /\ op'.stage = op.stage /\ op'.up = op.up
    BY <1>5, Goes DEF IInv, Pc
  <2>2. /\ files' = [files EXCEPT ![op.tree] = Nothing] /\ mine' = mine \ {op.tree}
        /\ Nothing \in Listing
    BY <1>2, <1>3, <1>5 DEF Discarded, Nothing, Listing
  <2>3. /\ at' \in [Place -> Tree \cup {None}] /\ at'[candidate] = None
        /\ \A p \in Place \ {candidate, target, op.up} : at'[p] = at[p]
        /\ \/ at'[target] = aside /\ at'[op.up] = None /\ Target = None
           \/ at'[target] = Target /\ at'[op.up] = aside
    BY <1>2, <1>3, <1>5 DEF IInv, TypeOK, Vacant, Target
  <2>4. /\ files' \in [Tree -> Listing] /\ mine' \subseteq Tree
        /\ \A p, q \in Place : at'[p] = at'[q] /\ p # q => at'[p] = None
        /\ \A p \in Place : at'[p] # None => at'[p] # op.tree /\ \E q \in Place : at[q] = at'[p]
        /\ \A p \in Place \ {candidate} : at[p] # None
              => \E q \in Place \ {candidate} : at'[q] = at[p]
    BY <1>2, <1>3, <2>2, <2>3 DEF IInv, TypeOK, Target
  <2>5. op.tree \notin moved \cup edited
    BY <1>2, <1>3 DEF IInv, TypeOK, HistoryInv
  <2>6. aside # op.tree /\ Target # op.tree /\ aside \in Tree /\ Target \in Tree \cup {None}
    BY <1>2, <1>3, <1>5 DEF IInv, TypeOK, Target
  <2>7. HistoryInv'
    <3>1. \A p \in Place : at'[p] # None => at'[p] \in mine' \cup edited'
      BY <1>1, <2>2, <2>4 DEF IInv, HistoryInv
    <3>2. ASSUME NEW t \in edited \cup moved PROVE \E p \in Place \ {candidate} : at'[p] = t
      <4>1. t # None
        BY <1>3 DEF IInv, TypeOK
      <4>2. PICK p \in Place \ {candidate} : at[p] = t
        BY DEF IInv, HistoryInv
      <4>. QED
        BY <2>4, <4>1, <4>2
    <3>. QED
      BY <1>1, <3>1, <3>2 DEF HistoryInv
  <2>8. Good(lock)'
    <3>1. OwnedInv(lock)'
      <4>1. CASE Target' = Target
        BY <1>1, <1>2, <2>2, <4>1 DEF OwnedInv, Own
      <4>2. CASE Target' = aside
        <5>1. files'[aside] = files[aside]
          BY <2>2, <2>6 DEF IInv, TypeOK
        <5>2. Own(Target)' => Own(aside)
          BY <1>1, <2>2, <4>2 DEF Own
        <5>. QED
          BY <1>1, <1>2, <4>2, <5>1, <5>2, RecordTypes DEF OwnedInv, Describes
      <4>. QED
        BY <2>3, <4>1, <4>2 DEF Target
    <3>2. PresentInv(lock)'
      BY <1>1, <1>2, <1>3 DEF PresentInv, Settled
    <3>3. RetainedInv(lock)' /\ RejectInv(lock)'
      BY <1>1, <1>2, <1>3, <2>2, <2>3, <2>5 DEF Good, RetainedInv, RejectInv, Excused
    <3>. QED
      BY <1>1, <1>2, <3>1, <3>2, <3>3 DEF Good
  <2>9. TypeOK'
    BY <2>1, <2>4 DEF IInv, TypeOK, budgets, AuditAside, budgets
  <2>10. HistoryInv'
    BY <2>7
  <2>11. LockInv'
    BY <1>1, <1>2, <2>1, <2>8 DEF LockInv
  <2>12. CandidateInv'
    BY <2>1, <2>3 DEF CandidateInv, Staged
  <2>13. ClaimInv'
    BY <2>1 DEF ClaimInv, Installs, Staged, Resolves
  <2>14. RecordInv'
    BY <2>1 DEF RecordInv, Upgrading
  <2>15. SightInv'
    BY <1>1, <1>2, <2>1 DEF SightInv, Seeing
  <2>. QED
    BY <2>9, <2>10, <2>11, <2>12, <2>13, <2>14, <2>15 DEF IInv
<1>. QED
  BY <1>4, <1>5 DEF AuditAside, HasUntracked

\* The candidate is the pending snapshot of the journal.
LEMMA SwapStep ==
  ASSUME IInv, Swap
  PROVE  IInv'
<1>1. op.pc = "swap" /\ edited' = edited /\ moved' = moved /\ lock' = lock /\ mem' = mem
  BY DEF Swap, budgets
<1>2. /\ ~Own(Target)
      /\ mem = lock /\ lock \in LockFile /\ Good(lock) /\ op.up # None
      /\ lock.rec \in Record /\ lock.rec.pending = SnapshotOf(op.want)
      /\ ~lock.rec.uncommitted /\ ~lock.rec.marker /\ op.stage = "install"
      /\ op.rej \in lock.upgrades /\ op.rej \in Id /\ at[op.rej] = None
      /\ op.up \in lock.upgrades /\ op.up \in Id /\ op.up # op.rej
      /\ op.tree \in mine /\ op.tree \in Tree /\ at[candidate] = op.tree
      /\ files[op.tree] = Of(op.want) /\ op.want \in Version
  BY <1>1, LockTypes DEF IInv, TypeOK, LockInv, RecordInv, Upgrading, ClaimInv,
     Installs, Staged, CandidateInv, SightInv
<1>3. /\ candidate \in Place /\ target \in Place \ {candidate} /\ None \notin Tree
      /\ Id \subseteq Place \ {candidate, target} /\ None \notin Snapshot
      /\ SnapshotOf(op.want) \in Snapshot
  BY <1>2, SnapshotFacts, Pathnames, ConstantsAssumption DEF Place
<1>4. CASE Vacant(target) /\ Move(candidate, target) /\ Goto("verify")
      /\ UNCHANGED <<files, mine>>
  <2>1. /\ op' \in Op /\ op'.pc = "verify" /\ op'.stage = op.stage /\ op'.want = op.want
        /\ op'.tree = op.tree /\ op'.up = op.up /\ op'.rej = op.rej
        /\ files' = files /\ mine' = mine
    BY <1>4, Goes DEF IInv, Pc
  <2>2. /\ at' \in [Place -> Tree \cup {None}] /\ at'[candidate] = None /\ at'[target] = op.tree
        /\ \A p \in Place \ {target, candidate} : at'[p] = at[p]
    BY <1>2, <1>3, <1>4 DEF IInv, TypeOK, Move
  <2>3. /\ \A p, q \in Place : at'[p] = at'[q] /\ p # q => at'[p] = None
        /\ \A p \in Place : at'[p] # None => \E q \in Place : at[q] = at'[p]
        /\ \A p \in Place \ {candidate} : at[p] # None
              => \E q \in Place \ {candidate} : at'[q] = at[p]
    BY <1>2, <1>3, <1>4, <2>2 DEF IInv, TypeOK, Vacant
  <2>4. Good(lock)'
    <3>1. SnapshotOf(op.want) \in Snapshots(lock.rec)
      BY <1>2, <1>3 DEF Snapshots
    <3>2. OwnedInv(lock)' /\ PresentInv(lock)'
      BY <1>1, <1>2, <1>3, <2>1, <2>2, <3>1, RecordTypes DEF OwnedInv, PresentInv,
         Describes, Target, SnapshotOf
    <3>3. RetainedInv(lock)' /\ RejectInv(lock)'
      BY <1>1, <1>2, <1>3, <2>1, <2>2 DEF Good, RetainedInv, RejectInv, Excused
    <3>. QED
      BY <1>1, <1>2, <3>2, <3>3 DEF Good
  <2>5. TypeOK'
    BY <2>1, <2>2, <2>3 DEF IInv, TypeOK, budgets, Swap, budgets
  <2>6. HistoryInv'
    BY <1>1, <2>1, <2>3, HistoryMoves DEF IInv
  <2>7. LockInv'
    BY <1>1, <1>2, <2>1, <2>4 DEF LockInv
  <2>8. CandidateInv'
    BY <2>1, <2>2 DEF CandidateInv, Staged
  <2>9. ClaimInv'
    BY <1>1, <1>2, <1>3, <2>1, <2>2 DEF ClaimInv
  <2>10. RecordInv'
    BY <1>1, <1>2, <2>1 DEF IInv, RecordInv, Upgrading
  <2>11. SightInv'
    BY <1>2, <2>1, <2>2 DEF SightInv, Target
  <2>. QED
    BY <2>5, <2>6, <2>7, <2>8, <2>9, <2>10, <2>11 DEF IInv
<1>5. CASE DiscardCandidate /\ Goto("fail")
  <2>1. op' \in Op /\ op'.pc = "fail" /\ op'.stage = op.stage /\ op'.up = op.up
    BY <1>5, Goes DEF IInv, Pc
  <2>2. Good(lock)' /\ HistoryInv'
    BY <1>1, <1>2, <1>5, Discards, DiscardStands DEF IInv
  <2>3. TypeOK'
    BY <2>1, <1>5, Discards DEF IInv, TypeOK, budgets, Swap, budgets
  <2>4. HistoryInv'
    BY <2>2
  <2>5. LockInv'
    BY <1>1, <1>2, <2>1, <2>2 DEF LockInv
  <2>6. CandidateInv'
    BY <1>1, <2>1, <1>5, Discards DEF IInv, CandidateInv, Staged
  <2>7. ClaimInv'
    BY <2>1 DEF ClaimInv, Installs, Staged, Resolves
  <2>8. RecordInv'
    BY <2>1 DEF RecordInv, Upgrading
  <2>9. SightInv'
    BY <1>1, <1>2, <2>1 DEF SightInv, Seeing
  <2>. QED
    BY <2>3, <2>4, <2>5, <2>6, <2>7, <2>8, <2>9 DEF IInv
<1>. QED
  BY <1>4, <1>5 DEF Swap

\* Only a user can have made what was published differ from the candidate.
LEMMA VerifyStep ==
  ASSUME IInv, Verify
  PROVE  IInv'
<1>1. /\ op' \in Op /\ op.pc = "verify" /\ op'.stage = op.stage /\ op'.up = op.up
      /\ op'.want = op.want /\ op'.rej = op.rej /\ op'.tree = op.tree
      /\ op'.pc \in {"isolate", "reconcile", "retain"}
      /\ op'.pc = "reconcile" => op.up = None
      /\ op'.pc = "retain" => op.up # None
      /\ lock' = lock /\ mem' = mem /\ disk' = disk
  BY Goes DEF Verify, IInv, Pc, budgets, disk
<1>2. op.stage = "install"
  BY <1>1 DEF IInv, ClaimInv, Installs
<1>3. ASSUME Quiet, op'.pc = "isolate"
      PROVE  FALSE
  <2>1. Target = op.tree /\ op.tree \in Tree /\ Own(Target)
    BY <1>1, <1>2, <1>3 DEF IInv, SightInv, Seeing, Quiet, Own
  <2>2. Target # None
    BY <2>1, ConstantsAssumption
  <2>3. CASE op.up = None
    <3>1. /\ lock.rec # None /\ lock.rec.uncommitted /\ lock.rec.marker
          /\ lock.rec.snap = SnapshotOf(op.want)
      BY <1>1, <1>2, <2>3 DEF IInv, RecordInv, LockInv, Good, Shaped
    <3>2. files[Target] = Marked(SnapshotOf(op.want)).has
      BY <2>1, <3>1 DEF IInv, LockInv, Good, OwnedInv, Describes
    <3>. QED
      BY <1>3, <2>1, <2>2, <2>3, <3>2, Goes DEF Verify, MatchesEntirely, IInv, Pc
  <2>4. CASE op.up # None
    <3>1. files[Target] = SnapshotOf(op.want).has
      BY <1>1, <2>1, <2>4 DEF IInv, SightInv, SnapshotOf
    <3>. QED
      BY <1>3, <2>1, <2>2, <2>4, <3>1, Goes DEF Verify, MatchesEntirely, IInv, Pc
  <2>. QED
    BY <2>3, <2>4
<1>4. TypeOK'
  BY <1>1 DEF IInv, TypeOK, budgets, Verify
<1>5. HistoryInv'
  BY <1>1, <1>2, HistoryStands DEF IInv
<1>6. LockInv'
  BY <1>1, <1>2, LockBecomes DEF IInv, LockInv
<1>7. CandidateInv'
  BY <1>1 DEF IInv, CandidateInv, Staged, disk
<1>8. ClaimInv'
  BY <1>1 DEF IInv, ClaimInv, Installs, disk
<1>9. RecordInv'
  BY <1>1, <1>2 DEF IInv, RecordInv, Upgrading
<1>10. SightInv'
  BY <1>1, <1>3 DEF IInv, SightInv, Seeing, disk, Own, Strange, Quiet, Target
<1>. QED
  BY <1>4, <1>5, <1>6, <1>7, <1>8, <1>9, <1>10 DEF IInv

\* Retaining changes nothing on disk: the identity is recorded already.
LEMMA RetainStep ==
  ASSUME IInv, Retain
  PROVE  IInv'
<1>1. /\ op' \in Op /\ op.pc = "retain" /\ op'.stage = op.stage /\ op'.up = op.up
      /\ op'.want = op.want /\ op'.rej = op.rej /\ op'.tree = op.tree
      /\ op'.pc \in {"fail", "publish"}
      /\ lock' = lock /\ mem' = mem /\ disk' = disk
  BY Goes DEF Retain, IInv, Pc, budgets, disk
<1>2. TypeOK'
  BY <1>1 DEF IInv, TypeOK, budgets, Retain
<1>3. HistoryInv'
  BY <1>1, HistoryStands DEF IInv
<1>4. LockInv'
  BY <1>1, LockBecomes DEF IInv, LockInv
<1>5. CandidateInv'
  BY <1>1 DEF IInv, CandidateInv, Staged, disk
<1>6. ClaimInv'
  BY <1>1 DEF IInv, ClaimInv, Installs, Staged, Resolves
<1>7. RecordInv'
  BY <1>1 DEF IInv, RecordInv, Upgrading
<1>8. SightInv'
  BY <1>1 DEF IInv, SightInv, Seeing, RecordInv, Upgrading, disk, Own, Strange, Target
<1>. QED
  BY <1>2, <1>3, <1>4, <1>5, <1>6, <1>7, <1>8 DEF IInv

\* The target is what was verified, unless a user has acted since.
LEMMA PublishStep ==
  ASSUME IInv, NEW linked \in BOOLEAN, Publish(linked)
  PROVE  IInv'
<1>. DEFINE done == [mem EXCEPT !.rec = Plain(SnapshotOf(op.want))]
<1>1. /\ op' \in Op /\ op.pc = "publish" /\ op'.pc = "final" /\ op'.stage = op.stage
      /\ op'.up = op.up /\ disk' = disk /\ mem = lock /\ lock' \in {done, lock}
      /\ mem' = [done EXCEPT !.upgrades = Existing(@)]
  BY Goes DEF Publish, IInv, Pc, budgets, disk, LockInv
<1>2. op.want \in Version /\ op.stage = "install"
  BY <1>1 DEF IInv, ClaimInv, Installs
<1>3. /\ Plain(SnapshotOf(op.want)) \in Record
      /\ Snapshots(Plain(SnapshotOf(op.want))) = {SnapshotOf(op.want)}
  BY <1>2, SnapshotFacts, ConstantsAssumption DEF Plain, Snapshots
<1>4. /\ done \in LockFile /\ done.rec = Plain(SnapshotOf(op.want)) /\ done.rec # None
      /\ done.upgrades = lock.upgrades /\ done.removals = lock.removals
      /\ mem'.rec = done.rec /\ mem'.removals = done.removals
      /\ mem'.upgrades = Existing(done.upgrades)
      /\ mem' \in LockFile /\ lock' \in LockFile
  BY <1>1, <1>3, RecordTypes DEF IInv, TypeOK, LockFile, Existing
<1>. HIDE DEF done
<1>5. ~done.rec.uncommitted /\ ~done.rec.marker /\ done.rec.snap = SnapshotOf(op.want)
  BY <1>4 DEF Plain
<1>6. Good(done)
  <2>1. Shaped(done.rec)
    BY <1>2, <1>3, <1>4, <1>5, SnapshotFacts DEF Shaped, SnapshotOf
  <2>2. OwnedInv(done)
    BY <1>1, <1>3, <1>4, <1>5 DEF IInv, SightInv, OwnedInv, Describes, SnapshotOf
  <2>3. PresentInv(done)
    BY <1>1, ConstantsAssumption DEF IInv, SightInv, Seeing, PresentInv, Quiet
  <2>4. RetainedInv(done) /\ RejectInv(done)
    BY <1>4, <1>5 DEF IInv, LockInv, Good, RetainedInv, RejectInv
  <2>. QED
    BY <2>1, <2>2, <2>3, <2>4 DEF Good
<1>7. Good(lock')
  BY <1>1, <1>6 DEF IInv, LockInv
<1>8. Good(mem')
  BY <1>4, <1>5, <1>6, Prunes DEF Existing
<1>9. TypeOK'
  BY <1>1, <1>4 DEF IInv, TypeOK, budgets, Publish
<1>10. HistoryInv'
  BY <1>1, <1>4, HistoryStands DEF IInv
<1>11. LockInv'
  BY <1>1, <1>7, <1>8, LockBecomes, MemBecomes DEF LockInv
<1>12. CandidateInv'
  BY <1>1 DEF IInv, CandidateInv, Staged, disk
<1>13. ClaimInv'
  BY <1>1 DEF ClaimInv, Installs, Staged, Resolves
<1>14. RecordInv'
  BY <1>1, <1>4 DEF IInv, RecordInv, Upgrading
<1>15. SightInv'
  BY <1>1 DEF SightInv, Seeing
<1>. QED
  BY <1>9, <1>10, <1>11, <1>12, <1>13, <1>14, <1>15 DEF IInv

\* An item that fails is reconciled with what is there, and forgets only the
\* identities that no path has.
LEMMA ItemFailsStep ==
  ASSUME IInv, ItemFails
  PROVE  IInv'
<1>. DEFINE half == [mem EXCEPT !.rec = IF @ = None THEN None ELSE Reconciled(@)]
<1>1. /\ op' \in Op /\ op.pc = "fail" /\ op'.pc = "final" /\ op'.stage = op.stage
      /\ op'.up = op.up /\ disk' = disk /\ mem = lock /\ lock' = lock
      /\ mem' = [half EXCEPT !.upgrades = Existing(@)] /\ lock \in LockFile /\ Good(lock)
  BY Goes DEF ItemFails, IInv, TypeOK, Pc, budgets, disk, LockInv
<1>2. /\ half \in LockFile /\ half.upgrades = lock.upgrades /\ half.removals = lock.removals
      /\ lock.rec = None => half.rec = None
      /\ lock.rec # None => lock.rec \in Record /\ half.rec = Reconciled(lock.rec)
      /\ mem' \in LockFile /\ mem'.rec = half.rec /\ mem'.removals = half.removals
      /\ mem'.upgrades = Existing(half.upgrades)
  BY <1>1, RecordTypes DEF LockFile, Existing
<1>. HIDE DEF half
<1>3. Good(half)
  <2>1. CASE lock.rec = None
    BY <1>1, <1>2, <2>1, Prunes
  <2>2. CASE lock.rec # None
    BY <1>1, <1>2, <2>2, Reconciles DEF IInv
  <2>. QED
    BY <2>1, <2>2
<1>4. half.rec # None /\ half.rec.uncommitted => half.rec.ident \in mine \cap moved
  BY <1>1, <1>2 DEF Reconciled, Plain, IInv, SightInv
<1>5. Good(mem')
  BY <1>2, <1>3, <1>4, Prunes DEF Existing
<1>6. TypeOK'
  BY <1>1, <1>2 DEF IInv, TypeOK, budgets, ItemFails
<1>7. HistoryInv'
  BY <1>1, <1>2, HistoryStands DEF IInv
<1>8. LockInv'
  BY <1>1, <1>5, LockBecomes, MemBecomes DEF LockInv
<1>9. CandidateInv'
  BY <1>1 DEF IInv, CandidateInv, Staged, disk
<1>10. ClaimInv'
  BY <1>1 DEF ClaimInv, Installs, Staged, Resolves
<1>11. RecordInv'
  BY <1>1, <1>2 DEF IInv, RecordInv, Upgrading
<1>12. SightInv'
  BY <1>1 DEF SightInv, Seeing
<1>. QED
  BY <1>6, <1>7, <1>8, <1>9, <1>10, <1>11, <1>12 DEF IInv

\* The save at the end of a sync writes what was good in memory.
LEMMA FinishStep ==
  ASSUME IInv, Finish
  PROVE  IInv'
<1>1. /\ op' \in Op /\ op'.pc = "idle" /\ op'.stage = "begin" /\ op'.up = None
      /\ op.pc = "final" /\ lock' = mem /\ mem' \in LockFile /\ disk' = disk
  BY Aborts DEF Finish, budgets, disk
<1>2. TypeOK'
  BY <1>1 DEF IInv, TypeOK, budgets, Finish
<1>3. HistoryInv'
  BY <1>1, HistoryStands DEF IInv
<1>4. LockInv'
  BY <1>1, LockBecomes DEF IInv, LockInv
<1>5. CandidateInv'
  BY <1>1 DEF IInv, CandidateInv, Staged, disk
<1>6. ClaimInv'
  BY <1>1 DEF ClaimInv, Installs, Staged
<1>7. RecordInv'
  BY <1>1 DEF IInv, RecordInv, Upgrading
<1>8. SightInv'
  BY <1>1 DEF SightInv, Seeing
<1>. QED
  BY <1>2, <1>3, <1>4, <1>5, <1>6, <1>7, <1>8 DEF IInv

----------------------------------------------------------------------------
(***************************************************************************)
(* Removal.                                                                *)
(***************************************************************************)

\* A tree of ours has a file that its record names: it is found, and moved.
LEMMA RemoveStep ==
  ASSUME IInv, Remove
  PROVE  IInv'
<1>. DEFINE rec == lock.rec
            id == IF rec.removal # None THEN rec.removal ELSE Least(FreshIds)
            owned == HasOwnedFile(Target, Snapshots(rec))
<1>1. /\ op.pc = "remove" /\ disk' = disk
      /\ mem = lock /\ lock \in LockFile /\ Good(lock)
      /\ rec \in Record /\ Shaped(rec) /\ ~rec.uncommitted /\ ~rec.marker
  BY LockTypes DEF Remove, budgets, disk, IInv, TypeOK, LockInv, RecordInv, Good
<1>2. id \in Id
  BY <1>1, RecordTypes, FreshIdsFacts DEF Remove
<1>. HIDE DEF id
<1>3. /\ mem' = lock' /\ lock' \in LockFile /\ lock'.rec = [rec EXCEPT !.removal = id]
      /\ lock'.rec \in Record /\ lock'.rec.removal = id
      /\ lock'.removals = lock.removals \cup {id} /\ lock'.upgrades = lock.upgrades
      /\ ~lock'.rec.uncommitted /\ ~lock'.rec.marker
      /\ lock'.rec.snap = rec.snap /\ lock'.rec.pending = rec.pending
  <2>1. Save([mem EXCEPT !.rec.removal = id, !.removals = @ \cup {id}])
    BY <1>1 DEF Remove, id
  <2>. QED
    BY <1>1, <1>2, <2>1 DEF Save, LockFile, Record
<1>4. /\ op' \in Op /\ op'.up = op.up /\ op'.stage = op.stage
      /\ \/ op'.pc = "removeMove" /\ op'.tree = Target /\ owned
         \/ op'.pc = "drop" /\ ~owned
  BY <1>1 DEF Remove, IInv, TypeOK, Op, Pc, HasOwnedFile, Place, Target
<1>5. Snapshots(lock'.rec) = Snapshots(rec) /\ lock'.rec # None
  BY <1>3, RecordTypes DEF Snapshots
<1>6. Good(lock')
  <2>1. Shaped(lock'.rec) /\ OwnedInv(lock')
    BY <1>1, <1>3, <1>5 DEF Good, Shaped, OwnedInv, Describes
  <2>2. PresentInv(lock') /\ RetainedInv(lock') /\ RejectInv(lock')
    BY <1>1, <1>2, <1>3, ConstantsAssumption DEF Good, PresentInv, RetainedInv,
       RejectInv, Settled
  <2>. QED
    BY <2>1, <2>2 DEF Good
<1>7. ASSUME Own(Target) PROVE owned
  <2>1. PICK s \in Snapshots(rec) : files[Target] = s.has
    BY <1>1, <1>7 DEF Good, OwnedInv, Describes
  <2>2. PICK f \in File : s.has[f] # None
    BY <1>1, <2>1 DEF Shaped
  <2>3. f \in Name /\ Target # None
    BY <1>7, ConstantsAssumption DEF Name, Own, IInv, TypeOK
  <2>. QED
    BY <2>1, <2>2, <2>3 DEF HasOwnedFile, Paths
<1>8. Target \in Tree \cup {None} /\ (owned => Target # None)
  BY DEF IInv, TypeOK, Place, Target, HasOwnedFile
<1>9. id \in lock'.removals /\ None \notin Id
  BY <1>3, ConstantsAssumption
<1>10. TypeOK'
  BY <1>3, <1>4 DEF IInv, TypeOK, budgets, Remove
<1>11. HistoryInv'
  BY <1>1, <1>2, <1>3, <1>4, <1>5, <1>9, HistoryStands DEF IInv
<1>12. LockInv'
  BY <1>1, <1>3, <1>4, <1>6, LockBecomes DEF LockInv
<1>13. CandidateInv'
  BY <1>1, <1>4 DEF IInv, CandidateInv, Staged, disk
<1>14. ClaimInv'
  BY <1>4 DEF ClaimInv, Installs, Staged, Resolves
<1>15. RecordInv'
  BY <1>2, <1>3, <1>4, <1>5, <1>9 DEF RecordInv, Upgrading
<1>16. SightInv'
  BY <1>1, <1>4, <1>7, <1>8 DEF SightInv, Seeing, disk, Own, Target
<1>. QED
  BY <1>10, <1>11, <1>12, <1>13, <1>14, <1>15, <1>16 DEF IInv

\* The identity is listed since the audit.
LEMMA RemoveMoveStep ==
  ASSUME IInv, RemoveMove
  PROVE  IInv'
<1>. DEFINE id == lock.rec.removal
            kept == [mem EXCEPT !.removals = Existing(@)]
<1>1. /\ op.pc = "removeMove" /\ files' = files
      /\ mine' = mine /\ edited' = edited /\ moved' = moved
      /\ mem = lock /\ lock \in LockFile /\ Good(lock)
      /\ lock.rec \in Record /\ ~lock.rec.uncommitted /\ ~lock.rec.marker
      /\ id \in Id /\ id \in lock.removals
  BY LockTypes DEF RemoveMove, budgets, IInv, TypeOK, LockInv, RecordInv
<1>2. /\ target # id /\ candidate # id /\ candidate # target
      /\ target \in Place /\ id \in Place /\ candidate \in Place /\ Id \subseteq Place
  BY <1>1, Pathnames DEF Place
<1>3. op.tree \in Tree /\ (Target = op.tree \/ ~Own(Target))
  BY <1>1 DEF IInv, SightInv
<1>4. CASE /\ Target # None /\ Vacant(id) /\ Move(target, id)
           /\ Goto(IF Target = op.tree THEN "drop" ELSE "removeBack")
           /\ UNCHANGED <<lock, mem>>
  <2>1. /\ op' \in Op /\ op'.stage = op.stage /\ op'.up = op.up /\ mem' = mem /\ lock' = lock
        /\ op'.pc = "drop" \/ (op'.pc = "removeBack" /\ Target # op.tree)
    BY <1>4, Goes DEF IInv, Pc
  <2>2. /\ at' \in [Place -> Tree \cup {None}]
        /\ at'[target] = None /\ at'[id] = Target
        /\ \A p \in Place \ {target, id} : at'[p] = at[p]
    BY <1>2, <1>4 DEF IInv, TypeOK, Move, Target
  <2>3. Target' = None /\ None \notin mine
    BY <2>2, ConstantsAssumption DEF Target, IInv, TypeOK
  <2>4. /\ \A p, q \in Place : at'[p] = at'[q] /\ p # q => at'[p] = None
        /\ \A p \in Place \ {candidate} : \E q \in Place \ {candidate} : at[p] # None
              => at'[q] = at[p]
    BY <1>2, <1>4, <2>2 DEF IInv, TypeOK, Vacant, Target
  <2>5. Good(lock)'
    <3>1. OwnedInv(lock)' /\ PresentInv(lock)'
      BY <1>1, <2>1, <2>3, ConstantsAssumption DEF OwnedInv, PresentInv, Own, Settled
    <3>2. RetainedInv(lock)' /\ RejectInv(lock)'
      BY <1>1, <1>2, <2>1, <2>2 DEF Good, RetainedInv, RejectInv, Excused
    <3>. QED
      BY <1>1, <2>1, <3>1, <3>2 DEF Good
  <2>6. TypeOK'
    BY <2>1, <2>2, <2>4 DEF IInv, TypeOK, budgets, RemoveMove, budgets
  <2>7. HistoryInv'
    BY <1>1, <1>2, <2>2, <2>4 DEF IInv, HistoryInv, Target
  <2>8. LockInv'
    BY <1>1, <2>1, <2>5 DEF LockInv
  <2>9. CandidateInv'
    BY <1>1, <1>2, <2>1, <2>2 DEF IInv, CandidateInv, Staged
  <2>10. ClaimInv'
    BY <2>1 DEF ClaimInv, Installs, Staged, Resolves
  <2>11. RecordInv'
    BY <1>1, <2>1 DEF IInv, RecordInv, Upgrading
  <2>12. SightInv'
    BY <1>1, <1>3, <1>4, <2>1, <2>2, <2>3 DEF SightInv, Seeing, Own
  <2>. QED
    BY <2>6, <2>7, <2>8, <2>9, <2>10, <2>11, <2>12 DEF IInv
<1>5. CASE (Target = None \/ ~Vacant(id)) /\ RemovalFails /\ UNCHANGED at
  <2>1. /\ kept \in LockFile /\ kept.rec = lock.rec /\ kept.upgrades = lock.upgrades
        /\ kept.removals = Existing(lock.removals) /\ disk' = disk
    BY <1>1, <1>5 DEF LockFile, Existing, disk
  <2>2. Good(kept)
    BY <1>1, <2>1, Prunes DEF Existing
  <2>. HIDE DEF kept
  <2>3. /\ op' \in Op /\ mem' \in LockFile /\ lock' \in {kept, lock}
        /\ \/ op'.pc = "idle" /\ op'.stage = "begin" /\ op'.up = None
           \/ op'.pc = "final" /\ op'.stage = op.stage /\ op'.up = op.up /\ mem' = kept
    BY <1>5, <2>1, Aborts, Goes DEF RemovalFails, IInv, Pc, kept
  <2>4. Good(lock') /\ (op'.pc = "final" => Good(mem'))
    BY <1>1, <2>2, <2>3
  <2>5. TypeOK'
    BY <2>1, <2>3 DEF IInv, TypeOK, budgets, RemoveMove, budgets, disk
  <2>6. HistoryInv'
    BY <1>1, <2>1, <2>3, HistoryStands DEF IInv
  <2>7. LockInv'
    BY <2>1, <2>3, <2>4, LockBecomes, MemBecomes DEF LockInv
  <2>8. CandidateInv'
    BY <1>1, <2>1, <2>3 DEF IInv, CandidateInv, Staged, disk
  <2>9. ClaimInv'
    BY <2>3 DEF ClaimInv, Installs, Staged, Resolves
  <2>10. RecordInv'
    BY <2>3 DEF RecordInv, Upgrading
  <2>11. SightInv'
    BY <2>3 DEF SightInv, Seeing
  <2>. QED
    BY <2>5, <2>6, <2>7, <2>8, <2>9, <2>10, <2>11 DEF IInv
<1>. QED
  BY <1>1, <1>4, <1>5 DEF RemoveMove

\* Another tree than the audited one is not ours.
LEMMA RemoveBackStep ==
  ASSUME IInv, RemoveBack
  PROVE  IInv'
<1>. DEFINE id == lock.rec.removal
            kept == [mem EXCEPT !.removals = Existing(@)]
<1>1. /\ op.pc = "removeBack" /\ files' = files
      /\ mine' = mine /\ edited' = edited /\ moved' = moved
      /\ mem = lock /\ lock \in LockFile /\ Good(lock)
      /\ lock.rec \in Record /\ ~lock.rec.uncommitted /\ ~lock.rec.marker
      /\ id \in Id /\ ~Own(Target) /\ at[id] # None /\ ~Own(at[id])
  BY LockTypes, RecordTypes DEF RemoveBack, budgets, IInv, TypeOK, LockInv, RecordInv,
     SightInv
<1>2. /\ target # id /\ candidate # id /\ candidate # target
      /\ target \in Place /\ id \in Place /\ candidate \in Place /\ Id \subseteq Place
  BY <1>1, Pathnames DEF Place
<1>3. CASE Vacant(target) /\ Move(id, target) /\ Goto("drop") /\ UNCHANGED <<lock, mem>>
  <2>1. /\ op' \in Op /\ op'.stage = op.stage /\ op'.up = op.up /\ mem' = mem /\ lock' = lock
        /\ op'.pc = "drop"
    BY <1>3, Goes DEF IInv, Pc
  <2>2. /\ at' \in [Place -> Tree \cup {None}]
        /\ at'[id] = None /\ at'[target] = at[id]
        /\ \A p \in Place \ {target, id} : at'[p] = at[p]
    BY <1>2, <1>3 DEF IInv, TypeOK, Move
  <2>3. ~Own(Target)'
    BY <1>1, <2>2 DEF Target, Own
  <2>4. /\ \A p, q \in Place : at'[p] = at'[q] /\ p # q => at'[p] = None
        /\ \A p \in Place \ {candidate} : \E q \in Place \ {candidate} : at[p] # None
              => at'[q] = at[p]
    BY <1>2, <1>3, <2>2 DEF IInv, TypeOK, Vacant
  <2>5. Good(lock)'
    <3>1. OwnedInv(lock)' /\ PresentInv(lock)'
      BY <1>1, <2>2, <2>3 DEF OwnedInv, PresentInv, Target
    <3>2. RetainedInv(lock)' /\ RejectInv(lock)'
      BY <1>1, <1>2, <2>1, <2>2, Pathnames DEF Good, RetainedInv, RejectInv, Excused
    <3>. QED
      BY <1>1, <2>1, <3>1, <3>2 DEF Good
  <2>6. TypeOK'
    BY <2>1, <2>2, <2>4 DEF IInv, TypeOK, budgets, RemoveBack, budgets
  <2>7. HistoryInv'
    BY <1>1, <1>2, <2>2, <2>4 DEF IInv, HistoryInv
  <2>8. LockInv'
    BY <1>1, <2>1, <2>5 DEF LockInv
  <2>9. CandidateInv'
    BY <1>1, <1>2, <2>1, <2>2 DEF IInv, CandidateInv, Staged
  <2>10. ClaimInv'
    BY <2>1 DEF ClaimInv, Installs, Staged, Resolves
  <2>11. RecordInv'
    BY <1>1, <2>1 DEF IInv, RecordInv, Upgrading
  <2>12. SightInv'
    BY <2>1, <2>3 DEF SightInv, Seeing
  <2>. QED
    BY <2>6, <2>7, <2>8, <2>9, <2>10, <2>11, <2>12 DEF IInv
<1>4. CASE RemovalFails /\ UNCHANGED at
  <2>1. /\ kept \in LockFile /\ kept.rec = lock.rec /\ kept.upgrades = lock.upgrades
        /\ kept.removals = Existing(lock.removals) /\ disk' = disk
    BY <1>1, <1>4 DEF LockFile, Existing, disk
  <2>2. Good(kept)
    BY <1>1, <2>1, Prunes DEF Existing
  <2>. HIDE DEF kept
  <2>3. /\ op' \in Op /\ mem' \in LockFile /\ lock' \in {kept, lock}
        /\ \/ op'.pc = "idle" /\ op'.stage = "begin" /\ op'.up = None
           \/ op'.pc = "final" /\ op'.stage = op.stage /\ op'.up = op.up /\ mem' = kept
    BY <1>4, <2>1, Aborts, Goes DEF RemovalFails, IInv, Pc, kept
  <2>4. Good(lock') /\ (op'.pc = "final" => Good(mem'))
    BY <1>1, <2>2, <2>3
  <2>5. TypeOK'
    BY <2>1, <2>3 DEF IInv, TypeOK, budgets, RemoveBack, budgets, disk
  <2>6. HistoryInv'
    BY <1>1, <2>1, <2>3, HistoryStands DEF IInv
  <2>7. LockInv'
    BY <2>1, <2>3, <2>4, LockBecomes, MemBecomes DEF LockInv
  <2>8. CandidateInv'
    BY <1>1, <2>1, <2>3 DEF IInv, CandidateInv, Staged, disk
  <2>9. ClaimInv'
    BY <2>3 DEF ClaimInv, Installs, Staged, Resolves
  <2>10. RecordInv'
    BY <2>3 DEF RecordInv, Upgrading
  <2>11. SightInv'
    BY <2>3 DEF SightInv, Seeing
  <2>. QED
    BY <2>5, <2>6, <2>7, <2>8, <2>9, <2>10, <2>11 DEF IInv
<1>. QED
  BY <1>1, <1>3, <1>4 DEF RemoveBack

\* The record goes when nothing of ours is at the target.
LEMMA DropRecordStep ==
  ASSUME IInv, DropRecord
  PROVE  IInv'
<1>. DEFINE kept == [mem EXCEPT !.removals = Existing(@)]
<1>1. /\ op.pc = "drop" /\ disk' = disk
      /\ mem = lock /\ lock \in LockFile /\ Good(lock) /\ ~Own(Target)
      /\ lock.rec \in Record /\ ~lock.rec.uncommitted /\ ~lock.rec.marker
  BY LockTypes DEF DropRecord, budgets, disk, IInv, TypeOK, LockInv, RecordInv, SightInv
<1>2. /\ kept \in LockFile /\ kept.rec = lock.rec /\ kept.upgrades = lock.upgrades
      /\ kept.removals = Existing(lock.removals)
  BY <1>1 DEF LockFile, Existing
<1>. HIDE DEF kept
<1>3. Good(kept)
  BY <1>1, <1>2, Prunes DEF Existing
<1>4. CASE op.kind = "sync"
  <2>1. /\ op' \in Op /\ op'.pc = "final" /\ op'.stage = op.stage /\ op'.up = op.up
        /\ mem' = [kept EXCEPT !.rec = None] /\ lock' = lock
    BY <1>4, Goes DEF DropRecord, IInv, Pc, kept
  <2>2. /\ mem' \in LockFile /\ mem'.rec = None /\ mem'.upgrades = kept.upgrades
        /\ mem'.removals = kept.removals
    BY <1>2, <2>1 DEF LockFile
  <2>3. Good(mem')
    BY <1>1, <1>3, <2>2 DEF Good, OwnedInv, PresentInv, RetainedInv, RejectInv
  <2>4. TypeOK'
    BY <2>1, <2>2 DEF IInv, TypeOK, budgets, DropRecord, budgets
  <2>5. HistoryInv'
    BY <1>1, <2>1, <2>2, HistoryStands DEF IInv
  <2>6. LockInv'
    BY <1>1, <2>1, <2>3, LockBecomes, MemBecomes DEF LockInv
  <2>7. CandidateInv'
    BY <1>1, <2>1 DEF IInv, CandidateInv, Staged, disk
  <2>8. ClaimInv'
    BY <2>1 DEF ClaimInv, Installs, Staged, Resolves
  <2>9. RecordInv'
    BY <2>1 DEF RecordInv, Upgrading
  <2>10. SightInv'
    BY <2>1 DEF SightInv, Seeing
  <2>. QED
    BY <2>4, <2>5, <2>6, <2>7, <2>8, <2>9, <2>10 DEF IInv
<1>5. CASE op.kind # "sync"
  <2>1. /\ op' \in Op /\ op'.pc = "forget" /\ op'.stage = op.stage /\ op'.up = op.up
        /\ mem' = kept /\ lock' = kept
    BY <1>5, Goes DEF DropRecord, IInv, Pc, kept, Save
  <2>2. TypeOK'
    BY <1>2, <2>1 DEF IInv, TypeOK, budgets, DropRecord, budgets
  <2>3. HistoryInv'
    BY <1>1, <1>2, <2>1, HistoryStands DEF IInv
  <2>4. LockInv'
    BY <1>1, <1>3, <2>1, LockBecomes DEF LockInv
  <2>5. CandidateInv'
    BY <1>1, <2>1 DEF IInv, CandidateInv, Staged, disk
  <2>6. ClaimInv'
    BY <2>1 DEF ClaimInv, Installs, Staged, Resolves
  <2>7. RecordInv'
    BY <1>1, <1>2, <2>1 DEF RecordInv, Upgrading
  <2>8. SightInv'
    BY <1>1, <2>1 DEF SightInv, Seeing, Own, disk, Target
  <2>. QED
    BY <2>2, <2>3, <2>4, <2>5, <2>6, <2>7, <2>8 DEF IInv
<1>. QED
  BY <1>4, <1>5

\* A record is dropped only when nothing of ours is at the target.
LEMMA ForgetStep ==
  ASSUME IInv, Forget
  PROVE  IInv'
<1>1. /\ op' \in Op /\ op'.pc = "idle" /\ op'.stage = "begin" /\ op'.up = None
      /\ op.pc = "forget" /\ mem = lock /\ lock \in LockFile /\ mem' \in LockFile
      /\ disk' = disk /\ ~Own(Target) /\ Good(lock)
  BY Aborts DEF Forget, disk, IInv, TypeOK, LockInv, SightInv
<1>2. /\ lock' \in LockFile /\ lock'.rec = None
      /\ lock'.upgrades = lock.upgrades /\ lock'.removals = lock.removals
  BY <1>1 DEF Forget, LockFile
<1>3. Good(lock')
  BY <1>1, <1>2 DEF Good, OwnedInv, PresentInv, RetainedInv, RejectInv
<1>4. TypeOK'
  BY <1>1, <1>2 DEF IInv, TypeOK, Forget
<1>5. HistoryInv'
  BY <1>1, <1>2, HistoryStands DEF IInv
<1>6. LockInv'
  BY <1>1, <1>3, LockBecomes DEF LockInv
<1>7. CandidateInv'
  BY <1>1 DEF IInv, CandidateInv, Staged, disk
<1>8. ClaimInv'
  BY <1>1 DEF ClaimInv, Installs, Staged
<1>9. RecordInv'
  BY <1>1, <1>2 DEF IInv, RecordInv, Upgrading
<1>10. SightInv'
  BY <1>1 DEF SightInv, Seeing
<1>. QED
  BY <1>4, <1>5, <1>6, <1>7, <1>8, <1>9, <1>10 DEF IInv

----------------------------------------------------------------------------
(***************************************************************************)
(* The world.                                                              *)
(***************************************************************************)

\* A new manifest touches neither the disk nor the lockfile.
LEMMA ManifestChangesStep ==
  ASSUME IInv, NEW w \in Version \cup {None}, ManifestChanges(w)
  PROVE  IInv'
<1>1. op' = op /\ lock' = lock /\ mem' = mem /\ disk' = disk
  BY DEF ManifestChanges, disk
<1>2. op.pc = "final" => Good(mem)'
  BY <1>1, MemBecomes DEF IInv, LockInv
<1>3. TypeOK'
  BY <1>1, ConstantsAssumption DEF IInv, TypeOK, ManifestChanges
<1>4. HistoryInv'
  BY <1>1, HistoryStands DEF IInv
<1>5. LockInv'
  BY <1>1, <1>2, LockBecomes DEF IInv, LockInv
<1>6. CandidateInv'
  BY <1>1 DEF IInv, CandidateInv, Staged, disk
<1>7. ClaimInv'
  BY <1>1 DEF IInv, ClaimInv, disk
<1>8. RecordInv'
  BY <1>1 DEF IInv, RecordInv, Upgrading
<1>9. SightInv'
  BY <1>1 DEF IInv, SightInv, Seeing, disk, Own, Quiet, Strange, Target
<1>. QED
  BY <1>3, <1>4, <1>5, <1>6, <1>7, <1>8, <1>9 DEF IInv

\* Whatever is on disk was good at every step.
LEMMA CrashStep ==
  ASSUME IInv, Crash
  PROVE  IInv'
<1>1. /\ op' \in Op /\ op'.pc = "idle" /\ op'.stage = "begin" /\ op'.up = None
      /\ mem' \in LockFile
      /\ lock' = lock /\ edited' = edited /\ moved' = moved /\ DiscardCandidate /\ Good(lock)
      /\ crashes' \in 0..MaxCrash
  BY Aborts, ConstantsAssumption DEF Crash, IInv, LockInv, TypeOK
<1>2. Good(lock)' /\ HistoryInv' /\ at'[candidate] = None
  BY <1>1, Discards, DiscardStands DEF IInv
<1>3. TypeOK'
  BY <1>1, Discards DEF IInv, TypeOK, Crash
<1>4. HistoryInv'
  BY <1>2
<1>5. LockInv'
  BY <1>1, <1>2 DEF LockInv
<1>6. CandidateInv'
  BY <1>1, <1>2 DEF IInv, CandidateInv, Staged
<1>7. ClaimInv'
  BY <1>1 DEF ClaimInv, Installs, Staged
<1>8. RecordInv'
  BY <1>1, <1>2 DEF IInv, RecordInv, Upgrading
<1>9. SightInv'
  BY <1>1, <1>2 DEF IInv, SightInv, Seeing
<1>. QED
  BY <1>3, <1>4, <1>5, <1>6, <1>7, <1>8, <1>9 DEF IInv

\* An edited tree is no longer ours as we made it.
LEMMA UserEditsStep ==
  ASSUME IInv, NEW p \in {target, op.up} \ {None}, NEW n \in Name,
         NEW h \in {None, "user"}, UserEdits(p, n, h)
  PROVE  IInv'
<1>. DEFINE t == at[p]
<1>1. /\ at' = at /\ lock' = lock /\ mem' = mem /\ op' = op /\ mine' = mine /\ moved' = moved
      /\ edited' = edited \cup {t} /\ t # None
      /\ files' = [files EXCEPT ![t][n] = h]
  BY DEF UserEdits
<1>2. /\ candidate \in Place /\ target \in Place \ {candidate}
      /\ Id \subseteq Place \ {candidate}
      /\ p \in Place \ {candidate} /\ t \in Tree /\ None \notin Tree
  BY <1>1, Pathnames, ConstantsAssumption DEF Place, IInv, TypeOK, Op
<1>3. /\ files' \in [Tree -> Listing] /\ \A u \in Tree \ {t} : files'[u] = files[u]
      /\ user' \in 0..MaxUser
  <2>1. files[t] \in Listing /\ n \in Name
    BY <1>2 DEF IInv, TypeOK
  <2>2. [files[t] EXCEPT ![n] = h] \in Listing
    BY <2>1 DEF Listing
  <2>3. files' = [files EXCEPT ![t] = [files[t] EXCEPT ![n] = h]]
    BY <1>1
  <2>4. user' \in 0..MaxUser
    BY ConstantsAssumption DEF UserEdits, IInv, TypeOK
  <2>. QED
    BY <1>2, <2>2, <2>3, <2>4 DEF IInv, TypeOK
<1>4. \A u \in Tree : u \in mine \ (edited' \cup moved) => Own(u) /\ files'[u] = files[u]
  BY <1>1, <1>3 DEF Own
<1>5. ~Quiet' /\ Target' = Target /\ (Own(Target)' => Own(Target)
      /\ files'[Target] = files[Target])
  BY <1>1 DEF Own, Quiet, Target
<1>6. Good(lock)'
  BY <1>1, <1>5 DEF IInv, LockInv, Good, OwnedInv, PresentInv, RetainedInv, RejectInv,
     Describes, Excused
<1>7. op.pc = "final" => Good(mem)'
  BY <1>1, <1>5 DEF IInv, LockInv, Good, OwnedInv, PresentInv, RetainedInv, RejectInv,
     Describes, Excused
<1>8. TypeOK'
  BY <1>3 DEF IInv, TypeOK, UserEdits
<1>9. HistoryInv'
  BY <1>1, <1>2, <1>3 DEF IInv, HistoryInv
<1>10. LockInv'
  BY <1>1, <1>6, <1>7 DEF IInv, LockInv
<1>11. CandidateInv'
  BY <1>1, <1>2 DEF IInv, CandidateInv, TypeOK
<1>12. ClaimInv'
  BY <1>1 DEF IInv, ClaimInv
<1>13. RecordInv'
  BY <1>1 DEF IInv, RecordInv, Upgrading
<1>14. SightInv'
  BY <1>1, <1>5 DEF IInv, SightInv, Seeing, Own, Strange
<1>. QED
  BY <1>8, <1>9, <1>10, <1>11, <1>12, <1>13, <1>14 DEF IInv

\* A tree of users takes the place of ours only once a user has moved ours.
LEMMA UserMakesStep ==
  ASSUME IInv, NEW listing \in Listing, UserMakes(listing)
  PROVE  IInv'
<1>. DEFINE t == Least(FreshTrees)
<1>1. /\ t \in Tree /\ t \notin {at[p] : p \in Place} /\ t # op.tree
      /\ lock.rec # None => t # lock.rec.ident
      /\ mem.rec # None => t # mem.rec.ident
  BY LeastIn DEF UserMakes, FreshTrees, Tree
<1>. HIDE DEF t
<1>2. /\ lock' = lock /\ mem' = mem /\ op' = op /\ moved' = moved
      /\ edited' = edited \cup {t} /\ mine' = mine \ {t} /\ Target = None
      /\ at' = [at EXCEPT ![target] = t] /\ files' = [files EXCEPT ![t] = listing]
  BY DEF UserMakes, Vacant, Target, t
<1>3. /\ candidate \in Place /\ target \in Place \ {candidate} /\ None \notin Tree
      /\ Id \subseteq Place \ {candidate, target}
  BY Pathnames, ConstantsAssumption DEF Place
<1>4. /\ at' \in [Place -> Tree \cup {None}] /\ at'[target] = t
      /\ \A p \in Place \ {target} : at'[p] = at[p] /\ at[p] # t
      /\ files' \in [Tree -> Listing] /\ \A u \in Tree \ {t} : files'[u] = files[u]
      /\ user' \in 0..MaxUser
      /\ \A p, q \in Place : at'[p] = at'[q] /\ p # q => at'[p] = None
  BY <1>1, <1>2, <1>3, ConstantsAssumption DEF UserMakes, IInv, TypeOK
<1>5. t \notin edited \cup moved
  BY <1>1 DEF IInv, HistoryInv
<1>6. ~Quiet' /\ Target' = t /\ ~Own(Target)' /\ Strange(Target)'
  BY <1>2, <1>4 DEF Own, Quiet, Target, Strange
<1>7. mine' \cap moved = mine \cap moved
  BY <1>2, <1>5
<1>8. Good(lock)'
  BY <1>2, <1>3, <1>6, <1>7 DEF IInv, LockInv, Good, OwnedInv, PresentInv, RetainedInv,
     RejectInv, Excused
<1>9. op.pc = "final" => Good(mem)'
  BY <1>2, <1>3, <1>6, <1>7 DEF IInv, LockInv, Good, OwnedInv, PresentInv, RetainedInv,
     RejectInv, Excused
<1>10. HistoryInv'
  <2>1. \A p \in Place : at'[p] # None => at'[p] \in mine' \cup edited'
    BY <1>2, <1>4 DEF IInv, HistoryInv
  <2>2. ASSUME NEW u \in edited' \cup moved' PROVE \E p \in Place \ {candidate} : at'[p] = u
    <3>1. CASE u = t
      BY <1>3, <1>4, <3>1
    <3>2. CASE u # t
      <4>1. PICK p \in Place \ {candidate} : at[p] = u
        BY <1>2, <2>2, <3>2 DEF IInv, HistoryInv
      <4>2. p # target
        BY <1>2, <1>3, <3>2, <4>1 DEF Target, IInv, TypeOK
      <4>. QED
        BY <1>4, <4>1, <4>2
    <3>. QED
      BY <3>1, <3>2
  <2>. QED
    BY <2>1, <2>2 DEF HistoryInv
<1>11. TypeOK'
  BY <1>4 DEF IInv, TypeOK, UserMakes
<1>12. HistoryInv'
  BY <1>10
<1>13. LockInv'
  BY <1>2, <1>8, <1>9 DEF IInv, LockInv
<1>14. CandidateInv'
  BY <1>2, <1>3, <1>4 DEF IInv, CandidateInv
<1>15. ClaimInv'
  BY <1>2, <1>3, LockTypes DEF IInv, ClaimInv, Installs, Staged, TypeOK
<1>16. RecordInv'
  BY <1>2 DEF IInv, RecordInv, Upgrading
<1>17. SightInv'
  BY <1>2, <1>3, <1>4, <1>6, <1>7 DEF IInv, SightInv, Seeing, Own, Strange
<1>. QED
  BY <1>11, <1>12, <1>13, <1>14, <1>15, <1>16, <1>17 DEF IInv

\* A user who moves a tree takes it out of what the proxy answers for: what was
\* seen there is excused from then on.
LEMMA UserMovesStep ==
  ASSUME IInv, NEW p \in {target, elsewhere}, NEW q \in {target, elsewhere} \ {p},
         UserMoves(p, q)
  PROVE  IInv'
<1>. DEFINE t == at[p]
<1>1. /\ lock' = lock /\ mem' = mem /\ op' = op /\ mine' = mine /\ edited' = edited
      /\ files' = files
      /\ moved' = moved \cup {t} /\ t # None /\ at[q] = None
      /\ at' = [at EXCEPT ![p] = None, ![q] = t]
  BY DEF UserMoves, Move, Vacant
<1>2. /\ candidate \in Place /\ target \in Place \ {candidate} /\ None \notin Tree
      /\ p \in Place \ {candidate} /\ q \in Place \ {candidate, p}
      /\ Id \subseteq Place \ {candidate, p, q}
  BY Pathnames, ConstantsAssumption DEF Place
<1>3. /\ at' \in [Place -> Tree \cup {None}] /\ at'[p] = None /\ at'[q] = t /\ t \in Tree
      /\ \A r \in Place \ {p, q} : at'[r] = at[r]
      /\ user' \in 0..MaxUser
  BY <1>1, <1>2, ConstantsAssumption DEF UserMoves, IInv, TypeOK
<1>4. /\ \A r, s \in Place : at'[r] = at'[s] /\ r # s => at'[r] = None
      /\ \A r \in Place : at'[r] # None => \E s \in Place : at[s] = at'[r]
      /\ \A r \in Place \ {candidate} : at[r] # None
            => \E s \in Place \ {candidate} : at'[s] = at[r]
  BY <1>1, <1>2, <1>3 DEF IInv, TypeOK
<1>5. ~Quiet' /\ ~Own(Target)' /\ Strange(Target)'
      /\ (Target = t \/ Target = None)
  BY <1>1, <1>2 DEF Own, Quiet, Target, Strange, IInv, TypeOK
<1>6. Good(lock)'
  BY <1>1, <1>2, <1>3, <1>5 DEF IInv, LockInv, Good, OwnedInv, PresentInv, RetainedInv,
     RejectInv, Excused
<1>7. op.pc = "final" => Good(mem)'
  BY <1>1, <1>2, <1>3, <1>5 DEF IInv, LockInv, Good, OwnedInv, PresentInv, RetainedInv,
     RejectInv, Excused
<1>8. HistoryInv'
  <2>1. \A r \in Place : at'[r] # None => at'[r] \in mine \cup edited
    BY <1>4 DEF IInv, HistoryInv
  <2>2. ASSUME NEW u \in edited \cup moved \cup {t}
        PROVE  \E r \in Place \ {candidate} : at'[r] = u
    <3>1. PICK r \in Place \ {candidate} : at[r] = u
      BY <1>2, <2>2 DEF IInv, HistoryInv
    <3>2. u # None
      BY <1>2, <1>3, <2>2 DEF IInv, TypeOK
    <3>. QED
      BY <1>4, <3>1, <3>2
  <2>. QED
    BY <1>1, <2>1, <2>2 DEF HistoryInv
<1>9. \A u : (Own(u)' => Own(u)) /\ (Strange(u) => Strange(u)')
  BY <1>1 DEF Own, Strange
<1>10. \A i \in Id : at'[i] = at[i]
  BY <1>2, <1>3
<1>11. lock.rec # None => lock.rec.removal \in Id \cup {None}
  BY LockTypes, RecordTypes DEF IInv, TypeOK
<1>12. Target = op.tree => op.tree \in moved' \/ op.tree = None
  BY <1>1, <1>5
<1>13. TypeOK'
  BY <1>3, <1>4 DEF IInv, TypeOK, UserMoves
<1>14. HistoryInv'
  BY <1>8
<1>15. LockInv'
  BY <1>1, <1>6, <1>7 DEF IInv, LockInv
<1>16. CandidateInv'
  BY <1>1, <1>2, <1>3 DEF IInv, CandidateInv
<1>17. ClaimInv'
  BY <1>1, <1>2, LockTypes DEF IInv, ClaimInv, Installs, Staged, TypeOK
<1>18. RecordInv'
  BY <1>1 DEF IInv, RecordInv, Upgrading
<1>19. SightInv'
  <2>1. Seeing' => /\ op'.tree \in Tree
                   /\ op'.stage = "install" => op'.tree \in mine'
                   /\ Target' = op'.tree \/ (op'.tree \in moved' /\ Strange(Target)')
    BY <1>1, <1>2, <1>5 DEF IInv, SightInv, Seeing
  <2>2. op'.pc = "audit" /\ Own(at[op.up])' =>
          \E s \in Snapshots(lock'.rec) : files'[at'[op'.up]] = s.has
    <3>1. op.pc = "audit" => op.up \in Id
      BY DEF IInv, ClaimInv, TypeOK, Op
    <3>2. op.pc = "audit" => at'[op.up] = at[op.up]
      BY <1>10, <3>1
    <3>. QED
      BY <1>1, <1>9, <3>2 DEF IInv, SightInv
  <2>3. op'.pc = "restore" =>
          /\ op'.rej \in Id /\ at'[op'.rej] # None
          /\ at'[op'.rej] = op'.tree \/ (op'.tree \in moved' /\ Strange(at[op.rej])')
          /\ op'.stage = "install" => op'.tree \in mine'
    BY <1>1, <1>9, <1>10 DEF IInv, SightInv
  <2>4. op'.pc = "fail" /\ lock'.rec # None /\ lock'.rec.uncommitted =>
          lock'.rec.ident \in mine' \cap moved'
    BY <1>1 DEF IInv, SightInv
  <2>5. op'.pc = "removeMove" => op'.tree \in Tree
    BY <1>1 DEF IInv, SightInv
  <2>6. op'.pc = "removeBack" => at'[lock'.rec.removal] # None /\ ~Own(at[lock.rec.removal])'
    BY <1>1, <1>9, <1>10, <1>11 DEF IInv, SightInv, RecordInv
  <2>. QED
    BY <1>5, <2>1, <2>2, <2>3, <2>4, <2>5, <2>6 DEF SightInv
<1>. QED
  BY <1>13, <1>14, <1>15, <1>16, <1>17, <1>18, <1>19 DEF IInv

\* Nothing is installed at first.
LEMMA InitEstablishes ==
  ASSUME Init
  PROVE  IInv
<1>1. target \in Place /\ candidate \in Place /\ Target = None
  BY DEF Init, Place, Target
<1>2. TypeOK
  BY ConstantsAssumption DEF Init, TypeOK, Idle, EmptyLock, Nothing, Op, Pc, LockFile,
     Listing
<1>3. HistoryInv
  BY DEF Init, HistoryInv
<1>4. LockInv
  BY DEF Init, LockInv, Good, EmptyLock, OwnedInv, PresentInv, RetainedInv, RejectInv,
     Own, Place
<1>5. CandidateInv /\ ClaimInv /\ RecordInv /\ SightInv
  BY <1>1 DEF Init, Idle, CandidateInv, ClaimInv, RecordInv, SightInv, Staged, Installs,
     Upgrading, Seeing
<1>. QED
  BY <1>2, <1>3, <1>4, <1>5 DEF IInv

\* Whatever users do between two steps.
LEMMA UserStep ==
  ASSUME IInv, UserActs
  PROVE  IInv'
<1>1. /\ \A v \in Version : Of(v) \in Listing
      /\ \A f \in File : [Nothing EXCEPT ![f] = "user"] \in Listing
      /\ Nothing \in Listing
  BY SnapshotFacts DEF Nothing, Listing
<1>. QED
  BY <1>1, Pathnames, UserEditsStep, UserMakesStep, UserMovesStep DEF UserActs

\* Every step keeps the invariant.
LEMMA NextStep ==
  ASSUME IInv, [Next]_vars
  PROVE  IInv'
<1>1. CASE UNCHANGED vars
  <2>1. TypeOK' /\ HistoryInv'
    BY <1>1 DEF vars, IInv, TypeOK, HistoryInv
  <2>2. LockInv'
    BY <1>1, LockBecomes, MemBecomes DEF vars, IInv, LockInv, disk
  <2>3. CandidateInv' /\ ClaimInv' /\ RecordInv'
    BY <1>1 DEF vars, IInv, CandidateInv, ClaimInv, RecordInv, Upgrading
  <2>4. SightInv'
    BY <1>1 DEF vars, IInv, SightInv, Seeing, Own, Strange, Quiet, Target
  <2>. QED
    BY <2>1, <2>2, <2>3, <2>4 DEF IInv
<1>2. CASE Proxy
  BY <1>2, ReconcileStep, IsolateStep, RestoreStep, ClearMarkerStep, ItemStep,
     ExtractStep, DownloadFailsStep, SupersededStep, CommitStep, ExposeStep,
     SetAsideStep, AuditAsideStep, SwapStep, VerifyStep, RetainStep, PublishStep,
     ItemFailsStep, FinishStep, RemoveStep, RemoveMoveStep, RemoveBackStep,
     DropRecordStep, ForgetStep DEF Proxy
<1>3. CASE Next /\ ~Proxy
  BY <1>3, BeginStep, ManifestChangesStep, CrashStep, UserStep DEF Next
<1>. QED
  BY <1>1, <1>2, <1>3

\* The invariant holds of every moment of every run, a crash after any of the
\* installer's renames and saves included (installer.ts, sync.ts).
THEOREM Invariant == Spec => []IInv
<1>. QED
  BY InitEstablishes, NextStep, PTL DEF Spec

\* Types of the lockfile, the disk and the running operation.
THEOREM TypeCorrect == Spec => []TypeOK
<1>1. IInv => TypeOK
  BY DEF IInv
<1>. QED
  BY <1>1, Invariant, PTL

\* Every tree kept under a retained identity is listed in the lockfile on disk, at
\* every point where the process can die, but for those that users move while they
\* are being isolated: the identities are saved before the renames that use them
\* (sync.ts:1820-1846, 2640-2644), and pruned only when no path has them
\* (sync.ts:1849).
THEOREM RetainedTreesAreListed == Spec => []RetainedAreRecorded
<1>1. IInv => RetainedAreRecorded
  BY DEF IInv, LockInv, Good, RetainedInv, RetainedAreRecorded
<1>. QED
  BY <1>1, Invariant, PTL

\* An installed tree that no user has touched is never without a record, so the
\* skill can be upgraded and removed whenever the proxy comes back: a candidate is
\* recorded before it is exposed (installer.ts:790), and a record is dropped only
\* when nothing of ours is at the target.  The invariant says more, namely that
\* the record tells such a tree by its content (OwnedInv).
THEOREM InstalledTreesAreRecorded == Spec => []OwnedAreRecorded
<1>1. IInv => OwnedAreRecorded
  BY DEF IInv, LockInv, Good, OwnedInv, OwnedAreRecorded, Own
<1>. QED
  BY <1>1, Invariant, PTL

\* Between two syncs, where no user has interfered, the lockfile says what is
\* installed: no record, no tree; a settled record, exactly its snapshot.
THEOREM LockfileIsTrue == Spec => []LockfileDescribesTarget
<1>1. ASSUME IInv, op.pc = "idle", edited \cup moved = {}
      PROVE  LET rec == lock.rec IN
             /\ rec = None => Target = None
             /\ rec # None /\ Plain(rec.snap) = rec => MatchesEntirely(Target, rec.snap)
             /\ rec # None /\ rec.pending # None /\ Target # None =>
                  \E s \in Snapshots(rec) : MatchesEntirely(Target, s)
  <2>. DEFINE rec == lock.rec
  <2>1. Good(lock) /\ Quiet /\ (Target # None => Own(Target))
    BY <1>1 DEF IInv, LockInv, HistoryInv, Own, Quiet, Target, Place
  <2>2. rec = None => Target = None
    BY <2>1 DEF Good, OwnedInv
  <2>3. ASSUME rec # None, Plain(rec.snap) = rec
        PROVE  MatchesEntirely(Target, rec.snap)
    <3>1. rec \in Record
      BY <1>1, <2>3, LockTypes DEF IInv, TypeOK
    <3>2. /\ Settled(rec) /\ ~rec.marker /\ Snapshots(rec) \subseteq {rec.snap}
      BY <2>3 DEF Plain, Settled, Snapshots
    <3>3. Target # None /\ Describes(rec, Target)
      BY <2>1, <2>3, <3>2 DEF Good, OwnedInv, PresentInv
    <3>. QED
      BY <3>2, <3>3 DEF Describes, Settled, MatchesEntirely
  <2>4. ASSUME rec # None, rec.pending # None, Target # None
        PROVE  \E s \in Snapshots(rec) : MatchesEntirely(Target, s)
    BY <2>1, <2>4 DEF Good, Shaped, OwnedInv, Describes, MatchesEntirely
  <2>. QED
    BY <2>2, <2>3, <2>4
<1>2. IInv => LockfileDescribesTarget
  BY <1>1 DEF LockfileDescribesTarget
<1>. QED
  BY <1>2, Invariant, PTL

\* The step that TreesSurvive asks of all but the candidate.
Survive == \A p \in Place \ {candidate} : at[p] # None => \E q \in Place : at'[q] = at[p]

\* A rename to a vacant path loses nothing.
LEMMA MoveSurvives ==
  ASSUME at \in [Place -> Tree \cup {None}], NEW p \in Place, NEW q \in Place,
         at[q] = None, Move(p, q)
  PROVE  Survive
BY DEF Move, Survive

\* Every rename of the proxy has a vacant destination, and all it deletes is at
\* the candidate.
LEMMA ProxySurvives ==
  ASSUME IInv, Proxy
  PROVE  Survive
<1>1. /\ at \in [Place -> Tree \cup {None}] /\ target \in Place /\ candidate \in Place
      /\ Id \subseteq Place
  BY DEF IInv, TypeOK, Place
<1>2. at' = at => Survive
  BY DEF Survive
<1>3. DiscardCandidate => Survive
  BY <1>1 DEF DiscardCandidate, Survive
<1>4. Isolate => Survive
  <2>1. op.pc = "isolate" => op.rej \in Id
    BY LockTypes DEF IInv, TypeOK, Op, LockInv, Good, Shaped, RecordInv, ClaimInv,
       Resolves
  <2>. QED
    BY <1>1, <1>2, <2>1, MoveSurvives DEF Isolate, Vacant
<1>5. Restore => Survive
  BY <1>1, <1>2, MoveSurvives DEF Restore, Vacant, IInv, SightInv
<1>6. Extract => Survive
  BY DEF Extract, Survive
<1>7. Commit => Survive
  BY <1>2, <1>3 DEF Commit
<1>8. Expose \/ Swap => Survive
  BY <1>1, <1>3, MoveSurvives DEF Expose, Swap, Vacant
<1>9. SetAside => Survive
  BY <1>1, <1>2, MoveSurvives DEF SetAside, IInv, ClaimInv, TypeOK, Op
<1>10. AuditAside => Survive
  <2>1. op.pc = "audit" => op.up \in Id
    BY DEF IInv, ClaimInv, TypeOK, Op
  <2>. QED
    BY <1>1, <1>2, <2>1, Pathnames DEF AuditAside, Survive, Vacant
<1>11. RemoveMove \/ RemoveBack => Survive
  <2>1. op.pc \in {"removeMove", "removeBack"} => mem.rec.removal \in Id
    BY LockTypes, RecordTypes DEF IInv, TypeOK, LockInv, RecordInv
  <2>. QED
    BY <1>1, <1>2, <2>1, MoveSurvives DEF RemoveMove, RemoveBack, Vacant
<1>12. Reconcile \/ ClearMarker \/ Item \/ DownloadFails \/ Superseded \/ Verify \/ Retain
       \/ (\E linked \in BOOLEAN : Publish(linked)) \/ ItemFails \/ Finish \/ Remove
       \/ DropRecord \/ Forget => at' = at
  BY DEF Reconcile, ClearMarker, Item, DownloadFails, Superseded, Verify, Retain,
     Publish, ItemFails, Finish, Remove, DropRecord, Forget
<1>. QED
  BY <1>2, <1>4, <1>5, <1>6, <1>7, <1>8, <1>9, <1>10, <1>11, <1>12 DEF Proxy

\* A crash takes the candidate alone with it, and users overwrite nothing here.
LEMMA WorldSurvives ==
  ASSUME IInv, Next, ~Proxy
  PROVE  Survive
<1>1. /\ at \in [Place -> Tree \cup {None}] /\ target \in Place /\ candidate \in Place
      /\ elsewhere \in Place
  BY DEF IInv, TypeOK, Place
<1>2. at' = at => Survive
  BY DEF Survive
<1>3. Crash => Survive
  BY <1>1 DEF Crash, DiscardCandidate, Survive
<1>4. ASSUME NEW listing, UserMakes(listing) PROVE Survive
  BY <1>1, <1>4 DEF UserMakes, Vacant, Survive
<1>5. UserMoves(target, elsewhere) \/ UserMoves(elsewhere, target) => Survive
  BY <1>1, MoveSurvives DEF UserMoves, Vacant
<1>6. UserActs => Survive
  BY <1>2, <1>4, <1>5 DEF UserActs, UserEdits
<1>. QED
  BY <1>2, <1>3, <1>6 DEF Next, Begin, ManifestChanges

\* No step of the proxy, no crash and no failure overwrites or deletes a tree
\* outside the candidate's own path (rename-no-replace, installer.ts).
THEOREM NoTreeIsLost == Spec => TreesSurvive
<1>1. IInv /\ [Next]_vars => [\A p \in Place \ {candidate} :
                                at[p] # None => \E q \in Place : at'[q] = at[p]]_vars
  BY ProxySurvives, WorldSurvives DEF Survive
<1>. QED
  BY <1>1, Invariant, PTL DEF Spec, TreesSurvive

==============================================================================
