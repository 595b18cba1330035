-------------------------- MODULE SkillLinks_proofs --------------------------
(***************************************************************************)
(* The safety properties of SkillLinks for every set of paths and targets  *)
(* and every bound on entries, acts of users, changes and faults.          *)
(***************************************************************************)
EXTENDS SkillLinks, TLAPS

(***************************************************************************)
(* The inductive invariant.                                                *)
(***************************************************************************)
\* Entries are inodes in use, each at one place.
TreeInv ==
  /\ \A p \in Path : entry[p] <= inodes /\ entry[p] \notin aside
  /\ \A p, q \in Path : entry[p] # 0 /\ entry[p] = entry[q] => p = q
  /\ aside \cup ours \subseteq 1..inodes

\* Whatever is called a link is one, and not a user's content.
AreLinks(links) == \A l \in links : l[2] <= inodes /\ kind[l[2]] # "user"

LinksOf(record) == IF record = None THEN {} ELSE record.links

\* A record knows the sync's link at p by its identity, or by the intent.
Knows(record, p) ==
  /\ record # None
  /\ \/ <<p, entry[p]>> \in record.links
     \/ /\ record.publication # None
        /\ record.publication = [path |-> p, target |-> kind[entry[p]]]

Sound(record) ==
  /\ AreLinks(LinksOf(record))
  /\ \A p \in Path : entry[p] \in ours => Knows(record, p)

RecordsInv ==
  /\ Sound(lock)
  /\ pc # "idle" => Sound(mem)
  /\ AreLinks(result) /\ AreLinks(obsolete)
  /\ \A p \in Path : owned[p] # 0 => owned[p] <= inodes /\ kind[owned[p]] # "user"

Publishing == {"intend", "link", "commit", "rollback"}
Undoing == {"undo", "rolled"}
Planned == {"paths", "intend", "link", "commit", "retain", "inspect", "discard", "unlink"}

\* Until something fails, memory is the lockfile, with an intent only where one
\* is due.
SyncedInv ==
  /\ pc \notin Undoing \cup {"idle", "save"} => mem = IF lock = None THEN NoLinks ELSE lock
  /\ pc \in (Planned \ {"link", "commit"}) \cup {"verify"} => mem.publication = None
  /\ pc \in {"link", "commit", "rollback", "rolled"} =>
       mem.publication = [path |-> cur.path, target |-> conf.target]
  /\ pc = "adopt" => mem.publication = [path |-> cur.path, target |-> kind[cur.inode]]
  /\ pc \in Undoing => mem # None

\* The link at hand, and the one it is to replace.
HandInv ==
  /\ pc \in Publishing \cup Undoing \cup {"retain", "inspect", "adopt"} => cur.path \in Path
  /\ pc \in {"commit", "rollback"} => cur.inode \in 1..inodes
  /\ pc \in {"commit", "rollback"} => kind[cur.inode] = conf.target
  /\ pc \in {"adopt", "retain", "inspect"} =>
       cur.inode \in 1..inodes /\ kind[cur.inode] # "user"
  /\ pc \in {"retain", "inspect", "discard"} => cur.why \in {"retarget", "remove"}
  /\ pc \in {"intend", "link", "commit"} => cur.why = "retarget" \/ hold = 0
  /\ pc \in {"inspect", "intend", "link"} => entry[cur.path] \notin ours
  /\ pc \in {"commit", "rollback"} /\ entry[cur.path] \in ours => entry[cur.path] = cur.inode

\* What was moved aside is a link that the records still know, as long as it may
\* go back.
HoldInv ==
  /\ pc \notin Publishing \cup Undoing \cup {"inspect", "discard", "save"} => hold = 0
  /\ pc \in Publishing \cup Undoing \cup {"inspect", "discard"} /\ hold # 0 => hold \in aside
  /\ pc \in Publishing \cup Undoing \cup {"discard"} /\ hold # 0 => kind[hold] # "user"
  /\ pc = "inspect" => hold # 0
  /\ pc \in Publishing \cup Undoing \cup {"inspect"} /\ hold \in ours =>
       <<cur.path, hold>> \in LinksOf(mem) \cap LinksOf(lock)
  /\ pc = "rollback" => entry[cur.path] = cur.inode \/ hold \notin ours

\* Every link of the sync is done, or waits to be done.
PlanInv ==
  /\ ~want \/ pc = "idle" => left = {} /\ result = {}
  /\ pc \in Publishing \cup {"paths"} => want
  /\ pc \in {"retain", "inspect", "discard"} /\ cur.why = "retarget" => want
  /\ pc \in Planned =>
       \A p \in Path : entry[p] \in ours =>
         \/ <<p, entry[p]>> \in result \cup obsolete
         \/ p \in left
         \/ p = cur.path /\ pc \in {"retain", "commit"}
  /\ pc \in {"retain", "inspect", "discard"} /\ cur.why = "remove" => left = {}
  /\ pc = "unlink" => left = {}
  /\ want => \A l \in obsolete : l[1] \notin conf.dirs
  /\ want /\ pc \in {"retain", "inspect"} /\ cur.why = "remove" => cur.path \notin conf.dirs

\* A desired link that was live is live, or is the one moved aside.
FanoutInv ==
  /\ want => \A p \in had \cap conf.dirs :
       \/ entry[p] # 0 /\ kind[entry[p]] # "user"
       \/ /\ p = cur.path /\ entry[p] = 0 /\ hold # 0 /\ kind[hold] # "user"
          /\ pc \in {"inspect", "intend", "link"} \cup Undoing
  /\ want /\ pc \in Publishing \cup Undoing /\ cur.path \in had \cap conf.dirs => hold # 0

RestInv == pc = "idle" => had = {} /\ mem = None /\ obsolete = {}

IInv ==
  /\ TypeOK /\ TreeInv /\ RecordsInv /\ SyncedInv /\ HandInv /\ HoldInv /\ PlanInv
  /\ FanoutInv /\ RestInv

-----------------------------------------------------------------------------
(***************************************************************************)
(* Types.                                                                  *)
(***************************************************************************)
LEMMA Constants ==
  /\ None \notin Path /\ None \notin Target /\ None \notin Publication /\ None \notin Record
  /\ "user" \notin Target /\ MaxInode \in Nat /\ Inode = 1..MaxInode
BY LinksAssumption DEF Inode

LEMMA Typed ==
  ASSUME TypeOK
  PROVE  /\ entry \in [Path -> 0..MaxInode] /\ kind \in [Inode -> Target \cup {"user"}]
         /\ ours \subseteq Inode /\ aside \subseteq Inode
         /\ inodes \in 0..MaxInode /\ inodes \in Nat
         /\ lock \in Record \cup {None} /\ mem \in Record \cup {None}
         /\ conf.dirs \subseteq Path /\ conf.target \in Target
         /\ owned \in [Path -> 0..MaxInode]
         /\ left \subseteq Path /\ had \subseteq Path
         /\ result \subseteq Path \X Inode /\ obsolete \subseteq Path \X Inode
         /\ hold \in 0..MaxInode
<1>1. Inode = 1..MaxInode /\ MaxInode \in Nat
  BY Constants
<1>2. lock \in Record \cup {None} /\ mem \in Record \cup {None}
  BY DEF TypeOK
<1>3. /\ entry \in [Path -> 0..MaxInode] /\ kind \in [Inode -> Target \cup {"user"}]
      /\ inodes \in 0..MaxInode /\ owned \in [Path -> 0..MaxInode] /\ hold \in 0..MaxInode
  BY DEF TypeOK
<1>4. /\ ours \subseteq Inode /\ aside \subseteq Inode
      /\ left \subseteq Path /\ had \subseteq Path
      /\ result \subseteq Path \X Inode /\ obsolete \subseteq Path \X Inode
      /\ conf.dirs \subseteq Path /\ conf.target \in Target
  BY DEF TypeOK
<1>. QED
  BY <1>1, <1>2, <1>3, <1>4

LEMMA CurTyped ==
  ASSUME TypeOK
  PROVE  /\ cur.path \in Path \cup {None} /\ cur.inode \in 0..MaxInode
         /\ cur.why \in {"none", "finish", "publish", "retarget", "remove"}
BY DEF TypeOK

\* The record a sync works on.
LEMMA MemIsRecord ==
  ASSUME IInv, pc \notin {"idle", "save"}
  PROVE  /\ mem \in Record /\ mem.links \subseteq Path \X Inode
         /\ mem.publication \in Publication \cup {None}
         /\ LinksOf(mem) = mem.links /\ Sound(mem)
<1>1. NoLinks \in Record
  BY DEF NoLinks, Record
<1>2. mem \in Record
  BY <1>1, Typed DEF IInv, SyncedInv
<1>3. mem # None
  BY <1>2, Constants
<1>. QED
  BY <1>2, <1>3 DEF Record, LinksOf, IInv, RecordsInv

LEMMA WithdrawnRecord ==
  ASSUME NEW r \in Record
  PROVE  /\ Withdrawn(r) \in Record /\ Withdrawn(r) # None
         /\ Withdrawn(r).links = r.links /\ Withdrawn(r).publication = None
BY Constants DEF Withdrawn, Record

LEMMA LinkedRecord ==
  ASSUME NEW r \in Record, NEW p \in Path, NEW k \in Inode
  PROVE  /\ Linked(r, p, k) \in Record /\ Linked(r, p, k) # None
         /\ Linked(r, p, k).links = {l \in r.links : l[1] # p} \cup {<<p, k>>}
         /\ Linked(r, p, k).publication = None
BY Constants DEF Linked, Record

LEMMA IntendedRecord ==
  ASSUME NEW r \in Record, NEW q \in Publication
  PROVE  /\ [r EXCEPT !.publication = q] \in Record /\ [r EXCEPT !.publication = q] # None
         /\ [r EXCEPT !.publication = q].links = r.links
         /\ [r EXCEPT !.publication = q].publication = q
BY Constants DEF Record

-----------------------------------------------------------------------------
(***************************************************************************)
(* Sound records.                                                          *)
(***************************************************************************)
\* Entries keep their content.
KindsStand ==
  /\ \A k \in 1..inodes : kind'[k] = kind[k]
  /\ inodes <= inodes' /\ inodes' \in Nat

\* No link of the sync appears, moves or is retargeted.
LinksStand ==
  /\ KindsStand
  /\ \A p \in Path : entry'[p] \in ours' => entry[p] \in ours /\ entry'[p] = entry[p]

LEMMA LinksAre ==
  ASSUME TypeOK, KindsStand, NEW links, links \subseteq Path \X Inode, AreLinks(links)
  PROVE  \A l \in links : l[2] <= inodes' /\ kind'[l[2]] # "user"
BY Typed, Constants DEF KindsStand, AreLinks

\* The same of the plan of a sync.
LEMMA PlanStands ==
  ASSUME IInv, KindsStand
  PROVE  /\ UNCHANGED result => AreLinks(result)'
         /\ UNCHANGED obsolete => AreLinks(obsolete)'
         /\ UNCHANGED owned =>
              \A p \in Path :
                owned'[p] # 0 => owned'[p] <= inodes' /\ kind'[owned'[p]] # "user"
<1>1. /\ \A l \in result : l[2] <= inodes' /\ kind'[l[2]] # "user"
      /\ \A l \in obsolete : l[2] <= inodes' /\ kind'[l[2]] # "user"
  BY LinksAre, Typed DEF IInv, RecordsInv
<1>2. \A p \in Path : owned[p] # 0 => owned[p] <= inodes' /\ kind'[owned[p]] # "user"
  BY Typed DEF IInv, RecordsInv, KindsStand
<1>. QED
  BY <1>1, <1>2 DEF AreLinks

LEMMA SoundStands ==
  ASSUME TypeOK, TreeInv, LinksStand, NEW r \in Record \cup {None}, Sound(r)
  PROVE  /\ lock' = r => Sound(lock)'
         /\ mem' = r => Sound(mem)'
<1>. DEFINE links == IF r = None THEN {} ELSE r.links
<1>1. links \subseteq Path \X Inode /\ AreLinks(links)
  BY DEF Record, Sound, LinksOf
<1>2. \A l \in links : l[2] <= inodes' /\ kind'[l[2]] # "user"
  BY <1>1, LinksAre DEF LinksStand
<1>3. ASSUME NEW p \in Path, entry'[p] \in ours'
      PROVE  /\ r # None
             /\ \/ <<p, entry'[p]>> \in r.links
                \/ /\ r.publication # None
                   /\ r.publication = [path |-> p, target |-> kind'[entry'[p]]]
  <2>1. entry'[p] = entry[p] /\ entry[p] \in ours /\ entry[p] \in 1..inodes
    BY <1>3 DEF LinksStand, TreeInv
  <2>2. kind'[entry'[p]] = kind[entry[p]]
    BY <2>1 DEF LinksStand, KindsStand
  <2>. QED
    BY <2>1, <2>2 DEF Sound, Knows
<1>. QED
  BY <1>2, <1>3 DEF Sound, AreLinks, LinksOf, Knows

LEMMA SoundWithout ==
  ASSUME NEW r \in Record, Sound(r),
         r.publication # None =>
           LET p == r.publication.path
           IN  entry[p] \in ours =>
                 \/ <<p, entry[p]>> \in r.links
                 \/ kind[entry[p]] # r.publication.target
  PROVE  Sound(Withdrawn(r))
<1>1. Withdrawn(r) # None /\ r # None /\ Withdrawn(r).links = r.links
  BY WithdrawnRecord, Constants
<1>2. ASSUME NEW p \in Path, entry[p] \in ours
      PROVE  <<p, entry[p]>> \in r.links
  <2>1. CASE r.publication = [path |-> p, target |-> kind[entry[p]]] /\ r.publication # None
    BY <1>2, <2>1
  <2>2. CASE <<p, entry[p]>> \in r.links
    BY <2>2
  <2>. QED BY <1>2, <2>1 DEF Sound, Knows
<1>. QED
  BY <1>1, <1>2 DEF Sound, Knows, LinksOf

LEMMA SoundLinked ==
  ASSUME IInv, NEW r \in Record, Sound(r), NEW p \in Path, NEW k \in Inode,
         k <= inodes, kind[k] # "user",
         entry[p] \in ours => entry[p] = k,
         r.publication # None => r.publication.path = p
  PROVE  Sound(Linked(r, p, k))
<1>1. /\ Linked(r, p, k) # None /\ r # None
      /\ Linked(r, p, k).links = {l \in r.links : l[1] # p} \cup {<<p, k>>}
  BY LinkedRecord, Constants
<1>2. AreLinks(LinksOf(Linked(r, p, k)))
  BY <1>1 DEF Sound, LinksOf, AreLinks
<1>3. ASSUME NEW q \in Path, entry[q] \in ours
      PROVE  <<q, entry[q]>> \in Linked(r, p, k).links
  <2>1. CASE q = p
    BY <1>1, <1>3, <2>1
  <2>2. CASE q # p
    <3>1. \A t : [path |-> q, target |-> t].path = q
      OBVIOUS
    <3>2. Knows(r, q)
      BY <1>3 DEF Sound
    <3>3. <<q, entry[q]>> \in r.links
      BY <2>2, <3>1, <3>2 DEF Knows
    <3>. QED BY <1>1, <2>2, <3>3
  <2>. QED BY <2>1, <2>2
<1>. QED
  BY <1>1, <1>2, <1>3 DEF Sound, Knows

LEMMA SoundIntended ==
  ASSUME NEW r \in Record, NEW q \in Publication, Sound(r), r.publication = None
  PROVE  Sound([r EXCEPT !.publication = q])
<1>. DEFINE s == [r EXCEPT !.publication = q]
<1>1. s # None /\ r # None /\ s.links = r.links
  BY IntendedRecord, Constants
<1>. HIDE DEF s
<1>2. AreLinks(LinksOf(s))
  BY <1>1 DEF Sound, LinksOf
<1>3. \A p \in Path : entry[p] \in ours => <<p, entry[p]>> \in s.links
  BY <1>1 DEF Sound, Knows
<1>4. Sound(s)
  BY <1>1, <1>2 DEF Sound, Knows
<1>. QED
  BY <1>4 DEF s

\* What a step keeps that leaves the directories and the records alone.
LEMMA Unmoved ==
  ASSUME IInv, UNCHANGED tree
  PROVE  /\ TreeInv' /\ LinksStand
         /\ \A r \in Record \cup {None} :
              Sound(r) => (lock' = r => Sound(lock)') /\ (mem' = r => Sound(mem)')
         /\ UNCHANGED lock => Sound(lock)'
         /\ UNCHANGED mem /\ pc # "idle" => Sound(mem)'
         /\ UNCHANGED result => AreLinks(result)'
         /\ UNCHANGED obsolete => AreLinks(obsolete)'
         /\ UNCHANGED owned =>
              \A p \in Path :
                owned'[p] # 0 => owned'[p] <= inodes' /\ kind'[owned'[p]] # "user"
<1>1. TypeOK /\ TreeInv /\ RecordsInv /\ inodes \in Nat /\ lock \in Record \cup {None}
      /\ mem \in Record \cup {None}
  BY Typed DEF IInv
<1>2. TreeInv' /\ LinksStand
  BY <1>1 DEF TreeInv, tree, LinksStand, KindsStand
<1>3. \A r \in Record \cup {None} :
        Sound(r) => (lock' = r => Sound(lock)') /\ (mem' = r => Sound(mem)')
  BY <1>1, <1>2, SoundStands
<1>4. Sound(lock) /\ (pc # "idle" => Sound(mem))
  BY <1>1 DEF RecordsInv
<1>5. KindsStand
  BY <1>2 DEF LinksStand
<1>. QED
  BY <1>1, <1>2, <1>3, <1>4, <1>5, PlanStands

LEMMA PersistedRecord ==
  ASSUME IInv, NEW r \in Record, Sound(r), NEW step, step \in {"verify"},
         Persists(r, step), UNCHANGED <<tree, plan>>, pc \in {"finish", "adopt"}
  PROVE  RecordsInv' /\ {lock, mem}' \subseteq Record \cup {None}
<1>1. mem' = r /\ lock' \in {r, lock} /\ UNCHANGED <<tree, owned, result, obsolete>>
  BY DEF Persists, plan
<1>2. Sound(lock)' /\ Sound(mem)'
  BY <1>1, Unmoved
<1>. QED
  BY <1>1, <1>2, Unmoved, Typed DEF RecordsInv, IInv

\* symlinkAt(): a link of the sync's where there was none.
LEMMA LinkingMakes ==
  ASSUME IInv, NEW p \in Path, NEW t \in Target, entry[p] = 0, Linking(p, t)
  PROVE  /\ inodes' = inodes + 1 /\ inodes' \in Inode /\ inodes \in Nat
         /\ entry' \in [Path -> 0..MaxInode] /\ kind' \in [Inode -> Target \cup {"user"}]
         /\ aside' = aside /\ ours' = ours \cup {inodes'} /\ ours' \subseteq Inode
         /\ entry'[p] = inodes' /\ \A q \in Path : q # p => entry'[q] = entry[q]
         /\ kind'[inodes'] = t
         /\ KindsStand /\ TreeInv'
<1>1. /\ inodes' = inodes + 1 /\ inodes' \in Inode /\ inodes \in Nat /\ inodes \in 0..MaxInode
      /\ aside' = aside /\ ours' = ours \cup {inodes'}
  BY Typed, Constants DEF Linking, IInv
<1>2. /\ entry' \in [Path -> 0..MaxInode] /\ kind' \in [Inode -> Target \cup {"user"}]
      /\ ours' \subseteq Inode
      /\ entry'[p] = inodes' /\ \A q \in Path : q # p => entry'[q] = entry[q]
      /\ kind'[inodes'] = t /\ \A k \in Inode : k # inodes' => kind'[k] = kind[k]
  BY Typed, Constants DEF Linking, IInv
<1>3. KindsStand
  BY <1>1, <1>2, Constants DEF KindsStand
<1>4. TreeInv'
  BY <1>1, <1>2 DEF IInv, TreeInv
<1>. QED
  BY <1>1, <1>2, <1>3, <1>4

\* A record with the intent for it knows the new link.
LEMMA SoundMore ==
  ASSUME IInv, NEW p \in Path, NEW t \in Target, entry[p] = 0, Linking(p, t),
         NEW r \in Record, Sound(r),
         r.publication = [path |-> p, target |-> t], r.publication # None
  PROVE  (lock' = r => Sound(lock)') /\ (mem' = r => Sound(mem)')
<1>1. r # None /\ r.links \subseteq Path \X Inode
  BY Constants DEF Record
<1>2. \A l \in r.links : l[2] <= inodes' /\ kind'[l[2]] # "user"
  BY <1>1, LinksAre, LinkingMakes DEF Sound, LinksOf, IInv
<1>3. ASSUME NEW q \in Path, entry'[q] \in ours'
      PROVE  \/ <<q, entry'[q]>> \in r.links
             \/ r.publication = [path |-> q, target |-> kind'[entry'[q]]]
  <2>1. CASE q = p
    BY <2>1, LinkingMakes
  <2>2. CASE q # p
    <3>1. entry'[q] = entry[q] /\ entry[q] \in ours /\ entry[q] \in 1..inodes
      BY <1>3, <2>2, LinkingMakes DEF TreeInv
    <3>2. kind'[entry'[q]] = kind[entry[q]]
      BY <3>1, LinkingMakes DEF KindsStand
    <3>. QED BY <3>1, <3>2 DEF Sound, Knows
  <2>. QED BY <2>1, <2>2
<1>. QED
  BY <1>1, <1>2, <1>3 DEF Sound, AreLinks, LinksOf, Knows

-----------------------------------------------------------------------------
(***************************************************************************)
(* The steps that finish an interrupted publication.                       *)
(***************************************************************************)
\* What is on record is a link.
LEMMA OursAreLinks ==
  ASSUME IInv
  PROVE  \A p \in Path : entry[p] \in ours => entry[p] # 0 /\ kind[entry[p]] # "user"
<1>. SUFFICES ASSUME NEW p \in Path, entry[p] \in ours
              PROVE  entry[p] # 0 /\ kind[entry[p]] # "user"
  OBVIOUS
<1>1. entry[p] # 0
  BY DEF IInv, TreeInv
<1>2. Sound(lock) /\ Knows(lock, p) /\ lock \in Record
  BY Typed DEF IInv, RecordsInv, Sound, Knows
<1>3. CASE <<p, entry[p]>> \in lock.links
  BY <1>1, <1>2, <1>3 DEF Sound, AreLinks, LinksOf, Knows
<1>4. CASE lock.publication # None /\ lock.publication = [path |-> p, target |-> kind[entry[p]]]
  <2>1. lock.publication \in Publication
    BY <1>2, <1>4 DEF Record
  <2>2. kind[entry[p]] = lock.publication.target /\ lock.publication.target \in Target
    BY <1>4, <2>1 DEF Publication
  <2>. QED BY <1>1, <2>2, Constants
<1>. QED
  BY <1>1, <1>2, <1>3, <1>4 DEF Knows

LEMMA BeginsStep ==
  ASSUME IInv, Begins
  PROVE  IInv'
<1>. USE DEF Begins, Goes, tree, plan, NoLinks
<1>1. NoLinks \in Record /\ LinksOf(NoLinks) = {} /\ mem' \in Record /\ lock' = lock
  BY Typed DEF IInv, Record, LinksOf
<1>2. Sound(lock) /\ (lock = None => Sound(NoLinks))
  <2>1. Sound(lock)
    BY DEF IInv, RecordsInv
  <2>2. lock = None => \A p \in Path : entry[p] \notin ours
    BY <2>1 DEF Sound, Knows
  <2>. QED BY <1>1, <2>1, <2>2 DEF Sound, AreLinks
<1>3. Sound(mem)'
  BY <1>1, <1>2, Unmoved, Constants
<1>4. TypeOK'
  BY <1>1 DEF IInv, TypeOK
<1>5. TreeInv'
  BY Unmoved DEF IInv, TreeInv
<1>6. RecordsInv'
  BY <1>3, Unmoved DEF RecordsInv
<1>7. SyncedInv'
  BY DEF SyncedInv, Planned, Undoing
<1>8. HandInv'
  BY DEF HandInv, Publishing, Undoing
<1>9. HoldInv'
  BY DEF IInv, HoldInv, Publishing, Undoing
<1>10. PlanInv'
  BY DEF IInv, PlanInv, Planned, Publishing
<1>11. FanoutInv'
  BY OursAreLinks DEF FanoutInv, Publishing, Undoing
<1>12. RestInv'
  BY DEF IInv, RestInv
<1>. QED
  BY <1>4, <1>5, <1>6, <1>7, <1>8, <1>9, <1>10, <1>11, <1>12 DEF IInv

LEMMA NothingToFinishStep ==
  ASSUME IInv, NothingToFinish
  PROVE  IInv'
<1>. USE DEF NothingToFinish, Goes, tree, plan, world
<1>1. TypeOK'
  BY DEF IInv, TypeOK
<1>2. TreeInv'
  BY Unmoved DEF IInv, TreeInv
<1>3. RecordsInv'
  BY Unmoved DEF IInv, RecordsInv
<1>4. SyncedInv'
  BY DEF IInv, SyncedInv, Undoing
<1>5. HandInv'
  BY DEF HandInv, Publishing, Undoing
<1>6. HoldInv'
  BY DEF IInv, HoldInv, Publishing, Undoing
<1>7. PlanInv'
  BY DEF IInv, PlanInv, Planned, Publishing
<1>8. FanoutInv'
  BY DEF IInv, FanoutInv, Publishing, Undoing
<1>9. RestInv'
  BY DEF IInv, RestInv
<1>. QED
  BY <1>1, <1>2, <1>3, <1>4, <1>5, <1>6, <1>7, <1>8, <1>9 DEF IInv

LEMMA WithdrawsStep ==
  ASSUME IInv, Withdraws
  PROVE  IInv'
<1>. USE DEF Withdraws, Persists, Goes, Fails, tree, plan, world
<1>1. mem \in Record /\ Sound(mem)
  BY MemIsRecord
<1>2. Sound(Withdrawn(mem))
  <2>1. ASSUME mem.publication # None, entry[mem.publication.path] \in ours
        PROVE  kind[entry[mem.publication.path]] # mem.publication.target
    <3>1. Present(mem.publication.path)
      BY <2>1 DEF Present, IInv, TreeInv
    <3>. QED BY <3>1 DEF Retained
  <2>. QED BY <1>1, <2>1, SoundWithout
<1>3. RecordsInv' /\ {lock, mem}' \subseteq Record \cup {None}
  BY <1>1, <1>2, WithdrawnRecord, PersistedRecord
<1>4. TypeOK'
  BY <1>3 DEF IInv, TypeOK
<1>5. TreeInv'
  BY Unmoved DEF IInv, TreeInv
<1>6. RecordsInv'
  BY <1>3 DEF IInv, RecordsInv
<1>7. SyncedInv'
  BY <1>1, WithdrawnRecord DEF SyncedInv
<1>8. HandInv'
  BY DEF HandInv, Publishing, Undoing
<1>9. HoldInv'
  BY DEF IInv, HoldInv, Publishing, Undoing
<1>10. PlanInv'
  BY DEF IInv, PlanInv, Planned, Publishing
<1>11. FanoutInv'
  BY DEF IInv, FanoutInv, Publishing, Undoing
<1>12. RestInv'
  BY DEF IInv, RestInv
<1>. QED
  BY <1>4, <1>5, <1>6, <1>7, <1>8, <1>9, <1>10, <1>11, <1>12 DEF IInv

LEMMA AdoptsLinkStep ==
  ASSUME IInv, AdoptsLink
  PROVE  IInv'
<1>. USE DEF AdoptsLink, Persists, Goes, Fails, tree, plan, world
<1>. DEFINE p == mem.publication.path
            r == Linked(mem, p, entry[p])
<1>1. mem \in Record /\ Sound(mem) /\ mem.publication \in Publication
  BY MemIsRecord
<1>2. ASSUME Adoptable(mem.publication)
      PROVE  RecordsInv' /\ {lock, mem}' \subseteq Record \cup {None} /\ SyncedInv'
  <2>1. p \in Path /\ entry[p] \in Inode /\ entry[p] <= inodes /\ kind[entry[p]] # "user"
    BY <1>1, <1>2, Typed, Constants DEF Present, Adoptable, Publication, IInv, TreeInv
  <2>2. r \in Record /\ r.publication = None /\ Sound(r)
    BY <1>1, <2>1, LinkedRecord, SoundLinked
  <2>3. Persists(r, "verify")
    BY <1>2
  <2>. HIDE DEF r
  <2>4. RecordsInv' /\ {lock, mem}' \subseteq Record \cup {None}
    BY <2>2, <2>3, PersistedRecord
  <2>5. SyncedInv'
    BY <2>2, <2>3, Constants DEF SyncedInv
  <2>. QED BY <2>4, <2>5
<1>3. ASSUME ~Adoptable(mem.publication)
      PROVE  RecordsInv' /\ {lock, mem}' \subseteq Record \cup {None} /\ SyncedInv'
  <2>1. RecordsInv' /\ {lock, mem}' \subseteq Record \cup {None}
    BY <1>3, Unmoved, Typed DEF IInv, RecordsInv
  <2>2. SyncedInv'
    BY <1>3 DEF SyncedInv, Planned, Undoing
  <2>. QED BY <2>1, <2>2
<1>4. TypeOK'
  BY <1>2, <1>3 DEF IInv, TypeOK
<1>5. TreeInv'
  BY Unmoved DEF IInv, TreeInv
<1>6. RecordsInv'
  BY <1>2, <1>3
<1>7. SyncedInv'
  BY <1>2, <1>3
<1>8. HandInv'
  BY DEF HandInv, Publishing, Undoing
<1>9. HoldInv'
  BY DEF IInv, HoldInv, Publishing, Undoing
<1>10. PlanInv'
  BY DEF IInv, PlanInv, Planned, Publishing
<1>11. FanoutInv'
  BY DEF IInv, FanoutInv, Publishing, Undoing
<1>12. RestInv'
  BY DEF IInv, RestInv
<1>. QED
  BY <1>4, <1>5, <1>6, <1>7, <1>8, <1>9, <1>10, <1>11, <1>12 DEF IInv

LEMMA RepublishesStep ==
  ASSUME IInv, Republishes
  PROVE  IInv'
<1>. USE DEF Republishes, StillDesired, Present, plan, world
<1>. DEFINE p == mem.publication.path
            t == mem.publication.target
<1>1. mem \in Record /\ Sound(mem) /\ mem.publication \in Publication /\ lock = mem
  BY MemIsRecord DEF IInv, SyncedInv, Undoing, NoLinks
<1>2. p \in Path /\ t \in Target /\ mem.publication = [path |-> p, target |-> t]
  BY <1>1 DEF Publication
<1>3. entry[p] = 0 /\ Linking(p, t)
  OBVIOUS
<1>. HIDE DEF p, t
<1>4. Sound(lock)' /\ Sound(mem)'
  BY <1>1, <1>2, <1>3, SoundMore
<1>5. TypeOK'
  BY LinkingMakes DEF IInv, TypeOK
<1>6. TreeInv'
  BY <1>2, LinkingMakes
<1>7. RecordsInv'
  BY <1>2, <1>4, LinkingMakes, PlanStands DEF RecordsInv
<1>8. SyncedInv'
  BY <1>1, <1>2, LinkingMakes, Constants DEF SyncedInv, Planned
<1>9. HandInv'
  BY <1>2, LinkingMakes, Constants DEF HandInv
<1>10. HoldInv'
  BY DEF IInv, HoldInv, Publishing, Undoing
<1>11. PlanInv'
  BY DEF IInv, PlanInv, Planned
<1>12. FanoutInv'
  <2>1. entry'[p] # 0 /\ kind'[entry'[p]] # "user"
    BY <1>2, <1>3, LinkingMakes, Constants
  <2>2. ASSUME NEW q \in had \cap conf.dirs, want, q # p
        PROVE  entry'[q] # 0 /\ kind'[entry'[q]] # "user"
    <3>1. entry[q] # 0 /\ kind[entry[q]] # "user"
      BY <2>2 DEF IInv, FanoutInv, Undoing
    <3>2. q \in Path /\ entry[q] \in 1..inodes
      BY <3>1, Typed DEF IInv, TreeInv
    <3>. QED BY <1>2, <1>3, <2>2, <3>1, <3>2, LinkingMakes DEF KindsStand
  <2>3. pc' = "adopt" /\ UNCHANGED <<had, conf, want>>
    OBVIOUS
  <2>. QED BY <2>1, <2>2, <2>3 DEF FanoutInv, Publishing, Undoing
<1>13. RestInv'
  BY DEF IInv, RestInv
<1>. QED
  BY <1>5, <1>6, <1>7, <1>8, <1>9, <1>10, <1>11, <1>12, <1>13 DEF IInv

LEMMA FinishesLinkStep ==
  ASSUME IInv, FinishesLink
  PROVE  IInv'
<1>. USE DEF FinishesLink, Persists, Goes, Fails, tree, plan, world
<1>. DEFINE p == cur.path
            r == Linked(mem, p, cur.inode)
<1>1. /\ mem \in Record /\ Sound(mem) /\ p \in Path
      /\ cur.inode \in Inode /\ cur.inode <= inodes /\ kind[cur.inode] # "user"
      /\ mem.publication # None => mem.publication.path = p
  BY MemIsRecord, Typed, Constants DEF IInv, SyncedInv, HandInv
<1>2. ASSUME entry[p] = cur.inode
      PROVE  RecordsInv' /\ {lock, mem}' \subseteq Record \cup {None} /\ SyncedInv'
  <2>1. r \in Record /\ r.publication = None /\ Sound(r)
    BY <1>1, <1>2, LinkedRecord, SoundLinked
  <2>2. Persists(r, "verify")
    BY <1>2
  <2>. HIDE DEF r
  <2>3. RecordsInv' /\ {lock, mem}' \subseteq Record \cup {None}
    BY <2>1, <2>2, PersistedRecord
  <2>4. SyncedInv'
    BY <2>1, <2>2, Constants DEF SyncedInv
  <2>. QED BY <2>3, <2>4
<1>3. ASSUME entry[p] # cur.inode
      PROVE  RecordsInv' /\ {lock, mem}' \subseteq Record \cup {None} /\ SyncedInv'
  <2>1. RecordsInv' /\ {lock, mem}' \subseteq Record \cup {None}
    BY <1>3, Unmoved, Typed DEF IInv, RecordsInv
  <2>2. SyncedInv'
    BY <1>3 DEF SyncedInv, Planned, Undoing
  <2>. QED BY <2>1, <2>2
<1>4. TypeOK'
  BY <1>2, <1>3 DEF IInv, TypeOK
<1>5. TreeInv'
  BY Unmoved DEF IInv, TreeInv
<1>6. RecordsInv'
  BY <1>2, <1>3
<1>7. SyncedInv'
  BY <1>2, <1>3
<1>8. HandInv'
  BY DEF IInv, HandInv
<1>9. HoldInv'
  BY DEF IInv, HoldInv, Publishing, Undoing
<1>10. PlanInv'
  BY DEF IInv, PlanInv, Planned, Publishing
<1>11. FanoutInv'
  BY DEF IInv, FanoutInv, Publishing, Undoing
<1>12. RestInv'
  BY DEF IInv, RestInv
<1>. QED
  BY <1>4, <1>5, <1>6, <1>7, <1>8, <1>9, <1>10, <1>11, <1>12 DEF IInv

-----------------------------------------------------------------------------
(***************************************************************************)
(* The plan of a sync.                                                     *)
(***************************************************************************)
\* A desired path is owned by a recorded link, if by any.
LEMMA OwnerIsLink ==
  ASSUME IInv, pc = "verify", NEW p \in Path
  PROVE  /\ Owner(p) \in 0..MaxInode
         /\ Owner(p) # 0 => Owner(p) <= inodes /\ kind[Owner(p)] # "user"
<1>. DEFINE matches == {l \in mem.links : entry[p] = l[2]}
            exact == {l \in mem.links : l[1] = p}
            picked(S) == CHOOSE k \in Inode : \E l \in S : l[2] = k
<1>1. /\ mem.links \subseteq Path \X Inode
      /\ \A l \in mem.links : l[2] <= inodes /\ kind[l[2]] # "user"
  BY MemIsRecord DEF Sound, AreLinks
<1>2. ASSUME NEW S, S \subseteq mem.links, S # {}
      PROVE  picked(S) \in Inode /\ picked(S) <= inodes /\ kind[picked(S)] # "user"
  <2>1. \E k \in Inode : \E l \in S : l[2] = k
    BY <1>1, <1>2
  <2>. QED BY <1>1, <1>2, <2>1
<1>3. matches \subseteq mem.links /\ exact \subseteq mem.links
  OBVIOUS
<1>4. Owner(p) = IF matches # {} THEN picked(matches)
                 ELSE IF exact # {} THEN picked(exact)
                 ELSE 0
  BY DEF Owner
<1>. HIDE DEF matches, exact, picked
<1>. QED
  BY <1>2, <1>3, <1>4, Constants

LEMMA VerifiesStep ==
  ASSUME IInv, Verifies
  PROVE  IInv'
<1>. USE DEF Verifies, Goes, Fails, tree, plan, world
<1>. DEFINE Verified == /\ \A p \in conf.dirs : Present(p) => entry[p] = Owner(p)
                        /\ \A l \in mem.links : ~Matched(l) /\ Present(l[1]) => Same(l)
<1>1. /\ mem \in Record /\ mem.links \subseteq Path \X Inode /\ AreLinks(mem.links)
      /\ Sound(mem) /\ mem.publication = None
  BY MemIsRecord DEF Sound, IInv, SyncedInv
<1>2. UNCHANGED <<entry, ours, kind, inodes, mem, lock, conf, want, cur, hold>>
  OBVIOUS
<1>3. ASSUME Verified
      PROVE  /\ pc' = "paths" /\ left' = conf.dirs /\ result' = {}
             /\ obsolete' = {l \in mem.links : ~Matched(l)}
             /\ owned' = [p \in Path |-> IF p \in conf.dirs THEN Owner(p) ELSE 0]
             /\ failed' = failed
  BY <1>3
<1>4. ASSUME ~Verified
      PROVE  pc' = "save" /\ UNCHANGED <<owned, left, result, obsolete>>
  BY <1>4 DEF plan
<1>. HIDE DEF Verified
<1>5. /\ owned' \in [Path -> 0..MaxInode] /\ left' \subseteq Path
      /\ result' \subseteq Path \X Inode /\ obsolete' \subseteq Path \X Inode
  <2>1. CASE Verified
    <3>1. \A p \in Path : Owner(p) \in 0..MaxInode /\ 0 \in 0..MaxInode
      BY OwnerIsLink, Constants
    <3>2. conf.dirs \subseteq Path
      BY Typed DEF IInv
    <3>. QED BY <1>1, <1>3, <2>1, <3>1, <3>2
  <2>2. CASE ~Verified
    BY <1>4, <2>2, Typed DEF IInv
  <2>. QED BY <2>1, <2>2
<1>6. ASSUME Verified PROVE PlanInv'
  <2>1. ASSUME NEW p \in Path, entry[p] \in ours, p \notin conf.dirs
        PROVE  <<p, entry[p]>> \in obsolete'
    <3>1. <<p, entry[p]>> \in mem.links
      BY <1>1, <2>1 DEF Sound, Knows
    <3>2. ~\E q \in conf.dirs : entry[q] = entry[p]
      BY <2>1, Typed DEF IInv, TreeInv
    <3>. QED BY <1>3, <1>6, <2>1, <3>1, <3>2 DEF Matched
  <2>2. \A l \in obsolete' : l[1] \notin conf.dirs
    BY <1>3, <1>6 DEF Matched
  <2>. QED BY <1>3, <1>6, <2>1, <2>2 DEF PlanInv
<1>7. TypeOK'
  BY <1>1, <1>3, <1>4, <1>5 DEF IInv, TypeOK
<1>8. TreeInv'
  BY Unmoved DEF IInv, TreeInv
<1>9. RecordsInv'
  <2>1. Sound(lock)' /\ Sound(mem)'
    BY <1>2, Unmoved DEF IInv
  <2>2. CASE Verified
    <3>1. AreLinks(result)' /\ AreLinks(obsolete)'
      BY <1>1, <1>2, <1>3, <2>2 DEF AreLinks
    <3>2. \A p \in Path : owned'[p] # 0 => owned'[p] <= inodes' /\ kind'[owned'[p]] # "user"
      BY <1>2, <1>3, <2>2, OwnerIsLink
    <3>. QED BY <2>1, <3>1, <3>2 DEF RecordsInv
  <2>3. CASE ~Verified
    BY <1>4, <2>1, <2>3, Unmoved DEF RecordsInv
  <2>. QED BY <2>2, <2>3
<1>10. SyncedInv'
  BY DEF IInv, SyncedInv, Undoing
<1>11. HandInv'
  BY DEF HandInv, Publishing, Undoing
<1>12. HoldInv'
  BY DEF IInv, HoldInv, Publishing, Undoing
<1>13. PlanInv'
  BY <1>4, <1>6 DEF IInv, PlanInv, Planned
<1>14. FanoutInv'
  BY DEF IInv, FanoutInv, Publishing, Undoing
<1>15. RestInv'
  BY DEF IInv, RestInv
<1>. QED
  BY <1>7, <1>8, <1>9, <1>10, <1>11, <1>12, <1>13, <1>14, <1>15 DEF IInv

LEMMA TakesRecordedStep ==
  ASSUME IInv, TakesRecorded
  PROVE  IInv'
<1>. USE DEF TakesRecorded, Goes, tree, world
<1>1. /\ mem \in Record /\ mem.links \subseteq Path \X Inode /\ AreLinks(mem.links)
      /\ Sound(mem) /\ mem.publication = None
  BY MemIsRecord DEF Sound, IInv, SyncedInv
<1>2. \A p \in Path : entry[p] \in ours => <<p, entry[p]>> \in mem.links
  BY <1>1 DEF Sound, Knows
<1>3. TypeOK'
  BY <1>1 DEF IInv, TypeOK
<1>4. TreeInv'
  BY Unmoved DEF IInv, TreeInv
<1>5. RecordsInv'
  <2>1. obsolete' = mem.links /\ mem' = mem /\ UNCHANGED <<kind, inodes>>
    OBVIOUS
  <2>2. AreLinks(obsolete)'
    BY <1>1, <2>1 DEF AreLinks
  <2>. QED BY <2>2, Unmoved DEF RecordsInv
<1>6. SyncedInv'
  BY DEF IInv, SyncedInv, Undoing
<1>7. HandInv'
  BY DEF HandInv, Publishing, Undoing
<1>8. HoldInv'
  BY DEF IInv, HoldInv, Publishing, Undoing
<1>9. PlanInv'
  BY <1>2 DEF IInv, PlanInv, Publishing
<1>10. FanoutInv'
  BY DEF FanoutInv
<1>11. RestInv'
  BY DEF IInv, RestInv
<1>. QED
  BY <1>3, <1>4, <1>5, <1>6, <1>7, <1>8, <1>9, <1>10, <1>11 DEF IInv

LEMMA TakesPathStep ==
  ASSUME IInv, NEW p \in Path, TakesPath(p)
  PROVE  IInv'
<1>1. /\ pc = "paths" /\ p \in left /\ left' = left \ {p}
      /\ UNCHANGED <<lock, mem, owned, obsolete, want, conf, had, hold>>
      /\ UNCHANGED tree /\ UNCHANGED <<entry, kind, ours, aside, inodes>>
  BY DEF TakesPath, Fails, Goes, tree, world
<1>2. /\ pc' \in {"paths", "intend", "retain", "save"}
      /\ pc' = "paths" => /\ result' = result \cup {<<p, entry[p]>>}
                          /\ cur' = cur /\ entry[p] = owned[p] /\ entry[p] # 0
      /\ pc' = "intend" => /\ entry[p] = 0 /\ result' = result
                           /\ cur' = [path |-> p, inode |-> owned[p], why |-> "publish"]
      /\ pc' = "retain" => /\ entry[p] = owned[p] /\ entry[p] # 0 /\ result' = result
                           /\ cur' = [path |-> p, inode |-> owned[p], why |-> "retarget"]
      /\ pc' = "save" => cur' = cur /\ result' = result
      /\ failed' \in {failed, TRUE}
  BY DEF TakesPath, Present, Fails, Goes, tree, world
<1>3. /\ owned[p] \in 0..MaxInode /\ entry[p] \in 0..MaxInode /\ MaxInode \in Nat
      /\ inodes \in Nat /\ Inode = 1..MaxInode /\ left \subseteq Path
      /\ owned[p] # 0 => owned[p] \in 1..inodes /\ kind[owned[p]] # "user"
  BY Typed, Constants DEF IInv, RecordsInv
<1>4. /\ pc' \in {"intend", "retain"} => cur'.path = p
      /\ pc' = "retain" => cur'.inode = owned[p] /\ cur'.why = "retarget"
  BY <1>2
<1>5. hold = 0 /\ 0 \notin ours
  BY <1>1 DEF IInv, HoldInv, TreeInv, Publishing, Undoing

<1>6. /\ cur' \in [path : Path \cup {None}, inode : 0..MaxInode,
                  why : {"none", "finish", "publish", "retarget", "remove"}]
      /\ result' \subseteq Path \X Inode /\ AreLinks(result)'
  <2>1. cur \in [path : Path \cup {None}, inode : 0..MaxInode,
                why : {"none", "finish", "publish", "retarget", "remove"}]
    BY DEF IInv, TypeOK
  <2>2. UNCHANGED <<kind, inodes>> /\ AreLinks(result) /\ result \subseteq Path \X Inode
    BY <1>1, Typed DEF IInv, RecordsInv
  <2>3. pc' = "paths" => /\ <<p, entry[p]>> \in Path \X Inode
                         /\ entry[p] <= inodes /\ kind[entry[p]] # "user"
    BY <1>2, <1>3
  <2>4. result' \subseteq result \cup {<<p, entry[p]>>} /\ (pc' # "paths" => result' = result)
    BY <1>2
  <2>5. result' \subseteq Path \X Inode
    BY <2>2, <2>3, <2>4
  <2>6. AreLinks(result)'
    BY <2>2, <2>3, <2>4 DEF AreLinks
  <2>. QED BY <1>2, <1>3, <2>1, <2>5, <2>6
<1>7. TypeOK'
  BY <1>1, <1>2, <1>6 DEF IInv, TypeOK
<1>8. TreeInv'
  BY <1>1, Unmoved
<1>9. RecordsInv'
  BY <1>1, <1>6, Unmoved DEF RecordsInv
<1>10. SyncedInv'
  BY <1>1, <1>2 DEF IInv, SyncedInv, Planned, Undoing
<1>11. HandInv'
  <2>1. CASE pc' = "intend"
    BY <1>1, <1>2, <1>5, <2>1 DEF HandInv
  <2>2. CASE pc' = "retain"
    BY <1>1, <1>2, <1>3, <2>2 DEF HandInv
  <2>3. CASE pc' \in {"paths", "save"}
    BY <2>3 DEF HandInv, Publishing, Undoing
  <2>. QED BY <1>2, <2>1, <2>2, <2>3
<1>12. HoldInv'
  BY <1>1, <1>2, <1>5 DEF HoldInv
<1>13. PlanInv'
  BY <1>1, <1>2, <1>5 DEF IInv, PlanInv, Planned
<1>14. FanoutInv'
  <2>1. want => \A q \in had \cap conf.dirs : entry[q] # 0 /\ kind[entry[q]] # "user"
    BY <1>5 DEF IInv, FanoutInv
  <2>2. want /\ pc' = "intend" => p \notin had \cap conf.dirs
    BY <1>2, <1>5, <2>1
  <2>. QED BY <1>1, <1>2, <2>1, <2>2 DEF FanoutInv, Publishing, Undoing
<1>15. RestInv'
  BY <1>2 DEF RestInv
<1>. QED
  BY <1>7, <1>8, <1>9, <1>10, <1>11, <1>12, <1>13, <1>14, <1>15 DEF IInv

-----------------------------------------------------------------------------
(***************************************************************************)
(* The publication of a link.                                              *)
(***************************************************************************)
LEMMA IntendsStep ==
  ASSUME IInv, Intends
  PROVE  IInv'
<1>. USE DEF Intends, Goes, tree, plan, world
<1>. DEFINE q == [path |-> cur.path, target |-> conf.target]
            r == [mem EXCEPT !.publication = q]
<1>1. /\ mem \in Record /\ Sound(mem) /\ mem.publication = None /\ cur.path \in Path
      /\ LinksOf(mem) = mem.links /\ q \in Publication
  BY MemIsRecord, Typed DEF IInv, HandInv, SyncedInv, Publishing, Planned, Publication
<1>2. r \in Record /\ r # None /\ LinksOf(r) = mem.links /\ r.publication = q /\ Sound(r)
  BY <1>1, IntendedRecord, SoundIntended DEF LinksOf
<1>3. mem' = r /\ lock' = r
  OBVIOUS
<1>. HIDE DEF r
<1>4. Sound(lock)' /\ Sound(mem)'
  BY <1>2, <1>3, Unmoved
<1>5. TypeOK'
  BY <1>2, <1>3 DEF IInv, TypeOK
<1>6. TreeInv'
  BY Unmoved DEF IInv, TreeInv
<1>7. RecordsInv'
  BY <1>4, Unmoved DEF RecordsInv
<1>8. SyncedInv'
  BY <1>2, <1>3 DEF SyncedInv
<1>9. HandInv'
  BY DEF IInv, HandInv, Publishing
<1>10. HoldInv'
  BY <1>1, <1>2, <1>3 DEF IInv, HoldInv, Publishing
<1>11. PlanInv'
  BY DEF IInv, PlanInv, Planned, Publishing
<1>12. FanoutInv'
  BY DEF IInv, FanoutInv, HandInv, HoldInv, Publishing, Undoing
<1>13. RestInv'
  BY DEF IInv, RestInv
<1>. QED
  BY <1>5, <1>6, <1>7, <1>8, <1>9, <1>10, <1>11, <1>12, <1>13 DEF IInv

LEMMA IntentFailsStep ==
  ASSUME IInv, IntentFails
  PROVE  IInv'
<1>. USE DEF IntentFails, Spend, Goes, tree, plan, world
<1>. DEFINE q == [path |-> cur.path, target |-> conf.target]
            r == [mem EXCEPT !.publication = q]
<1>1. /\ mem \in Record /\ Sound(mem) /\ mem.publication = None /\ cur.path \in Path
      /\ LinksOf(mem) = mem.links /\ q \in Publication
  BY MemIsRecord, Typed DEF IInv, HandInv, SyncedInv, Publishing, Planned, Publication
<1>2. r \in Record /\ r # None /\ LinksOf(r) = mem.links /\ r.publication = q /\ Sound(r)
  BY <1>1, IntendedRecord, SoundIntended DEF LinksOf
<1>3. mem' = r /\ lock' = lock
  OBVIOUS
<1>. HIDE DEF r
<1>4. Sound(lock)' /\ Sound(mem)'
  BY <1>2, <1>3, Unmoved
<1>5. TypeOK'
  BY <1>2, <1>3 DEF IInv, TypeOK
<1>6. TreeInv'
  BY Unmoved DEF IInv, TreeInv
<1>7. RecordsInv'
  BY <1>4, Unmoved DEF RecordsInv
<1>8. SyncedInv'
  BY <1>2, <1>3 DEF SyncedInv, Planned, Undoing
<1>9. HandInv'
  BY DEF IInv, HandInv, Publishing
<1>10. HoldInv'
  BY <1>1, <1>2, <1>3 DEF IInv, HoldInv, TreeInv, Undoing
<1>11. PlanInv'
  BY DEF IInv, PlanInv, Planned, Publishing
<1>12. FanoutInv'
  BY DEF IInv, FanoutInv, HandInv, HoldInv, Publishing, Undoing
<1>13. RestInv'
  BY DEF IInv, RestInv
<1>. QED
  BY <1>5, <1>6, <1>7, <1>8, <1>9, <1>10, <1>11, <1>12, <1>13 DEF IInv

LEMMA LinksStep ==
  ASSUME IInv, Links
  PROVE  IInv'
<1>. USE DEF Links, Present, plan, world
<1>1. /\ cur.path \in Path /\ conf.target \in Target /\ entry[cur.path] = 0
      /\ Linking(cur.path, conf.target)
  BY Typed DEF IInv, HandInv, Publishing
<1>2. /\ mem \in Record /\ lock = mem /\ Sound(mem) /\ mem.publication # None
      /\ mem.publication = [path |-> cur.path, target |-> conf.target]
  BY <1>1, MemIsRecord, Constants DEF IInv, SyncedInv, Undoing, NoLinks, Publication
<1>3. Sound(lock)' /\ Sound(mem)'
  BY <1>1, <1>2, SoundMore
<1>4. /\ cur'.path = cur.path /\ cur'.inode = inodes' /\ cur'.why = cur.why
      /\ cur' \in [path : Path \cup {None}, inode : 0..MaxInode,
                   why : {"none", "finish", "publish", "retarget", "remove"}]
  <2>1. cur \in [path : Path \cup {None}, inode : 0..MaxInode,
                why : {"none", "finish", "publish", "retarget", "remove"}]
    BY DEF IInv, TypeOK
  <2>2. inodes' \in 0..MaxInode
    BY <1>1, LinkingMakes, Constants
  <2>. QED BY <2>1, <2>2
<1>5. hold # 0 /\ hold \in aside => kind'[hold] = kind[hold]
  BY <1>1, LinkingMakes DEF KindsStand, TreeInv
<1>6. TypeOK'
  BY <1>1, <1>4, LinkingMakes DEF IInv, TypeOK
<1>7. TreeInv'
  BY <1>1, LinkingMakes
<1>8. RecordsInv'
  BY <1>1, <1>3, LinkingMakes, PlanStands DEF RecordsInv
<1>9. SyncedInv'
  BY <1>2, Constants DEF SyncedInv
<1>10. HandInv'
  BY <1>1, LinkingMakes DEF IInv, HandInv
<1>11. HoldInv'
  BY <1>1, <1>5, LinkingMakes DEF IInv, HoldInv, TreeInv, Publishing
<1>12. PlanInv'
  BY <1>1, LinkingMakes DEF IInv, PlanInv, TreeInv, Planned, Publishing
<1>13. FanoutInv'
  <2>1. ASSUME NEW q \in had \cap conf.dirs
        PROVE  want => entry'[q] # 0 /\ kind'[entry'[q]] # "user"
    <3>1. CASE q = cur.path
      BY <1>1, <3>1, LinkingMakes, Constants
    <3>2. CASE q # cur.path
      <4>1. want => entry[q] \in 1..inodes /\ kind[entry[q]] # "user"
        BY <3>2, Typed DEF IInv, FanoutInv, TreeInv
      <4>. QED BY <1>1, <3>2, <4>1, LinkingMakes, Typed DEF IInv, KindsStand
    <3>. QED BY <3>1, <3>2
  <2>2. want /\ cur.path \in had \cap conf.dirs => hold # 0
    BY <1>1 DEF IInv, FanoutInv, Publishing
  <2>. QED BY <2>1, <2>2 DEF FanoutInv
<1>14. RestInv'
  BY DEF RestInv
<1>. QED
  BY <1>6, <1>7, <1>8, <1>9, <1>10, <1>11, <1>12, <1>13, <1>14 DEF IInv

LEMMA LinkFailsStep ==
  ASSUME IInv, LinkFails
  PROVE  IInv'
<1>. USE DEF LinkFails, Present, Spend, Goes, tree, plan, world
<1>1. /\ mem \in Record /\ Sound(mem) /\ entry[cur.path] \notin ours /\ LinksOf(mem) = mem.links
      /\ mem.publication = [path |-> cur.path, target |-> conf.target]
      /\ mem.publication.path = cur.path
  BY MemIsRecord DEF IInv, HandInv, SyncedInv
<1>2. /\ Withdrawn(mem) \in Record /\ Withdrawn(mem) # None
      /\ LinksOf(Withdrawn(mem)) = mem.links /\ Sound(Withdrawn(mem))
  BY <1>1, WithdrawnRecord, SoundWithout DEF LinksOf
<1>3. Sound(lock)' /\ Sound(mem)'
  BY <1>2, Unmoved DEF IInv
<1>4. TypeOK'
  BY <1>2 DEF IInv, TypeOK
<1>5. TreeInv'
  BY Unmoved DEF IInv, TreeInv
<1>6. RecordsInv'
  BY <1>3, Unmoved DEF RecordsInv
<1>7. SyncedInv'
  BY <1>2 DEF SyncedInv, Planned, Undoing
<1>8. HandInv'
  BY DEF IInv, HandInv, Publishing
<1>9. HoldInv'
  BY <1>1, <1>2 DEF IInv, HoldInv, TreeInv, Undoing
<1>10. PlanInv'
  BY DEF IInv, PlanInv, Planned, Publishing
<1>11. FanoutInv'
  BY DEF IInv, FanoutInv, HandInv, HoldInv, Publishing, Undoing
<1>12. RestInv'
  BY DEF IInv, RestInv
<1>. QED
  BY <1>4, <1>5, <1>6, <1>7, <1>8, <1>9, <1>10, <1>11, <1>12 DEF IInv

LEMMA LinkAmbiguousStep ==
  ASSUME IInv, LinkAmbiguous
  PROVE  IInv'
<1>1. /\ pc = "link" /\ pc' = "rolled" /\ entry[cur.path] = 0
      /\ UNCHANGED <<lock, mem, owned, left, result, obsolete>>
      /\ UNCHANGED <<want, conf, had, cur, hold, failed>>
  BY DEF LinkAmbiguous, Present, Goes, plan, world
<1>2. Linking(cur.path, conf.target) \/ UNCHANGED tree
  BY DEF LinkAmbiguous
<1>3. cur.path \in Path /\ conf.target \in Target
  BY <1>1, Typed DEF IInv, HandInv, Publishing
<1>4. /\ mem \in Record /\ lock = mem /\ Sound(mem) /\ mem # None /\ mem.publication # None
      /\ mem.publication = [path |-> cur.path, target |-> conf.target]
  <2>1. mem \in Record /\ Sound(mem) /\ mem # None
    BY <1>1, MemIsRecord, Constants
  <2>2. mem.publication = [path |-> cur.path, target |-> conf.target]
    BY <1>1 DEF IInv, SyncedInv
  <2>3. mem.publication # None
    BY <1>3, <2>2, Constants DEF Publication
  <2>4. lock = mem
    BY <1>1, <2>3 DEF IInv, SyncedInv, Undoing, NoLinks
  <2>. QED BY <2>1, <2>2, <2>3, <2>4
<1>5. /\ TreeInv' /\ Sound(lock)' /\ Sound(mem)' /\ aside' = aside /\ ours \subseteq ours'
      /\ KindsStand /\ \A q \in Path : q # cur.path => entry'[q] = entry[q]
      /\ \/ entry'[cur.path] = 0
         \/ entry'[cur.path] # 0 /\ kind'[entry'[cur.path]] # "user"
      /\ entry' \in [Path -> 0..MaxInode] /\ kind' \in [Inode -> Target \cup {"user"}]
      /\ ours' \subseteq Inode /\ inodes' \in 0..MaxInode
      /\ \A k \in 1..inodes : k \in ours' => k \in ours
  <2>1. CASE Linking(cur.path, conf.target)
    <3>1. Sound(lock)' /\ Sound(mem)'
      BY <1>1, <1>3, <1>4, <2>1, SoundMore
    <3>2. inodes' = inodes + 1 /\ inodes' \in 0..MaxInode
      BY <1>1, <1>3, <2>1, LinkingMakes, Constants
    <3>3. entry'[cur.path] # 0 /\ kind'[entry'[cur.path]] # "user"
      BY <1>1, <1>3, <2>1, LinkingMakes, Constants
    <3>. QED BY <1>1, <1>3, <2>1, <3>1, <3>2, <3>3, LinkingMakes
  <2>2. CASE UNCHANGED tree
    BY <1>1, <2>2, Unmoved, Typed DEF tree, LinksStand, IInv
  <2>. QED BY <1>2, <2>1, <2>2
<1>6. /\ 0 \notin ours
      /\ hold # 0 => hold \in 1..inodes /\ kind[hold] # "user" /\ hold \in aside
  BY <1>1 DEF IInv, TreeInv, HoldInv
<1>7. hold # 0 => kind'[hold] = kind[hold] /\ (hold \in ours' <=> hold \in ours)
  BY <1>5, <1>6 DEF KindsStand
<1>8. TypeOK'
  BY <1>1, <1>5 DEF IInv, TypeOK
<1>9. TreeInv'
  BY <1>5 DEF IInv, TreeInv
<1>10. RecordsInv'
  BY <1>1, <1>5, PlanStands DEF RecordsInv
<1>11. SyncedInv'
  BY <1>1, <1>4 DEF SyncedInv, Planned
<1>12. HandInv'
  BY <1>1, <1>3 DEF HandInv
<1>13. HoldInv'
  BY <1>1, <1>5, <1>7 DEF IInv, HoldInv, TreeInv, Undoing
<1>14. PlanInv'
  BY <1>1 DEF IInv, PlanInv, Planned, Publishing
<1>15. FanoutInv'
  <2>1. ASSUME NEW q \in had \cap conf.dirs
        PROVE  want => \/ entry'[q] # 0 /\ kind'[entry'[q]] # "user"
                       \/ /\ q = cur.path /\ entry'[q] = 0
                          /\ hold # 0 /\ kind'[hold] # "user"
    <3>1. CASE q = cur.path
      <4>1. want => hold # 0
        BY <1>1, <3>1 DEF IInv, FanoutInv, Publishing
      <4>. QED BY <1>5, <1>6, <1>7, <3>1, <4>1
    <3>2. CASE q # cur.path
      <4>1. want => entry[q] \in 1..inodes /\ kind[entry[q]] # "user"
        BY <3>2, Typed DEF IInv, FanoutInv, TreeInv
      <4>. QED BY <1>5, <3>2, <4>1, Typed DEF KindsStand, IInv
    <3>. QED BY <3>1, <3>2
  <2>2. want /\ cur.path \in had \cap conf.dirs => hold # 0
    BY <1>1 DEF IInv, FanoutInv, Publishing
  <2>. QED BY <1>1, <2>1, <2>2 DEF FanoutInv, Undoing
<1>16. RestInv'
  BY <1>1 DEF RestInv
<1>. QED
  BY <1>8, <1>9, <1>10, <1>11, <1>12, <1>13, <1>14, <1>15, <1>16 DEF IInv

LEMMA CommitsStep ==
  ASSUME IInv, Commits
  PROVE  IInv'
<1>. USE DEF Commits, Goes, tree, world
<1>. DEFINE r == Linked(mem, cur.path, cur.inode)
<1>1. /\ mem \in Record /\ Sound(mem)
      /\ cur.path \in Path /\ cur.inode \in Inode /\ cur.inode <= inodes
      /\ kind[cur.inode] # "user"
      /\ mem.publication # None => mem.publication.path = cur.path
  BY MemIsRecord, Typed, Constants DEF IInv, SyncedInv, HandInv, Publishing
<1>2. r \in Record /\ r # None /\ r.publication = None /\ Sound(r)
  BY <1>1, LinkedRecord, SoundLinked
<1>3. /\ lock' = r /\ mem' = r /\ entry[cur.path] = cur.inode
      /\ result' = result \cup {<<cur.path, cur.inode>>}
  OBVIOUS
<1>. HIDE DEF r
<1>4. result' \subseteq Path \X Inode /\ AreLinks(result)'
  <2>1. result \subseteq Path \X Inode /\ AreLinks(result) /\ UNCHANGED <<kind, inodes>>
    BY Typed DEF IInv, RecordsInv
  <2>2. <<cur.path, cur.inode>> \in Path \X Inode
    BY <1>1
  <2>. QED BY <1>1, <1>3, <2>1, <2>2 DEF AreLinks
<1>5. Sound(lock)' /\ Sound(mem)'
  BY <1>2, <1>3, Unmoved
<1>6. TypeOK'
  BY <1>2, <1>3, <1>4 DEF IInv, TypeOK
<1>7. TreeInv'
  BY Unmoved DEF IInv, TreeInv
<1>8. RecordsInv'
  BY <1>4, <1>5, Unmoved DEF RecordsInv
<1>9. SyncedInv'
  BY <1>2, <1>3 DEF SyncedInv
<1>10. HandInv'
  BY DEF IInv, HandInv, Publishing
<1>11. HoldInv'
  BY DEF IInv, HoldInv, Publishing, Undoing
<1>12. PlanInv'
  <2>1. \A q \in Path : entry[q] \in ours =>
          <<q, entry[q]>> \in result' \cup obsolete \/ q \in left
    BY DEF IInv, PlanInv, Planned
  <2>2. pc' = "discard" => cur'.why # "remove"
    BY DEF IInv, HandInv
  <2>3. pc' \in {"paths", "discard"}
    OBVIOUS
  <2>4. /\ UNCHANGED <<want, left, obsolete, conf, entry, ours>>
        /\ want => \A l \in obsolete : l[1] \notin conf.dirs
        /\ want
    BY DEF IInv, PlanInv, Publishing
  <2>. QED BY <2>1, <2>2, <2>4 DEF PlanInv
<1>13. FanoutInv'
  BY DEF IInv, FanoutInv, HandInv, Publishing
<1>14. RestInv'
  BY DEF IInv, RestInv
<1>. QED
  BY <1>6, <1>7, <1>8, <1>9, <1>10, <1>11, <1>12, <1>13, <1>14 DEF IInv

LEMMA CommitRefusedStep ==
  ASSUME IInv, CommitRefused
  PROVE  IInv'
<1>. USE DEF CommitRefused, Goes, tree, plan, world
<1>1. mem # None
  BY MemIsRecord, Constants
<1>2. TypeOK'
  BY DEF IInv, TypeOK
<1>3. TreeInv'
  BY Unmoved DEF IInv, TreeInv
<1>4. RecordsInv'
  BY Unmoved DEF IInv, RecordsInv
<1>5. SyncedInv'
  BY <1>1 DEF IInv, SyncedInv, Planned, Undoing
<1>6. HandInv'
  BY DEF IInv, HandInv, Publishing
<1>7. HoldInv'
  BY DEF IInv, HoldInv, TreeInv, Undoing
<1>8. PlanInv'
  BY DEF IInv, PlanInv, Planned, Publishing
<1>9. FanoutInv'
  BY DEF IInv, FanoutInv, HandInv, HoldInv, Publishing, Undoing
<1>10. RestInv'
  BY DEF IInv, RestInv
<1>. QED
  BY <1>2, <1>3, <1>4, <1>5, <1>6, <1>7, <1>8, <1>9, <1>10 DEF IInv

LEMMA CommitFailsStep ==
  ASSUME IInv, CommitFails
  PROVE  IInv'
<1>. USE DEF CommitFails, Spend, Goes, tree, plan, world
<1>1. TypeOK'
  BY DEF IInv, TypeOK
<1>2. TreeInv'
  BY Unmoved DEF IInv, TreeInv
<1>3. RecordsInv'
  BY Unmoved DEF IInv, RecordsInv
<1>4. SyncedInv'
  BY DEF IInv, SyncedInv, Planned, Undoing
<1>5. HandInv'
  BY DEF IInv, HandInv, Publishing
<1>6. HoldInv'
  BY DEF IInv, HoldInv, Publishing
<1>7. PlanInv'
  BY DEF IInv, PlanInv, Planned, Publishing
<1>8. FanoutInv'
  BY DEF IInv, FanoutInv, HandInv, Publishing
<1>9. RestInv'
  BY DEF IInv, RestInv
<1>. QED
  BY <1>1, <1>2, <1>3, <1>4, <1>5, <1>6, <1>7, <1>8, <1>9 DEF IInv

-----------------------------------------------------------------------------
(***************************************************************************)
(* A link that goes back, or away.                                         *)
(***************************************************************************)
LEMMA RollsBackStep ==
  ASSUME IInv, RollsBack
  PROVE  IInv'
<1>. USE DEF RollsBack, Goes, plan, world
<1>1. /\ mem \in Record /\ mem # None /\ Sound(mem) /\ LinksOf(mem) = mem.links
      /\ cur.path \in Path
      /\ mem.publication = [path |-> cur.path, target |-> conf.target]
      /\ cur.inode \in Inode /\ cur.inode <= inodes /\ kind[cur.inode] = conf.target
      /\ conf.target \in Target
  BY MemIsRecord, Typed, Constants DEF IInv, SyncedInv, HandInv, Publishing
<1>2. mem.publication \in Publication /\ mem.publication.path = cur.path
  BY <1>1 DEF Publication
<1>3. KindsStand /\ LinksStand /\ TreeInv' /\ entry' \in [Path -> 0..MaxInode]
  <2>1. /\ UNCHANGED <<kind, ours, aside, inodes>> /\ inodes \in Nat /\ 0 \notin ours
        /\ entry' \in {entry, [entry EXCEPT ![cur.path] = 0]}
    BY Typed DEF IInv, TreeInv
  <2>2. entry \in [Path -> 0..MaxInode] /\ 0 \in 0..MaxInode
    BY Typed, Constants DEF IInv
  <2>3. /\ entry' \in [Path -> 0..MaxInode]
        /\ \A q \in Path : entry'[q] \in {0, entry[q]}
    BY <2>1, <2>2
  <2>. QED BY <2>1, <2>3 DEF KindsStand, LinksStand, IInv, TreeInv
<1>4. Sound(lock)'
  BY <1>3, SoundStands, Typed DEF IInv, RecordsInv
<1>5. ASSUME entry[cur.path] = cur.inode
      PROVE  /\ mem' \in Record /\ mem' # None /\ Sound(mem)' /\ mem'.links = mem.links
             /\ pc' = "undo"
  <2>1. mem' = Withdrawn(mem) /\ pc' = "undo" /\ entry' = [entry EXCEPT ![cur.path] = 0]
    BY <1>5
  <2>2. mem' \in Record /\ mem' # None /\ mem'.links = mem.links
    BY <1>1, <2>1, WithdrawnRecord
  <2>3. \A l \in mem.links : l[2] <= inodes' /\ kind'[l[2]] # "user"
    BY <1>1 DEF Sound, AreLinks
  <2>4. ASSUME NEW q \in Path, entry'[q] \in ours'
        PROVE  <<q, entry'[q]>> \in mem.links
    <3>1. q # cur.path /\ entry'[q] = entry[q] /\ entry[q] \in ours
      BY <2>1, <2>4, Typed DEF IInv, TreeInv
    <3>2. [path |-> q, target |-> kind[entry[q]]].path = q
      OBVIOUS
    <3>. QED BY <1>1, <1>2, <3>1, <3>2 DEF Sound, Knows
  <2>. QED BY <2>1, <2>2, <2>3, <2>4 DEF Sound, AreLinks, LinksOf, Knows
<1>6. ASSUME entry[cur.path] # cur.inode
      PROVE  /\ mem' \in Record /\ mem' # None /\ Sound(mem)'
             /\ mem'.publication = mem.publication
             /\ pc' = "rolled" /\ hold \notin ours
  <2>. DEFINE r == Linked(mem, cur.path, cur.inode)
  <2>1. r \in Record /\ r.publication = None
    BY <1>1, LinkedRecord
  <2>2. Sound(r)
    <3>1. kind[cur.inode] # "user" /\ (entry[cur.path] \in ours => entry[cur.path] = cur.inode)
      BY <1>1, Constants DEF IInv, HandInv
    <3>. QED BY <1>1, <1>2, <3>1, SoundLinked
  <2>3. mem' = [r EXCEPT !.publication = mem.publication] /\ pc' = "rolled"
    BY <1>6
  <2>4. Sound([r EXCEPT !.publication = mem.publication])
    BY <1>2, <2>1, <2>2, SoundIntended
  <2>. HIDE DEF r
  <2>5. mem' \in Record /\ mem' # None /\ mem'.publication = mem.publication
    BY <1>2, <2>1, <2>3, IntendedRecord
  <2>6. Sound(mem)'
    BY <1>3, <2>3, <2>4, <2>5, SoundStands DEF IInv
  <2>. QED BY <2>3, <2>5, <2>6 DEF IInv, HoldInv
<1>7. /\ UNCHANGED <<lock, plan, cur, hold, failed, ours, kind, aside, inodes, want, conf, had>>
      /\ pc = "rollback" /\ \A q \in Path : q # cur.path => entry'[q] = entry[q]
      /\ entry' = entry \/ entry'[cur.path] = 0
  BY <1>1, Typed DEF IInv
<1>8. TypeOK'
  BY <1>3, <1>5, <1>6 DEF IInv, TypeOK
<1>9. TreeInv'
  BY <1>3 DEF IInv, TreeInv
<1>10. RecordsInv'
  BY <1>3, <1>4, <1>5, <1>6, PlanStands DEF RecordsInv
<1>11. SyncedInv'
  BY <1>1, <1>5, <1>6 DEF SyncedInv, Planned, Undoing
<1>12. HandInv'
  BY <1>1 DEF HandInv
<1>13. HoldInv'
  BY <1>5 DEF IInv, HoldInv, TreeInv, Undoing, LinksOf
<1>14. PlanInv'
  BY DEF IInv, PlanInv, Planned, Publishing
<1>15. FanoutInv'
  BY Typed DEF IInv, FanoutInv, HoldInv, Publishing, Undoing
<1>16. RestInv'
  BY DEF RestInv
<1>. QED
  BY <1>8, <1>9, <1>10, <1>11, <1>12, <1>13, <1>14, <1>15, <1>16 DEF IInv

LEMMA RollbackDiesStep ==
  ASSUME IInv, RollbackDies
  PROVE  IInv'
<1>. DEFINE r == Linked(mem, cur.path, cur.inode)
<1>1. /\ pc = "rollback" /\ pc' = "rolled" /\ entry[cur.path] = cur.inode
      /\ ours' = ours \ {hold}
      /\ mem' = [r EXCEPT !.publication = mem.publication]
      /\ UNCHANGED <<kind, inodes, lock, owned, left, result, obsolete>>
      /\ UNCHANGED <<want, conf, had, cur, hold, failed>>
  BY DEF RollbackDies, Disowned, Goes, plan, world
<1>2. /\ entry' \in {entry, [entry EXCEPT ![cur.path] = 0]}
      /\ aside' = aside \/ (entry'[cur.path] = 0 /\ aside' = aside \cup {cur.inode})
  BY <1>1, Typed DEF RollbackDies, IInv, HandInv, Publishing
<1>3. /\ mem \in Record /\ mem # None /\ Sound(mem) /\ cur.path \in Path
      /\ mem.publication = [path |-> cur.path, target |-> conf.target]
      /\ cur.inode \in Inode /\ cur.inode \in 1..inodes /\ cur.inode <= inodes
      /\ kind[cur.inode] # "user"
  BY <1>1, MemIsRecord, Typed, Constants DEF IInv, SyncedInv, HandInv, Publishing
<1>4. mem.publication \in Publication /\ mem.publication.path = cur.path
  BY <1>3, Typed DEF Publication, IInv
<1>5. /\ mem' \in Record /\ mem' # None /\ mem'.publication = mem.publication
      /\ Sound([r EXCEPT !.publication = mem.publication])
  <2>1. r \in Record /\ r.publication = None /\ Sound(r)
    BY <1>1, <1>3, <1>4, LinkedRecord, SoundLinked
  <2>. HIDE DEF r
  <2>. QED BY <1>1, <1>4, <2>1, IntendedRecord, SoundIntended
<1>. HIDE DEF r
<1>6. /\ entry' \in [Path -> 0..MaxInode] /\ 0 \notin ours
      /\ \A q \in Path : q # cur.path => entry'[q] = entry[q]
      /\ entry'[cur.path] \in {0, cur.inode}
  <2>1. entry \in [Path -> 0..MaxInode] /\ 0 \in 0..MaxInode /\ 0 \notin ours
    BY Typed, Constants DEF IInv, TreeInv
  <2>. QED BY <1>1, <1>2, <1>3, <2>1
<1>7. KindsStand /\ LinksStand
  BY <1>1, <1>3, <1>6, Typed DEF KindsStand, LinksStand, IInv
<1>8. TreeInv'
  <2>1. /\ \A q \in Path : entry[q] = cur.inode => q = cur.path
        /\ cur.inode # 0
    BY <1>1, <1>3 DEF IInv, TreeInv
  <2>. QED BY <1>1, <1>2, <1>3, <1>6, <2>1, Typed DEF IInv, TreeInv
<1>9. Sound(lock)' /\ Sound(mem)'
  BY <1>1, <1>5, <1>7, SoundStands, Typed DEF IInv, RecordsInv
<1>10. TypeOK'
  <2>1. ours' \cup aside' \subseteq Inode
    BY <1>1, <1>2, <1>3, Typed DEF IInv
  <2>. QED BY <1>1, <1>5, <1>6, <2>1 DEF IInv, TypeOK
<1>11. RecordsInv'
  BY <1>1, <1>7, <1>9, PlanStands DEF RecordsInv
<1>12. SyncedInv'
  BY <1>1, <1>3, <1>5 DEF SyncedInv, Planned, Undoing
<1>13. HandInv'
  BY <1>1, <1>3 DEF HandInv
<1>14. HoldInv'
  BY <1>1, <1>2 DEF IInv, HoldInv, Publishing, Undoing
<1>15. PlanInv'
  BY <1>1 DEF IInv, PlanInv, Planned, Publishing
<1>16. FanoutInv'
  <2>1. want /\ cur.path \in had \cap conf.dirs => hold # 0 /\ kind[hold] # "user"
    BY <1>1 DEF IInv, FanoutInv, HoldInv, Publishing
  <2>2. ASSUME NEW q \in had \cap conf.dirs, want, q # cur.path
        PROVE  entry'[q] # 0 /\ kind[entry'[q]] # "user"
    BY <1>1, <1>6, <2>2, Typed DEF IInv, FanoutInv, Undoing
  <2>3. entry'[cur.path] = 0 \/ (entry'[cur.path] # 0 /\ kind[entry'[cur.path]] # "user")
    BY <1>3, <1>6
  <2>. QED BY <1>1, <2>1, <2>2, <2>3 DEF FanoutInv, Undoing
<1>17. RestInv'
  BY <1>1 DEF RestInv
<1>. QED
  BY <1>8, <1>10, <1>11, <1>12, <1>13, <1>14, <1>15, <1>16, <1>17 DEF IInv

LEMMA UndoesStep ==
  ASSUME IInv, Undoes
  PROVE  IInv'
<1>1. /\ pc \in {"undo", "rolled"} /\ pc' = "save" /\ failed' = TRUE
      /\ UNCHANGED <<kind, ours, inodes, lock, mem, owned, left>>
      /\ UNCHANGED <<result, obsolete, cur, hold, want, conf, had>>
  BY DEF Undoes, Fails, plan, world
<1>2. \/ entry' = entry /\ aside' \subseteq aside
      \/ /\ entry' = [entry EXCEPT ![cur.path] = hold] /\ aside' = aside \ {hold}
         /\ entry[cur.path] = 0 /\ hold # 0
  BY DEF Undoes, Present
<1>3. pc = "rolled" => mem.publication.path = cur.path
  BY DEF IInv, SyncedInv
<1>4. entry[cur.path] = 0 /\ hold # 0 => entry' = [entry EXCEPT ![cur.path] = hold]
  BY <1>3 DEF Undoes, Present
<1>5. /\ cur.path \in Path /\ (hold # 0 => hold \in aside /\ hold \in 1..inodes)
      /\ hold \in ours => <<cur.path, hold>> \in LinksOf(mem) \cap LinksOf(lock)
      /\ mem # None /\ mem \in Record
  BY <1>1, MemIsRecord DEF IInv, HoldInv, HandInv, SyncedInv, Undoing, TreeInv
<1>6. TreeInv' /\ entry' \in [Path -> 0..MaxInode] /\ aside' \subseteq Inode
  BY <1>1, <1>2, <1>5, Typed DEF IInv, TreeInv
<1>7. KindsStand
  BY <1>1, Typed DEF KindsStand, IInv
<1>8. Sound(lock)' /\ Sound(mem)'
  <2>1. AreLinks(LinksOf(lock))' /\ AreLinks(LinksOf(mem))'
    BY <1>1 DEF IInv, RecordsInv, Sound, AreLinks
  <2>2. ASSUME NEW q \in Path, entry'[q] \in ours'
        PROVE  Knows(lock, q)' /\ Knows(mem, q)'
    <3>1. CASE entry'[q] = entry[q]
      BY <1>1, <2>2, <3>1 DEF IInv, RecordsInv, Sound, Knows
    <3>2. CASE entry'[q] # entry[q]
      <4>1. q = cur.path /\ entry'[q] = hold /\ hold \in ours
        BY <1>1, <1>2, <1>5, <2>2, <3>2, Typed DEF IInv
      <4>. QED BY <1>1, <1>5, <4>1 DEF Knows, LinksOf
    <3>. QED BY <3>1, <3>2
  <2>. QED BY <2>1, <2>2 DEF Sound
<1>9. want => \A q \in had \cap conf.dirs : entry'[q] # 0 /\ kind[entry'[q]] # "user"
  <2>1. ASSUME NEW q \in had \cap conf.dirs
        PROVE  want => entry'[q] # 0 /\ kind[entry'[q]] # "user"
    <3>1. want => \/ entry[q] # 0 /\ kind[entry[q]] # "user"
                  \/ q = cur.path /\ entry[q] = 0 /\ hold # 0 /\ kind[hold] # "user"
      BY <1>1 DEF IInv, FanoutInv
    <3>. QED BY <1>2, <1>4, <1>5, <3>1, Typed DEF IInv
  <2>. QED BY <2>1
<1>10. TypeOK'
  BY <1>1, <1>6 DEF IInv, TypeOK
<1>11. TreeInv'
  BY <1>6 DEF IInv, TreeInv
<1>12. RecordsInv'
  BY <1>1, <1>7, <1>8, PlanStands DEF RecordsInv
<1>13. SyncedInv'
  BY <1>1 DEF SyncedInv, Planned, Undoing
<1>14. HandInv'
  BY <1>1 DEF IInv, HandInv, Undoing
<1>15. HoldInv'
  BY <1>1 DEF HoldInv, Publishing, Undoing
<1>16. PlanInv'
  BY <1>1 DEF IInv, PlanInv, Planned, Publishing
<1>17. FanoutInv'
  BY <1>1, <1>9 DEF IInv, FanoutInv, Undoing
<1>18. RestInv'
  BY <1>1 DEF IInv, RestInv
<1>. QED
  BY <1>10, <1>11, <1>12, <1>13, <1>14, <1>15, <1>16, <1>17, <1>18 DEF IInv

LEMMA RetainsStep ==
  ASSUME IInv, Retains
  PROVE  IInv'
<1>. USE DEF Retains, Present, plan, world
<1>1. /\ mem \in Record /\ Sound(mem) /\ mem.publication = None /\ cur.path \in Path
      /\ lock = mem \/ (lock = None /\ mem = NoLinks)
      /\ entry[cur.path] \in 0..MaxInode
  BY MemIsRecord, Typed DEF IInv, HandInv, SyncedInv, Planned, Undoing
<1>2. KindsStand /\ LinksStand /\ TreeInv'
  BY <1>1, Typed DEF KindsStand, LinksStand, IInv, TreeInv
<1>3. Sound(lock)' /\ Sound(mem)'
  BY <1>2, SoundStands, Typed DEF IInv, RecordsInv
<1>4. entry[cur.path] \in ours =>
        <<cur.path, entry[cur.path]>> \in LinksOf(mem) \cap LinksOf(lock)
  <2>1. entry[cur.path] \in ours => <<cur.path, entry[cur.path]>> \in mem.links
    BY <1>1 DEF Sound, Knows
  <2>. QED BY <1>1, <2>1, Constants DEF LinksOf, NoLinks
<1>5. TypeOK'
  BY <1>1, Constants DEF IInv, TypeOK
<1>6. TreeInv'
  BY <1>2 DEF IInv, TreeInv
<1>7. RecordsInv'
  BY <1>2, <1>3, PlanStands DEF RecordsInv
<1>8. SyncedInv'
  BY DEF IInv, SyncedInv, Planned, Undoing
<1>9. HandInv'
  BY Typed DEF IInv, HandInv, TreeInv
<1>10. HoldInv'
  BY <1>4 DEF HoldInv, Publishing, Undoing
<1>11. PlanInv'
  BY Typed DEF IInv, PlanInv, HandInv, TreeInv, Planned, Publishing
<1>12. FanoutInv'
  BY DEF IInv, FanoutInv, Undoing
<1>13. RestInv'
  BY DEF IInv, RestInv
<1>. QED
  BY <1>5, <1>6, <1>7, <1>8, <1>9, <1>10, <1>11, <1>12, <1>13 DEF IInv

LEMMA InspectsStep ==
  ASSUME IInv, Inspects
  PROVE  IInv'
<1>1. /\ pc = "inspect" /\ UNCHANGED <<kind, ours, inodes, lock, mem, owned, left>>
      /\ UNCHANGED <<result, obsolete, cur, hold, want, conf, had>>
      /\ failed' \in {failed, TRUE}
  BY DEF Inspects, Present, Goes, Fails, plan, world
<1>2. /\ hold = cur.inode => /\ UNCHANGED <<entry, aside>>
                             /\ pc' = IF cur.why = "retarget" THEN "intend" ELSE "discard"
      /\ hold # cur.inode =>
           /\ pc' = "save"
           /\ entry[cur.path] = 0 => /\ entry' = [entry EXCEPT ![cur.path] = hold]
                                     /\ aside' = aside \ {hold}
           /\ entry[cur.path] # 0 => UNCHANGED <<entry, aside>>
  BY DEF Inspects, Present, Goes, Fails
<1>3. /\ cur.path \in Path /\ hold \in aside /\ hold \in 1..inodes
      /\ cur.inode \in 1..inodes /\ kind[cur.inode] # "user"
      /\ hold \in ours => <<cur.path, hold>> \in LinksOf(mem) \cap LinksOf(lock)
      /\ mem # None /\ mem \in Record /\ 0 \notin ours
      /\ cur.why \in {"retarget", "remove"}
  BY <1>1, MemIsRecord, Constants DEF IInv, HoldInv, HandInv, TreeInv
<1>4. \/ entry' = entry /\ aside' = aside
      \/ /\ entry' = [entry EXCEPT ![cur.path] = hold] /\ aside' = aside \ {hold}
         /\ entry[cur.path] = 0
  BY <1>2
<1>5. TreeInv' /\ entry' \in [Path -> 0..MaxInode] /\ aside' \subseteq Inode
  BY <1>1, <1>3, <1>4, Typed DEF IInv, TreeInv
<1>6. KindsStand
  BY <1>1, Typed DEF KindsStand, IInv
<1>7. Sound(lock)' /\ Sound(mem)'
  <2>1. AreLinks(LinksOf(lock))' /\ AreLinks(LinksOf(mem))'
    BY <1>1 DEF IInv, RecordsInv, Sound, AreLinks
  <2>2. ASSUME NEW q \in Path, entry'[q] \in ours'
        PROVE  Knows(lock, q)' /\ Knows(mem, q)'
    <3>1. CASE entry'[q] = entry[q]
      BY <1>1, <2>2, <3>1 DEF IInv, RecordsInv, Sound, Knows
    <3>2. CASE entry'[q] # entry[q]
      <4>1. q = cur.path /\ entry'[q] = hold /\ hold \in ours
        BY <1>1, <1>3, <1>4, <2>2, <3>2, Typed DEF IInv
      <4>. QED BY <1>1, <1>3, <4>1 DEF Knows, LinksOf
    <3>. QED BY <3>1, <3>2
  <2>. QED BY <2>1, <2>2 DEF Sound
<1>8. hold # cur.inode =>
        /\ pc' = "save"
        /\ want => \A q \in had \cap conf.dirs : entry'[q] # 0 /\ kind[entry'[q]] # "user"
  <2>1. ASSUME NEW q \in had \cap conf.dirs, hold # cur.inode
        PROVE  want => entry'[q] # 0 /\ kind[entry'[q]] # "user"
    <3>1. want => \/ entry[q] # 0 /\ kind[entry[q]] # "user"
                  \/ q = cur.path /\ entry[q] = 0 /\ hold # 0 /\ kind[hold] # "user"
      BY <1>1 DEF IInv, FanoutInv
    <3>. QED BY <1>2, <1>3, <2>1, <3>1, Typed DEF IInv
  <2>. QED BY <1>2, <2>1
<1>9. TypeOK'
  BY <1>1, <1>2, <1>5, Typed DEF IInv, TypeOK
<1>10. TreeInv'
  BY <1>5 DEF IInv, TreeInv
<1>11. RecordsInv'
  BY <1>1, <1>6, <1>7, PlanStands DEF RecordsInv
<1>12. SyncedInv'
  BY <1>1, <1>2 DEF IInv, SyncedInv, Planned, Undoing
<1>13. HandInv'
  BY <1>1, <1>2 DEF IInv, HandInv
<1>14. HoldInv'
  BY <1>1, <1>2, <1>3 DEF HoldInv, Publishing, Undoing
<1>15. PlanInv'
  BY <1>1, <1>2 DEF IInv, PlanInv, Planned, Publishing
<1>16. FanoutInv'
  BY <1>1, <1>2, <1>3, <1>8 DEF IInv, FanoutInv, HoldInv, PlanInv
<1>17. RestInv'
  BY <1>2 DEF RestInv
<1>. QED
  BY <1>9, <1>10, <1>11, <1>12, <1>13, <1>14, <1>15, <1>16, <1>17 DEF IInv

LEMMA DiscardsStep ==
  ASSUME IInv, Discards
  PROVE  IInv'
<1>. USE DEF Discards, plan, world
<1>1. TreeInv' /\ KindsStand /\ LinksStand
  BY Typed DEF TreeInv, KindsStand, LinksStand, IInv
<1>2. Sound(lock)' /\ Sound(mem)'
  BY <1>1, SoundStands, Typed DEF IInv, RecordsInv
<1>3. TypeOK'
  BY Constants DEF IInv, TypeOK
<1>4. TreeInv'
  BY <1>1 DEF IInv, TreeInv
<1>5. RecordsInv'
  BY <1>1, <1>2, PlanStands DEF RecordsInv
<1>6. SyncedInv'
  BY DEF IInv, SyncedInv, Planned, Undoing
<1>7. HandInv'
  BY DEF HandInv, Publishing, Undoing
<1>8. HoldInv'
  BY DEF IInv, HoldInv, TreeInv
<1>9. PlanInv'
  BY DEF IInv, PlanInv, HandInv, Planned, Publishing
<1>10. FanoutInv'
  BY DEF IInv, FanoutInv, Publishing, Undoing
<1>11. RestInv'
  BY DEF IInv, RestInv
<1>. QED
  BY <1>3, <1>4, <1>5, <1>6, <1>7, <1>8, <1>9, <1>10, <1>11 DEF IInv

-----------------------------------------------------------------------------
(***************************************************************************)
(* The end of a sync.                                                      *)
(***************************************************************************)
LEMMA PathsDoneStep ==
  ASSUME IInv, PathsDone
  PROVE  IInv'
<1>. USE DEF PathsDone, Goes, tree, plan, world
<1>1. TypeOK'
  BY DEF IInv, TypeOK
<1>2. TreeInv'
  BY Unmoved DEF IInv, TreeInv
<1>3. RecordsInv'
  BY Unmoved DEF IInv, RecordsInv
<1>4. SyncedInv'
  BY DEF IInv, SyncedInv, Planned, Undoing
<1>5. HandInv'
  BY DEF HandInv, Publishing, Undoing
<1>6. HoldInv'
  BY DEF IInv, HoldInv, Publishing, Undoing
<1>7. PlanInv'
  BY DEF IInv, PlanInv, Planned
<1>8. FanoutInv'
  BY DEF IInv, FanoutInv, Publishing, Undoing
<1>9. RestInv'
  BY DEF IInv, RestInv
<1>. QED
  BY <1>1, <1>2, <1>3, <1>4, <1>5, <1>6, <1>7, <1>8, <1>9 DEF IInv

LEMMA TakesLinkStep ==
  ASSUME IInv, NEW l \in obsolete, TakesLink(l)
  PROVE  IInv'
<1>1. /\ pc = "unlink" /\ pc' = "retain" /\ obsolete' = obsolete \ {l}
      /\ UNCHANGED tree /\ UNCHANGED <<entry, kind, ours, aside, inodes>>
      /\ UNCHANGED <<lock, mem, owned, left, result, hold, failed, want, conf, had>>
  BY DEF TakesLink, tree, world
<1>2. /\ l[1] \in Path /\ l[2] \in 1..inodes /\ kind[l[2]] # "user" /\ l = <<l[1], l[2]>>
  BY Typed, Constants DEF IInv, RecordsInv, AreLinks
<1>3. /\ cur'.path = l[1] /\ cur'.inode = l[2] /\ cur'.why = "remove"
      /\ cur' \in [path : Path \cup {None}, inode : 0..MaxInode,
                   why : {"none", "finish", "publish", "retarget", "remove"}]
  BY Typed, Constants DEF IInv, TakesLink
<1>4. TypeOK'
  BY <1>1, <1>3 DEF IInv, TypeOK
<1>5. TreeInv'
  BY <1>1, Unmoved
<1>6. RecordsInv'
  <2>1. AreLinks(obsolete)'
    BY <1>1 DEF AreLinks, IInv, RecordsInv
  <2>. QED BY <1>1, <2>1, Unmoved DEF RecordsInv
<1>7. SyncedInv'
  BY <1>1 DEF IInv, SyncedInv, Planned, Undoing
<1>8. HandInv'
  BY <1>1, <1>2, <1>3 DEF HandInv
<1>9. HoldInv'
  BY <1>1 DEF IInv, HoldInv, Publishing, Undoing
<1>10. PlanInv'
  BY <1>1, <1>3 DEF IInv, PlanInv, Planned, Publishing
<1>11. FanoutInv'
  BY <1>1, <1>3 DEF IInv, FanoutInv, PlanInv, Undoing
<1>12. RestInv'
  BY <1>1 DEF RestInv
<1>. QED
  BY <1>4, <1>5, <1>6, <1>7, <1>8, <1>9, <1>10, <1>11, <1>12 DEF IInv

LEMMA LinksDoneStep ==
  ASSUME IInv, LinksDone
  PROVE  IInv'
<1>. USE DEF LinksDone, Goes, tree, plan, world
<1>. DEFINE r == [mem EXCEPT !.links = result]
<1>1. /\ mem \in Record /\ AreLinks(result) /\ result \subseteq Path \X Inode
      /\ \A p \in Path : entry[p] \in ours => <<p, entry[p]>> \in result
      /\ ~want => result = {}
  BY MemIsRecord, Typed DEF IInv, RecordsInv, PlanInv, Planned
<1>2. r \in Record /\ r # None /\ r.links = result
  BY <1>1, Constants DEF Record
<1>. HIDE DEF r
<1>3. Sound(r) /\ (~want => Sound(None))
  BY <1>1, <1>2 DEF Sound, LinksOf, AreLinks, Knows
<1>4. mem' = (IF want THEN r ELSE None) /\ lock' \in {lock} \cup (IF want THEN {r} ELSE {})
  BY DEF r
<1>5. Sound(lock)' /\ Sound(mem)'
  BY <1>2, <1>3, <1>4, Unmoved
<1>6. TypeOK'
  BY <1>2, <1>4 DEF IInv, TypeOK
<1>7. TreeInv'
  BY Unmoved DEF IInv, TreeInv
<1>8. RecordsInv'
  BY <1>5, Unmoved DEF RecordsInv
<1>9. SyncedInv'
  BY DEF SyncedInv, Planned, Undoing
<1>10. HandInv'
  BY DEF HandInv, Publishing, Undoing
<1>11. HoldInv'
  BY DEF HoldInv, Publishing, Undoing
<1>12. PlanInv'
  BY DEF IInv, PlanInv, Planned, Publishing
<1>13. FanoutInv'
  BY DEF IInv, FanoutInv, Publishing, Undoing
<1>14. RestInv'
  BY DEF IInv, RestInv
<1>. QED
  BY <1>6, <1>7, <1>8, <1>9, <1>10, <1>11, <1>12, <1>13, <1>14 DEF IInv

LEMMA ChecksRemovableStep ==
  ASSUME IInv, ChecksRemovable
  PROVE  IInv'
<1>. USE DEF ChecksRemovable, Goes, Fails, tree, plan, world
<1>1. TypeOK'
  <2>1. /\ entry' \in [Path -> 0..MaxInode] /\ kind' \in [Inode -> Target \cup {"user"}]
        /\ (ours \cup aside)' \subseteq Inode /\ inodes' \in 0..MaxInode
    BY Typed DEF IInv
  <2>2. /\ {lock, mem}' \subseteq Record \cup {None}
        /\ owned' \in [Path -> 0..MaxInode]
        /\ (left \cup had)' \subseteq Path /\ (result \cup obsolete)' \subseteq Path \X Inode
    BY Typed, Constants DEF IInv
  <2>3. cur' \in [path : Path \cup {None}, inode : 0..MaxInode,
                  why : {"none", "finish", "publish", "retarget", "remove"}]
    BY Constants DEF IInv, TypeOK
  <2>4. conf' \in [dirs : SUBSET Path, target : Target] /\ hold' \in 0..MaxInode
    BY Constants DEF IInv, TypeOK
  <2>5. {want, failed}' \subseteq BOOLEAN
    BY DEF IInv, TypeOK
  <2>. QED BY <2>1, <2>2, <2>3, <2>4, <2>5 DEF TypeOK
<1>2. TreeInv'
  BY Unmoved DEF IInv, TreeInv
<1>3. RecordsInv'
  BY Unmoved DEF IInv, RecordsInv
<1>4. SyncedInv'
  BY DEF IInv, SyncedInv, Planned, Undoing
<1>5. HandInv'
  BY DEF HandInv, Publishing, Undoing
<1>6. HoldInv'
  BY DEF IInv, HoldInv, Publishing, Undoing
<1>7. PlanInv'
  BY DEF IInv, PlanInv, Planned, Publishing
<1>8. FanoutInv'
  BY DEF IInv, FanoutInv, Publishing, Undoing
<1>9. RestInv'
  BY DEF IInv, RestInv
<1>. QED
  BY <1>1, <1>2, <1>3, <1>4, <1>5, <1>6, <1>7, <1>8, <1>9 DEF IInv

LEMMA SavesStep ==
  ASSUME IInv, Saves
  PROVE  IInv'
<1>. USE DEF Saves, Rest, NoLink, tree
<1>1. Sound(lock)' /\ mem \in Record \cup {None}
  BY Unmoved, Typed DEF IInv, RecordsInv
<1>2. AreLinks(result)' /\ AreLinks(obsolete)' /\ \A p \in Path : owned'[p] = 0
  BY DEF AreLinks
<1>3. TypeOK'
  <2>1. /\ entry' \in [Path -> 0..MaxInode] /\ kind' \in [Inode -> Target \cup {"user"}]
        /\ (ours \cup aside)' \subseteq Inode /\ inodes' \in 0..MaxInode
    BY Typed DEF IInv
  <2>2. /\ {lock, mem}' \subseteq Record \cup {None}
        /\ owned' \in [Path -> 0..MaxInode]
        /\ (left \cup had)' \subseteq Path /\ (result \cup obsolete)' \subseteq Path \X Inode
    BY <1>1, Typed, Constants DEF IInv
  <2>3. cur' \in [path : Path \cup {None}, inode : 0..MaxInode,
                  why : {"none", "finish", "publish", "retarget", "remove"}]
    BY Constants DEF IInv, TypeOK
  <2>4. conf' \in [dirs : SUBSET Path, target : Target] /\ hold' \in 0..MaxInode
    BY Constants DEF IInv, TypeOK
  <2>5. {want, failed}' \subseteq BOOLEAN
    BY DEF IInv, TypeOK
  <2>. QED BY <2>1, <2>2, <2>3, <2>4, <2>5 DEF TypeOK
<1>4. TreeInv'
  BY Unmoved DEF IInv, TreeInv
<1>5. RecordsInv'
  BY <1>1, <1>2 DEF RecordsInv
<1>6. SyncedInv'
  BY DEF SyncedInv, Planned, Undoing
<1>7. HandInv'
  BY DEF HandInv, Publishing, Undoing
<1>8. HoldInv'
  BY DEF IInv, HoldInv, TreeInv
<1>9. PlanInv'
  BY DEF PlanInv, Planned, Publishing
<1>10. FanoutInv'
  BY DEF FanoutInv
<1>11. RestInv'
  BY DEF IInv, RestInv
<1>. QED
  BY <1>3, <1>4, <1>5, <1>6, <1>7, <1>8, <1>9, <1>10, <1>11 DEF IInv

LEMMA DiesStep ==
  ASSUME IInv, Dies
  PROVE  IInv'
<1>. USE DEF Dies, Spend, Rest, NoLink, tree
<1>1. Sound(lock)'
  BY Unmoved DEF IInv
<1>2. AreLinks(result)' /\ AreLinks(obsolete)' /\ \A p \in Path : owned'[p] = 0
  BY DEF AreLinks
<1>3. TypeOK'
  <2>1. /\ entry' \in [Path -> 0..MaxInode] /\ kind' \in [Inode -> Target \cup {"user"}]
        /\ (ours \cup aside)' \subseteq Inode /\ inodes' \in 0..MaxInode
    BY Typed DEF IInv
  <2>2. /\ {lock, mem}' \subseteq Record \cup {None}
        /\ owned' \in [Path -> 0..MaxInode]
        /\ (left \cup had)' \subseteq Path /\ (result \cup obsolete)' \subseteq Path \X Inode
    BY Typed, Constants DEF IInv
  <2>3. cur' \in [path : Path \cup {None}, inode : 0..MaxInode,
                  why : {"none", "finish", "publish", "retarget", "remove"}]
    BY Constants DEF IInv, TypeOK
  <2>4. conf' \in [dirs : SUBSET Path, target : Target] /\ hold' \in 0..MaxInode
    BY Constants DEF IInv, TypeOK
  <2>5. {want, failed}' \subseteq BOOLEAN
    BY DEF IInv, TypeOK
  <2>. QED BY <2>1, <2>2, <2>3, <2>4, <2>5 DEF TypeOK
<1>4. TreeInv'
  BY Unmoved DEF IInv, TreeInv
<1>5. RecordsInv'
  BY <1>1, <1>2 DEF RecordsInv
<1>6. SyncedInv'
  BY DEF SyncedInv, Planned, Undoing
<1>7. HandInv'
  BY DEF HandInv, Publishing, Undoing
<1>8. HoldInv'
  BY DEF IInv, HoldInv, TreeInv
<1>9. PlanInv'
  BY DEF PlanInv, Planned, Publishing
<1>10. FanoutInv'
  BY DEF FanoutInv
<1>11. RestInv'
  BY DEF IInv, RestInv
<1>. QED
  BY <1>3, <1>4, <1>5, <1>6, <1>7, <1>8, <1>9, <1>10, <1>11 DEF IInv

LEMMA ChangesStep ==
  ASSUME IInv, Changes
  PROVE  IInv'
<1>. USE DEF Changes, Spend, tree, plan
<1>1. TypeOK'
  <2>1. /\ entry' \in [Path -> 0..MaxInode] /\ kind' \in [Inode -> Target \cup {"user"}]
        /\ (ours \cup aside)' \subseteq Inode /\ inodes' \in 0..MaxInode
    BY Typed DEF IInv
  <2>2. /\ {lock, mem}' \subseteq Record \cup {None}
        /\ owned' \in [Path -> 0..MaxInode]
        /\ (left \cup had)' \subseteq Path /\ (result \cup obsolete)' \subseteq Path \X Inode
    BY Typed, Constants DEF IInv
  <2>3. cur' \in [path : Path \cup {None}, inode : 0..MaxInode,
                  why : {"none", "finish", "publish", "retarget", "remove"}]
    BY Constants DEF IInv, TypeOK
  <2>4. conf' \in [dirs : SUBSET Path, target : Target] /\ hold' \in 0..MaxInode
    BY Constants DEF IInv, TypeOK
  <2>5. {want, failed}' \subseteq BOOLEAN
    BY DEF IInv, TypeOK
  <2>. QED BY <2>1, <2>2, <2>3, <2>4, <2>5 DEF TypeOK
<1>2. TreeInv'
  BY Unmoved DEF IInv, TreeInv
<1>3. RecordsInv'
  BY Unmoved DEF IInv, RecordsInv
<1>4. SyncedInv'
  BY DEF IInv, SyncedInv
<1>5. HandInv'
  BY DEF IInv, HandInv
<1>6. HoldInv'
  BY DEF IInv, HoldInv
<1>7. PlanInv'
  BY DEF IInv, PlanInv, RestInv, Publishing
<1>8. FanoutInv'
  BY DEF IInv, FanoutInv, RestInv
<1>9. RestInv'
  BY DEF IInv, RestInv
<1>. QED
  BY <1>1, <1>2, <1>3, <1>4, <1>5, <1>6, <1>7, <1>8, <1>9 DEF IInv

-----------------------------------------------------------------------------
(***************************************************************************)
(* Users.                                                                  *)
(***************************************************************************)
\* What an act of a user changes: no entry of the sync's moves or appears, and
\* what is no longer had is at a path the user touched.
UserTouches ==
  /\ LinksStand /\ TreeInv'
  /\ entry' \in [Path -> 0..MaxInode] /\ kind' \in [Inode -> Target \cup {"user"}]
  /\ inodes' \in 0..MaxInode /\ ours' \subseteq ours /\ aside' = aside
  /\ \A p \in had' : p \in had /\ entry'[p] = entry[p]
  /\ pc = "rollback" => entry'[cur.path] = entry[cur.path] \/ hold \notin ours'
  /\ UNCHANGED <<lock, mem, want, conf, pc, cur, hold, failed>>
  /\ UNCHANGED <<owned, left, result, obsolete>>

\* A path gets nothing, or a new entry of the user's.
Put(k) ==
  \/ k = 0 /\ UNCHANGED <<kind, inodes>>
  \/ /\ k = inodes + 1 /\ inodes' = k /\ k \in Inode
     /\ \E content \in {"user"} \cup Target : kind' = [kind EXCEPT ![k] = content]

LEMMA TouchesPath ==
  ASSUME IInv, NEW p \in Path, NEW k,
         entry' = [entry EXCEPT ![p] = k],
         Put(k),
         ours' = ours \ Disowned(p), had' = had \ {p}, aside' = aside,
         UNCHANGED <<lock, mem, want, conf, pc, cur, hold, failed>>,
         UNCHANGED <<owned, left, result, obsolete>>
  PROVE  UserTouches
<1>1. /\ inodes \in Nat /\ inodes <= inodes' /\ inodes' \in 0..MaxInode /\ inodes' \in Nat
      /\ k \in 0..MaxInode /\ (k = 0 \/ k > inodes) /\ k <= inodes' /\ MaxInode \in Nat
  BY Typed, Constants DEF IInv, Put
<1>2. /\ entry' \in [Path -> 0..MaxInode] /\ entry'[p] = k
      /\ \A q \in Path : q # p => entry'[q] = entry[q]
  BY <1>1, Typed DEF IInv
<1>3. /\ kind' \in [Inode -> Target \cup {"user"}]
      /\ \A j \in 1..inodes : kind'[j] = kind[j]
  <2>1. kind \in [Inode -> Target \cup {"user"}] /\ \A j \in 1..inodes : j \in Inode
    BY Typed, Constants DEF IInv
  <2>2. CASE UNCHANGED kind
    BY <2>1, <2>2
  <2>3. CASE /\ k = inodes + 1
             /\ \E content \in {"user"} \cup Target : kind' = [kind EXCEPT ![k] = content]
    <3>1. \A j \in 1..inodes : j # k
      BY <1>1, <2>3
    <3>2. PICK content \in {"user"} \cup Target : kind' = [kind EXCEPT ![k] = content]
      BY <2>3
    <3>. QED BY <2>1, <3>1, <3>2
  <2>. QED BY <2>2, <2>3 DEF Put
<1>4. ours' \subseteq ours /\ ours \subseteq 1..inodes /\ aside \subseteq 1..inodes /\ k \notin ours
      /\ k \notin aside
  BY <1>1 DEF IInv, TreeInv
<1>5. LinksStand
  BY <1>1, <1>3, <1>4 DEF LinksStand, KindsStand
<1>6. TreeInv'
  <2>1. \A q \in Path : entry'[q] \notin aside' /\ entry'[q] <= inodes'
    BY <1>1, Typed DEF IInv, TreeInv
  <2>2. \A q \in Path : entry[q] <= inodes /\ entry[q] \in Nat
    BY Typed DEF IInv, TreeInv
  <2>3. \A q, r \in Path : entry'[q] # 0 /\ entry'[q] = entry'[r] => q = r
    BY <1>1 DEF IInv, TreeInv
  <2>4. (aside \cup ours)' \subseteq 1..inodes'
    <3>1. \A j \in 1..inodes : j \in 1..inodes'
      BY <1>1
    <3>. QED BY <1>4, <3>1
  <2>. QED BY <2>1, <2>3, <2>4 DEF TreeInv
<1>7. Disowned(p) \subseteq {hold} /\ (Disowned(p) # {} => pc = "rollback" /\ cur.path = p)
  BY DEF Disowned
<1>8. \A q \in had' : q \in had /\ entry'[q] = entry[q]
  BY <1>2, Typed DEF IInv
<1>9. pc = "rollback" => entry'[cur.path] = entry[cur.path] \/ hold \notin ours'
  <2>1. pc = "rollback" /\ cur.path = p => hold \notin ours'
    BY DEF Disowned
  <2>2. pc = "rollback" => cur.path \in Path
    BY DEF IInv, HandInv, Publishing
  <2>. QED BY <1>2, <2>1, <2>2
<1>. QED
  BY <1>1, <1>2, <1>3, <1>4, <1>5, <1>6, <1>8, <1>9 DEF UserTouches

\* An entry is moved.
LEMMA TouchesTwo ==
  ASSUME IInv, NEW p \in Path, NEW q \in Path, entry[p] # 0, entry[q] = 0,
         entry' = [entry EXCEPT ![p] = 0, ![q] = entry[p]],
         ours' = ours \ ({entry[p]} \cup Disowned(p)), had' = had \ {p, q}, aside' = aside,
         UNCHANGED <<kind, inodes>>,
         UNCHANGED <<lock, mem, want, conf, pc, cur, hold, failed>>,
         UNCHANGED <<owned, left, result, obsolete>>
  PROVE  UserTouches
<1>1. /\ inodes \in Nat /\ inodes' \in 0..MaxInode /\ MaxInode \in Nat
      /\ kind' \in [Inode -> Target \cup {"user"}]
      /\ ours' \subseteq ours /\ ours \subseteq 1..inodes /\ aside \subseteq 1..inodes
  BY Typed, Constants DEF IInv, TreeInv
<1>2. /\ entry' \in [Path -> 0..MaxInode] /\ entry'[p] = 0 /\ entry'[q] = entry[p]
      /\ \A r \in Path : r \notin {p, q} => entry'[r] = entry[r]
      /\ entry[p] \notin aside /\ 0 \notin ours
  BY Typed DEF IInv, TreeInv
<1>3. LinksStand
  BY <1>1, <1>2 DEF LinksStand, KindsStand
<1>4. TreeInv'
  BY Typed DEF IInv, TreeInv
<1>5. Disowned(p) \subseteq {hold} /\ (Disowned(p) # {} => pc = "rollback" /\ cur.path = p)
  BY DEF Disowned
<1>6. \A r \in had' : r \in had /\ entry'[r] = entry[r]
  BY <1>2, Typed DEF IInv
<1>7. pc = "rollback" => entry'[cur.path] = entry[cur.path] \/ hold \notin ours'
  <2>1. pc = "rollback" /\ cur.path = p => hold \notin ours'
    BY DEF Disowned
  <2>2. pc = "rollback" /\ cur.path = q => hold \notin ours
    BY DEF IInv, HandInv, HoldInv
  <2>3. pc = "rollback" => cur.path \in Path
    BY DEF IInv, HandInv, Publishing
  <2>. QED BY <1>1, <1>2, <2>1, <2>2, <2>3
<1>. QED
  BY <1>1, <1>2, <1>3, <1>4, <1>6, <1>7 DEF UserTouches

LEMMA UserActsTouch ==
  ASSUME IInv, UserActs
  PROVE  UserTouches
<1>1. /\ aside' = aside
      /\ UNCHANGED <<lock, mem, want, conf, pc, cur, hold, failed>>
      /\ UNCHANGED <<owned, left, result, obsolete>>
  BY DEF UserActs, plan
<1>2. CASE \E p \in Path :
             /\ entry' = [entry EXCEPT ![p] = 0]
             /\ ours' = ours \ Disowned(p)
             /\ had' = had \ {p}
             /\ UNCHANGED <<kind, inodes>>
  <2>1. PICK p \in Path : /\ entry' = [entry EXCEPT ![p] = 0]
                          /\ ours' = ours \ Disowned(p) /\ had' = had \ {p}
    BY <1>2
  <2>2. Put(0)
    BY <1>2 DEF Put
  <2>. QED BY <1>1, <2>1, <2>2, TouchesPath
<1>3. CASE \E p \in Path, content \in {"user"} \cup Target :
             /\ inodes < MaxInode
             /\ inodes' = inodes + 1
             /\ entry' = [entry EXCEPT ![p] = inodes']
             /\ kind' = [kind EXCEPT ![inodes'] = content]
             /\ ours' = ours \ Disowned(p)
             /\ had' = had \ {p}
  <2>1. inodes' = inodes + 1 /\ inodes' \in Inode
    BY <1>3, Typed, Constants DEF IInv
  <2>2. PICK p \in Path : /\ entry' = [entry EXCEPT ![p] = inodes']
                          /\ ours' = ours \ Disowned(p) /\ had' = had \ {p}
    BY <1>3
  <2>3. Put(inodes')
    BY <1>3, <2>1 DEF Put
  <2>. QED BY <1>1, <2>2, <2>3, TouchesPath
<1>4. CASE \E p, q \in Path :
             /\ entry[p] # 0 /\ entry[q] = 0
             /\ entry' = [entry EXCEPT ![p] = 0, ![q] = entry[p]]
             /\ ours' = ours \ ({entry[p]} \cup Disowned(p))
             /\ had' = had \ {p, q}
             /\ UNCHANGED <<kind, inodes>>
  BY <1>1, <1>4, TouchesTwo
<1>. QED
  BY <1>2, <1>3, <1>4 DEF UserActs, Present

LEMMA UserActsStep ==
  ASSUME IInv, UserActs
  PROVE  IInv'
<1>1. UserTouches
  BY UserActsTouch
<1>2. /\ UNCHANGED <<lock, mem, want, conf, pc, cur, hold, failed>>
      /\ UNCHANGED <<owned, left, result, obsolete, aside>>
      /\ LinksStand /\ KindsStand /\ TreeInv' /\ ours' \subseteq ours /\ had' \subseteq had
  BY <1>1 DEF UserTouches, LinksStand
<1>3. /\ \A p \in Path : entry'[p] \in ours' => entry[p] \in ours /\ entry'[p] = entry[p]
      /\ inodes <= inodes' /\ inodes \in Nat /\ inodes' \in Nat
      /\ cur.inode \in 1..inodes => kind'[cur.inode] = kind[cur.inode]
      /\ hold \in aside => kind'[hold] = kind[hold]
  BY <1>2, Typed DEF LinksStand, KindsStand, IInv, TreeInv
<1>4. /\ \A p \in had' : /\ p \in had /\ entry'[p] = entry[p]
                         /\ entry[p] # 0 => kind'[entry'[p]] = kind[entry[p]]
      /\ pc = "rollback" => entry'[cur.path] = entry[cur.path] \/ hold \notin ours'
  BY <1>1, <1>2, Typed DEF UserTouches, KindsStand, IInv, TreeInv
<1>5. TypeOK'
  <2>1. /\ entry' \in [Path -> 0..MaxInode] /\ kind' \in [Inode -> Target \cup {"user"}]
        /\ inodes' \in 0..MaxInode
    BY <1>1 DEF UserTouches
  <2>. QED BY <1>2, <2>1 DEF IInv, TypeOK
<1>6. TreeInv'
  BY <1>2
<1>7. RecordsInv'
  <2>1. Sound(lock)' /\ (pc # "idle" => Sound(mem)')
    BY <1>2, SoundStands, Typed DEF IInv, RecordsInv
  <2>. QED BY <1>2, <2>1, PlanStands DEF RecordsInv
<1>8. SyncedInv'
  BY <1>2, <1>3 DEF IInv, SyncedInv, HandInv
<1>9. HandInv'
  BY <1>2, <1>3 DEF IInv, HandInv, Publishing
<1>10. HoldInv'
  <2>1. hold \in ours' => hold \in ours
    BY <1>2
  <2>2. pc \in Publishing \cup Undoing \cup {"inspect", "discard"} /\ hold # 0 =>
          hold \in aside'
    BY <1>2 DEF IInv, HoldInv
  <2>3. pc \in Publishing \cup Undoing \cup {"discard"} /\ hold # 0 => kind'[hold] # "user"
    BY <1>3 DEF IInv, HoldInv
  <2>4. pc = "rollback" => entry'[cur.path] = cur.inode \/ hold \notin ours'
    BY <1>4, <2>1 DEF IInv, HoldInv
  <2>. QED BY <1>2, <2>3, <2>4 DEF IInv, HoldInv
<1>11. PlanInv'
  BY <1>2, <1>3 DEF IInv, PlanInv
<1>12. FanoutInv'
  <2>1. pc \in {"inspect", "intend", "link"} \cup Undoing /\ hold # 0 => kind'[hold] = kind[hold]
    BY <1>3 DEF IInv, HoldInv, Publishing
  <2>. QED BY <1>2, <1>4, <2>1 DEF IInv, FanoutInv
<1>13. RestInv'
  BY <1>2 DEF IInv, RestInv
<1>. QED
  BY <1>5, <1>6, <1>7, <1>8, <1>9, <1>10, <1>11, <1>12, <1>13 DEF IInv

-----------------------------------------------------------------------------
(***************************************************************************)
(* The invariant holds, and what follows from it.                          *)
(***************************************************************************)
LEMMA InitIInv == Init => IInv
<1>. SUFFICES ASSUME Init PROVE IInv
  OBVIOUS
<1>1. /\ entry = [p \in Path |-> 0] /\ kind = [k \in Inode |-> "user"]
      /\ ours = {} /\ aside = {} /\ inodes = 0 /\ lock = None /\ mem = None
      /\ pc = "idle" /\ want = TRUE /\ failed = FALSE
      /\ owned = [p \in Path |-> 0] /\ left = {} /\ result = {} /\ obsolete = {}
      /\ cur = NoLink /\ hold = 0 /\ had = {}
  BY DEF Init
<1>2. conf \in [dirs : SUBSET Path, target : Target]
  <2>1. (CHOOSE t \in Target : TRUE) \in Target
    BY LinksAssumption
  <2>. QED BY <2>1 DEF Init
<1>3. TypeOK
  <2>1. /\ entry \in [Path -> 0..MaxInode] /\ kind \in [Inode -> Target \cup {"user"}]
        /\ ours \cup aside \subseteq Inode /\ inodes \in 0..MaxInode
        /\ {lock, mem} \subseteq Record \cup {None} /\ owned \in [Path -> 0..MaxInode]
        /\ left \cup had \subseteq Path /\ result \cup obsolete \subseteq Path \X Inode
        /\ hold \in 0..MaxInode
    BY <1>1, Constants
  <2>2. cur \in [path : Path \cup {None}, inode : 0..MaxInode,
                 why : {"none", "finish", "publish", "retarget", "remove"}]
    BY <1>1, Constants DEF NoLink
  <2>3. {want, failed} \subseteq BOOLEAN
    BY <1>1
  <2>. QED BY <1>1, <1>2, <2>1, <2>2, <2>3 DEF TypeOK
<1>4. TreeInv /\ RecordsInv /\ RestInv
  BY <1>1 DEF TreeInv, RecordsInv, RestInv, Sound, AreLinks, LinksOf
<1>5. SyncedInv /\ HandInv /\ HoldInv
  BY <1>1 DEF SyncedInv, HandInv, HoldInv, Publishing, Undoing, Planned
<1>6. PlanInv /\ FanoutInv
  BY <1>1 DEF PlanInv, FanoutInv
<1>. QED
  BY <1>3, <1>4, <1>5, <1>6 DEF IInv

LEMMA StutterStep ==
  ASSUME IInv, UNCHANGED vars
  PROVE  IInv'
<1>1. /\ UNCHANGED <<entry, kind, ours, aside, inodes, lock, want, conf, pc, mem>>
      /\ UNCHANGED <<owned, left, result, obsolete, cur, hold, failed, had>>
  BY DEF vars
<1>2. TypeOK' /\ TreeInv'
  BY <1>1 DEF IInv, TypeOK, TreeInv
<1>3. RecordsInv' /\ RestInv'
  BY <1>1 DEF IInv, RecordsInv, RestInv, Sound, AreLinks, Knows
<1>4. SyncedInv' /\ HandInv'
  BY <1>1 DEF IInv, SyncedInv, HandInv
<1>5. HoldInv' /\ PlanInv' /\ FanoutInv'
  BY <1>1 DEF IInv, HoldInv, PlanInv, FanoutInv
<1>. QED
  BY <1>2, <1>3, <1>4, <1>5 DEF IInv

LEMMA NextKeepsIInv == IInv /\ [Next]_vars => IInv'
<1>. SUFFICES ASSUME IInv, [Next]_vars PROVE IInv'
  OBVIOUS
<1>1. CASE Begins \/ NothingToFinish \/ Withdraws \/ AdoptsLink \/ Republishes \/ FinishesLink
  BY <1>1, BeginsStep, NothingToFinishStep, WithdrawsStep, AdoptsLinkStep,
     RepublishesStep, FinishesLinkStep
<1>2. CASE Verifies \/ TakesRecorded \/ PathsDone \/ LinksDone \/ ChecksRemovable \/ Saves
  BY <1>2, VerifiesStep, TakesRecordedStep, PathsDoneStep, LinksDoneStep,
     ChecksRemovableStep, SavesStep
<1>3. CASE \/ \E p \in Path : TakesPath(p)
           \/ \E l \in obsolete : TakesLink(l)
  BY <1>3, TakesPathStep, TakesLinkStep
<1>4. CASE Intends \/ Links \/ LinkFails \/ Commits \/ CommitRefused \/ RollsBack \/ Undoes
  BY <1>4, IntendsStep, LinksStep, LinkFailsStep, CommitsStep, CommitRefusedStep,
     RollsBackStep, UndoesStep
<1>5. CASE Retains \/ Inspects \/ Discards
  BY <1>5, RetainsStep, InspectsStep, DiscardsStep
<1>6. CASE IntentFails \/ LinkAmbiguous \/ CommitFails \/ RollbackDies \/ Dies
           \/ Changes \/ UserActs
  BY <1>6, IntentFailsStep, LinkAmbiguousStep, CommitFailsStep, RollbackDiesStep, DiesStep,
     ChangesStep, UserActsStep
<1>7. CASE UNCHANGED vars
  BY <1>7, StutterStep
<1>. QED
  BY <1>1, <1>2, <1>3, <1>4, <1>5, <1>6, <1>7 DEF Next, RunStep

\* The inductive invariant holds in every state.
LEMMA Invariance == Spec => []IInv
<1>. QED
  BY InitIInv, NextKeepsIInv, PTL DEF Spec

\* A discovery link that the sync made is known to the lockfile, by its identity or
\* by the intent for it, wherever runSync() is cut short (sync.ts:1298-1300), unless
\* it is Disowned: the save and the rollback of its successor both failed.
THEOREM LinksRecorded == Spec => []LinksAreRecorded
<1>1. IInv => LinksAreRecorded
  <2>. SUFFICES ASSUME IInv PROVE LinksAreRecorded
    OBVIOUS
  <2>1. ASSUME NEW p \in Path, entry[p] \in ours PROVE Recorded(p)
    <3>1. Knows(lock, p)
      BY <2>1 DEF IInv, RecordsInv, Sound
    <3>2. <<p, entry[p]>>[2] = entry[p]
      OBVIOUS
    <3>. QED BY <3>1 DEF Knows, Recorded
  <2>. QED BY <2>1 DEF IInv, LinksAreRecorded
<1>. QED
  BY <1>1, Invariance, PTL

\* A sync that ends in an error leaves every desired discovery link live that was
\* live when it began, unless a user touched its path (sync.ts:1449-1467).
THEOREM FanoutLives == Spec => []FanoutStaysLive
<1>1. IInv => FanoutStaysLive
  BY DEF IInv, FanoutInv, FanoutStaysLive, Present, Undoing
<1>. QED
  BY <1>1, Invariance, PTL

-----------------------------------------------------------------------------
\* What users put at a path or under a random name is still there.
UsersEntriesKept ==
  \A k \in Inode :
    kind[k] = "user" /\ (k \in aside \/ \E p \in Path : entry[p] = k)
      => k \in aside' \/ \E p \in Path : entry'[p] = k

LEMMA UnmovedKeeps ==
  ASSUME UNCHANGED tree
  PROVE  UsersEntriesKept
BY DEF tree, UsersEntriesKept

LEMMA LinkingKeeps ==
  ASSUME IInv, NEW p \in Path, NEW t \in Target, entry[p] = 0, Linking(p, t)
  PROVE  UsersEntriesKept
<1>1. aside' = aside /\ \A q \in Path : entry[q] # 0 => entry'[q] = entry[q]
  BY LinkingMakes
<1>2. 0 \notin Inode
  BY Constants
<1>. QED
  BY <1>1, <1>2 DEF UsersEntriesKept

\* Entries other than one that is no user's are where they were.
LEMMA LosingKeeps ==
  ASSUME IInv, NEW k, kind[k] # "user" \/ k \notin Inode,
         aside \ {k} \subseteq aside',
         \A p \in Path : entry[p] # k => entry'[p] = entry[p] \/ entry[p] = 0
  PROVE  UsersEntriesKept
<1>1. 0 \notin Inode
  BY Constants
<1>. QED
  BY <1>1 DEF UsersEntriesKept

\* The one that was moved aside goes back.
LEMMA BackKeeps ==
  ASSUME IInv, cur.path \in Path, entry[cur.path] = 0,
         entry' = [entry EXCEPT ![cur.path] = hold], aside' = aside \ {hold}
  PROVE  UsersEntriesKept
<1>1. /\ entry'[cur.path] = hold
      /\ \A p \in Path : entry[p] # 0 => entry'[p] = entry[p]
  BY Typed DEF IInv
<1>2. 0 \notin Inode
  BY Constants
<1>. QED
  BY <1>1, <1>2 DEF UsersEntriesKept

LEMMA PublicationKeeps ==
  ASSUME IInv, Republishes \/ Links \/ LinkAmbiguous
  PROVE  UsersEntriesKept
<1>1. CASE Republishes
  <2>1. mem.publication \in Publication
    BY <1>1, MemIsRecord DEF Republishes
  <2>2. mem.publication.path \in Path /\ mem.publication.target \in Target
    BY <2>1 DEF Publication
  <2>. QED BY <1>1, <2>2, LinkingKeeps DEF Republishes, Present
<1>2. CASE Links \/ LinkAmbiguous
  <2>1. pc = "link" /\ entry[cur.path] = 0
    BY <1>2 DEF Links, LinkAmbiguous, Present
  <2>2. cur.path \in Path /\ conf.target \in Target
    BY <2>1, Typed DEF IInv, HandInv, Publishing
  <2>3. Linking(cur.path, conf.target) \/ UNCHANGED tree
    BY <1>2 DEF Links, LinkAmbiguous
  <2>. QED BY <2>1, <2>2, <2>3, LinkingKeeps, UnmovedKeeps
<1>. QED
  BY <1>1, <1>2

LEMMA UndoKeeps ==
  ASSUME IInv, RollsBack \/ RollbackDies \/ Undoes \/ Inspects
  PROVE  UsersEntriesKept
<1>1. CASE RollsBack
  <2>1. kind[cur.inode] # "user" /\ aside' = aside
    BY <1>1, Typed, Constants DEF RollsBack, IInv, HandInv
  <2>2. /\ entry' \in {entry, [entry EXCEPT ![cur.path] = 0]}
        /\ entry' # entry => entry[cur.path] = cur.inode
    BY <1>1 DEF RollsBack
  <2>3. \A p \in Path : entry[p] # cur.inode => entry'[p] = entry[p]
    BY <2>2, Typed DEF IInv
  <2>. QED BY <2>1, <2>3, LosingKeeps
<1>2. CASE Undoes
  <2>1. cur.path \in Path /\ (hold # 0 => kind[hold] # "user")
    BY <1>2 DEF Undoes, IInv, HandInv, HoldInv, Undoing
  <2>2. \/ UNCHANGED <<entry, aside>>
        \/ hold # 0 /\ aside' = aside \ {hold} /\ entry' = entry
        \/ /\ entry[cur.path] = 0 /\ entry' = [entry EXCEPT ![cur.path] = hold]
           /\ aside' = aside \ {hold}
    BY <1>2 DEF Undoes, Present
  <2>. QED BY <2>1, <2>2, LosingKeeps, BackKeeps DEF UsersEntriesKept
<1>3. CASE Inspects
  <2>1. cur.path \in Path
    BY <1>3 DEF Inspects, IInv, HandInv
  <2>2. \/ UNCHANGED <<entry, aside>>
        \/ /\ entry[cur.path] = 0 /\ entry' = [entry EXCEPT ![cur.path] = hold]
           /\ aside' = aside \ {hold}
    BY <1>3 DEF Inspects, Present
  <2>. QED BY <2>1, <2>2, BackKeeps DEF UsersEntriesKept
<1>4. CASE RollbackDies
  <2>1. kind[cur.inode] # "user" /\ aside \subseteq aside'
    BY <1>4, Typed, Constants DEF RollbackDies, IInv, HandInv
  <2>2. /\ entry' \in {entry, [entry EXCEPT ![cur.path] = 0]}
        /\ entry[cur.path] = cur.inode
    BY <1>4 DEF RollbackDies
  <2>3. \A p \in Path : entry[p] # cur.inode => entry'[p] = entry[p]
    BY <2>2, Typed DEF IInv
  <2>. QED BY <2>1, <2>3, LosingKeeps
<1>. QED
  BY <1>1, <1>2, <1>3, <1>4

LEMMA AsideKeeps ==
  ASSUME IInv, Retains \/ Discards
  PROVE  UsersEntriesKept
<1>1. CASE Retains
  <2>1. aside \subseteq aside' /\ entry[cur.path] \in aside' \cup {0}
    BY <1>1 DEF Retains
  <2>2. \A p \in Path : p # cur.path => entry'[p] = entry[p]
    BY <1>1 DEF Retains
  <2>3. 0 \notin Inode
    BY Constants
  <2>. QED BY <2>1, <2>2, <2>3 DEF UsersEntriesKept
<1>2. CASE Discards
  <2>1. kind[hold] # "user" \/ hold \notin Inode
    BY <1>2, Constants DEF Discards, IInv, HoldInv
  <2>. QED BY <1>2, <2>1, LosingKeeps DEF Discards
<1>. QED
  BY <1>1, <1>2

\* What users put at a link's path survives every race: each overwriting or
\* discarding step of the sync is about an empty path or a link (renameat2() with
\* RENAME_NOREPLACE and the identity checks of sync.ts).
THEOREM UsersEntriesSafe == Spec => UsersEntriesSurvive
<1>1. ASSUME IInv, [Next]_vars PROVE [pc' # pc => UsersEntriesKept]_vars
  <2>1. CASE Republishes \/ Links \/ LinkAmbiguous
    BY <1>1, <2>1, PublicationKeeps
  <2>2. CASE RollsBack \/ RollbackDies \/ Undoes \/ Inspects
    BY <1>1, <2>2, UndoKeeps
  <2>3. CASE Retains \/ Discards
    BY <1>1, <2>3, AsideKeeps
  <2>4. CASE \/ Begins \/ NothingToFinish \/ Withdraws \/ AdoptsLink \/ FinishesLink
             \/ Verifies \/ TakesRecorded \/ PathsDone \/ LinksDone \/ ChecksRemovable \/ Saves
    <3>1. UNCHANGED tree
      BY <2>4 DEF Begins, NothingToFinish, Withdraws, AdoptsLink, FinishesLink,
         Verifies, TakesRecorded, PathsDone, LinksDone, ChecksRemovable, Saves
    <3>. QED BY <3>1, UnmovedKeeps
  <2>5. CASE \/ \E p \in Path : TakesPath(p)
             \/ \E l \in obsolete : TakesLink(l)
    BY <2>5, UnmovedKeeps DEF TakesPath, TakesLink
  <2>6. CASE \/ Intends \/ LinkFails \/ Commits \/ CommitRefused
             \/ IntentFails \/ CommitFails \/ Dies
    <3>1. UNCHANGED tree
      BY <2>6 DEF Intends, LinkFails, Commits, CommitRefused, IntentFails, CommitFails,
         Dies
    <3>. QED BY <3>1, UnmovedKeeps
  <2>7. CASE Changes \/ UserActs
    BY <2>7 DEF Changes, UserActs
  <2>8. CASE UNCHANGED vars
    BY <2>8
  <2>. QED
    BY <1>1, <2>1, <2>2, <2>3, <2>4, <2>5, <2>6, <2>7, <2>8 DEF Next, RunStep
<1>2. IInv /\ [Next]_vars => [pc' # pc => UsersEntriesKept]_vars
  BY <1>1
<1>3. Spec => [][pc' # pc => UsersEntriesKept]_vars
  BY <1>2, Invariance, PTL DEF Spec
<1>. QED
  BY <1>3 DEF UsersEntriesSurvive, UsersEntriesKept

=============================================================================
