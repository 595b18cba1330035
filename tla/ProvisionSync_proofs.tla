------------------------- MODULE ProvisionSync_proofs -------------------------
(***************************************************************************)
(* The safety properties of ProvisionSync for every set of items, of       *)
(* publishers, and every bound on generations and queued requests.         *)
(***************************************************************************)
EXTENDS ProvisionSync, SequenceTheorems, TLAPS

(***************************************************************************)
(* The inductive invariant.                                                *)
(***************************************************************************)
\* The server and the loop are in one of their states.
Flags ==
  /\ server \in {"up", "stopping", "down"}
  /\ auto \in BOOLEAN
  /\ loop \in {"idle", "running", "ending"}
  /\ syncRequested \in BOOLEAN
  /\ unsynced \in BOOLEAN

\* Generations count the registrations: only a runtime without a URL is at
\* generation 0, and it has no manifest.
Registration ==
  /\ url \in URL \cup {None} /\ savedUrl \in URL \cup {None}
  /\ generation \in 0..MaxGeneration
  /\ generation = 0 <=> url = None
  /\ manifest = None \/ (manifest \in SUBSET Item /\ generation # 0)
  /\ fastMode \in URL \cup {None}

\* The operations that can be waiting at generation g: no sync is of a later
\* one, and only config items are approved with an adoption.
Due(g) ==
  {op \in Op :
     /\ op.kind = "sync" => op.gen <= g
     /\ op.kind = "approve" /\ op.adopt => op.item \in ConfigItem}

Queued == queue \in Seq(Due(generation))

\* A run of the present generation fetches from the registered URL.
Current ==
  \/ run = None
  \/ /\ run \in Run
     /\ run.gen <= generation
     /\ run.gen = generation => run.url = url

\* The lockfile against the disk and the history.
Recorded ==
  /\ lock \in LockFile
  /\ tree \in SUBSET Item /\ tree \subseteq lock.installed
  /\ foreign \in SUBSET Item
  /\ consented \in SUBSET Item
  /\ lock.approved \cup lock.installed \subseteq consented
  /\ deleted \in SUBSET Item /\ deleted \subseteq lock.revoked
  /\ granted \in SUBSET ConfigItem /\ lock.adopted \subseteq granted

\* A run's copy m of the lockfile l: approvals aside it is never behind.
Mirrors(m, l) ==
  /\ m.installed = l.installed /\ m.revoked = l.revoked /\ m.adopted = l.adopted

\* While a run awaits an item nobody else writes the lockfile, and the item is
\* one it may apply: let in, not revoked, its grant no longer on disk.
Awaiting ==
  run # None /\ run.at # None =>
    /\ Mirrors(run.mem, lock)
    /\ run.mem.approved \subseteq consented
    /\ auto \/ run.at \in consented
    /\ run.at \notin run.mem.revoked \cup run.mem.adopted
    /\ run.adopt => run.at \in granted

IInv == Flags /\ Registration /\ Queued /\ Current /\ Recorded /\ Awaiting

LEMMA InvariantImplies == IInv => OwnedOnDisk
<1> SUFFICES ASSUME IInv PROVE OwnedOnDisk
  OBVIOUS
<1>1. queue \in Seq(Op)
  <2>1. Due(generation) \subseteq Op
    BY DEF Due
  <2>. QED BY <2>1, SeqMonotonic DEF IInv, Queued
<1>. QED
  BY <1>1 DEF IInv, Flags, Registration, Current, Recorded, OwnedOnDisk, TypeOK

-----------------------------------------------------------------------------
(***************************************************************************)
(* The queue.                                                              *)
(***************************************************************************)
\* What could wait at one generation can wait at a later one.
LEMMA DueGrows ==
  ASSUME NEW g \in Nat, NEW h \in Nat, g <= h, NEW q \in Seq(Due(g))
  PROVE  q \in Seq(Due(h))
<1>1. Due(g) \subseteq Due(h)
  <2> SUFFICES ASSUME NEW op \in Op, op.kind = "sync", op.gen <= g PROVE op.gen <= h
    BY DEF Due
  <2>1. op.gen \in Nat
    BY ConstantsAssumption DEF Op
  <2>. QED BY <2>1
<1>. QED
  BY <1>1, SeqMonotonic

LEMMA SyncIsDue ==
  ASSUME NEW g \in 1..MaxGeneration
  PROVE  Sync(g) \in Due(g)
<1>1. Sync(g) \in Op
  BY DEF Sync, Op
<1>. QED
  BY <1>1, ConstantsAssumption DEF Sync, Due

\* The operation in turn, and the queue behind it.
LEMMA NextIsDue ==
  ASSUME NEW g \in Nat, queue \in Seq(Due(g)), NEW kind, NextIs(kind)
  PROVE  /\ Head(queue) \in Due(g) /\ Head(queue).kind = kind
         /\ Tail(queue) \in Seq(Due(g))
BY HeadTailProperties DEF NextIs

\* syncNow() leaves operations of this generation behind, and a settled loop.
LEMMA SyncNowKeeps ==
  ASSUME NEW g \in 1..MaxGeneration, NEW q \in Seq(Due(g)), NEW flag \in BOOLEAN,
         Flags, SyncNow(q, g, flag)
  PROVE  /\ queue' \in Seq(Due(g))
         /\ loop' \in {"idle", "running", "ending"} /\ syncRequested' \in BOOLEAN
<1>1. Append(q, Sync(g)) \in Seq(Due(g))
  BY SyncIsDue, AppendProperties
<1>. QED
  BY <1>1 DEF SyncNow, Flags

-----------------------------------------------------------------------------
(***************************************************************************)
(* One run.                                                                *)
(***************************************************************************)
\* The loop goes on, or settles, at the same generation.
LEMMA EndRunKeeps ==
  ASSUME IInv, run # None, EndRun, generation' = generation
  PROVE  /\ Queued' /\ Current' /\ Awaiting'
         /\ loop' \in {"idle", "running", "ending"} /\ syncRequested' \in BOOLEAN
<1>1. generation \in 1..MaxGeneration
  BY ConstantsAssumption DEF IInv, Registration, Current, Run
<1>2. Append(queue, Sync(generation)) \in Seq(Due(generation))
  BY <1>1, SyncIsDue, AppendProperties DEF IInv, Queued
<1>3. queue' \in Seq(Due(generation))
  BY <1>2 DEF EndRun, IInv, Queued
<1>4. loop' \in {"idle", "running", "ending"} /\ syncRequested' \in BOOLEAN
  BY DEF EndRun, IInv, Flags
<1>5. run' = None
  BY DEF EndRun
<1>. QED
  BY <1>3, <1>4, <1>5 DEF Queued, Current, Awaiting

\* What a run r may go on with: its copy mirrors the lockfile l, l owns the
\* files t, and what both let in and grant is on the history.
CanProceed(r, l, t) ==
  /\ r \in Run /\ r.gen <= generation /\ (r.gen = generation => r.url = url)
  /\ l \in LockFile /\ t \subseteq l.installed
  /\ Mirrors(r.mem, l)
  /\ l.approved \cup l.installed \cup r.mem.approved \subseteq consented'
  /\ deleted \subseteq l.revoked
  /\ l.adopted \subseteq granted'

LEMMA ParkKeeps ==
  ASSUME NEW r, NEW l, NEW t, CanProceed(r, l, t), Park(r, l, t), IInv,
         UNCHANGED <<auto, url, generation>>,
         foreign' \in SUBSET Item, consented' \in SUBSET Item,
         granted' \in SUBSET ConfigItem
  PROVE  /\ Queued' /\ Current' /\ Recorded' /\ Awaiting'
         /\ loop' \in {"idle", "running", "ending"} /\ syncRequested' \in BOOLEAN
         /\ fastMode' \in URL \cup {None}
<1>1. PICK i \in Candidates(r) :
        /\ run' = [r EXCEPT !.at = i, !.todo = @ \ {i}, !.adopt = i \in r.mem.adopted,
                            !.mem = [r.mem EXCEPT !.adopted = @ \ {i}]]
        /\ lock' = IF i \in r.mem.adopted THEN [r.mem EXCEPT !.adopted = @ \ {i}] ELSE l
  BY DEF Park
<1> DEFINE spent == [r.mem EXCEPT !.adopted = @ \ {i}]
<1>2. /\ r \in Run /\ l \in LockFile /\ r.mem \in LockFile /\ Mirrors(r.mem, l)
      /\ r.gen <= generation /\ (r.gen = generation => r.url = url)
  BY DEF CanProceed, Run
<1>3. /\ i \in Item /\ i \in r.todo /\ i \notin r.mem.revoked
      /\ auto \/ i \in r.mem.approved \/ i \in r.mem.installed
  BY <1>2 DEF Candidates, Run
<1>4. /\ spent \in LockFile /\ spent.adopted = r.mem.adopted \ {i}
      /\ spent.installed = r.mem.installed /\ spent.approved = r.mem.approved
      /\ spent.revoked = r.mem.revoked
  BY <1>2 DEF LockFile
<1>5. /\ lock' \in LockFile /\ lock'.installed = l.installed /\ lock'.revoked = l.revoked
      /\ lock'.adopted = l.adopted \ {i}
      /\ lock'.approved \subseteq l.approved \cup r.mem.approved
  BY <1>1, <1>2, <1>4 DEF Mirrors
<1> HIDE DEF spent
<1>6. /\ run' \in Run /\ run'.at = i /\ run'.mem = spent /\ run'.gen = r.gen
      /\ run'.url = r.url /\ run'.adopt = (i \in r.mem.adopted)
  <2>1. run' = [r EXCEPT !.at = i, !.todo = @ \ {i}, !.adopt = i \in r.mem.adopted,
                         !.mem = spent]
    BY <1>1 DEF spent
  <2>2. r.todo \ {i} \in SUBSET Item /\ (i \in r.mem.adopted) \in BOOLEAN
    BY <1>2 DEF Run
  <2>3. run' = [url |-> r.url, gen |-> r.gen, want |-> r.want, todo |-> r.todo \ {i},
                at |-> i, adopt |-> i \in r.mem.adopted, mem |-> spent]
    BY <1>2, <2>1 DEF Run
  <2>. QED BY <1>2, <1>3, <1>4, <2>2, <2>3 DEF Run
<1>7. Current'
  BY <1>2, <1>6 DEF Current
<1>8. UNCHANGED <<loop, syncRequested, queue, fastMode, deleted>> /\ tree' = t
  BY DEF Park
<1>9. Recorded'
  <2>1. deleted \in SUBSET Item
    BY DEF IInv, Recorded
  <2>2. tree' \in SUBSET Item /\ tree' \subseteq lock'.installed
    BY <1>5, <1>8 DEF CanProceed, LockFile
  <2>3. lock'.approved \cup lock'.installed \subseteq consented'
    BY <1>5 DEF CanProceed
  <2>4. deleted' \in SUBSET Item /\ deleted' \subseteq lock'.revoked
    BY <1>5, <1>8, <2>1 DEF CanProceed
  <2>5. lock'.adopted \subseteq granted'
    BY <1>5 DEF CanProceed
  <2>. QED BY <1>5, <2>2, <2>3, <2>4, <2>5 DEF Recorded
<1>10. Awaiting'
  <2>1. Mirrors(run'.mem, lock')
    BY <1>2, <1>4, <1>5, <1>6 DEF Mirrors
  <2>2. run'.mem.approved \subseteq consented' /\ (auto' \/ i \in consented')
    BY <1>2, <1>3, <1>4, <1>6 DEF CanProceed, Mirrors
  <2>3. i \notin run'.mem.revoked \cup run'.mem.adopted
    BY <1>3, <1>4, <1>6
  <2>4. run'.adopt => i \in granted'
    BY <1>2, <1>6 DEF CanProceed, Mirrors
  <2>. QED BY <1>6, <2>1, <2>2, <2>3, <2>4 DEF Awaiting
<1>11. Queued' /\ loop' \in {"idle", "running", "ending"} /\ syncRequested' \in BOOLEAN
       /\ fastMode' \in URL \cup {None}
  BY <1>8 DEF IInv, Queued, Flags, Registration
<1>. QED
  BY <1>7, <1>9, <1>10, <1>11

LEMMA FinishKeeps ==
  ASSUME NEW r, NEW l, NEW t, CanProceed(r, l, t), Finish(r, l, t), IInv, run # None,
         UNCHANGED <<auto, url, generation>>,
         foreign' \in SUBSET Item, consented' \in SUBSET Item,
         granted' \in SUBSET ConfigItem
  PROVE  /\ Queued' /\ Current' /\ Recorded' /\ Awaiting'
         /\ loop' \in {"idle", "running", "ending"} /\ syncRequested' \in BOOLEAN
         /\ fastMode' \in URL \cup {None}
<1>1. EndRun
  BY DEF Finish
<1>2. /\ Queued' /\ Current' /\ Awaiting'
      /\ loop' \in {"idle", "running", "ending"} /\ syncRequested' \in BOOLEAN
  BY <1>1, EndRunKeeps
<1>3. /\ r \in Run /\ l \in LockFile /\ r.mem \in LockFile /\ Mirrors(r.mem, l)
      /\ t \subseteq l.installed /\ deleted \subseteq l.revoked
      /\ l.adopted \subseteq granted' /\ deleted \in SUBSET Item
      /\ l.approved \cup l.installed \cup r.mem.approved \subseteq consented'
  BY DEF CanProceed, Run, IInv, Recorded
<1>4. fastMode' \in URL \cup {None}
  BY <1>3 DEF Finish, IInv, Registration, Run
<1>5. Recorded'
  <2>1. PICK gone \in SUBSET (r.mem.installed \ r.want) :
          /\ tree' = t \ gone
          /\ lock' = IF r.gen = generation
                     THEN [installed |-> r.mem.installed \ gone,
                           approved |-> r.mem.approved,
                           revoked |-> r.mem.revoked \cap r.want,
                           adopted |-> r.mem.adopted \cap r.want]
                     ELSE IF r.mem.installed \ r.want \subseteq ConfigItem THEN l ELSE r.mem
    BY DEF Finish
  <2>2. CASE r.gen = generation
    <3>1. /\ lock' \in LockFile /\ lock'.installed = l.installed \ gone
          /\ lock'.approved = r.mem.approved
          /\ lock'.revoked = l.revoked \cap r.want
          /\ lock'.adopted = l.adopted \cap r.want
      BY <1>3, <2>1, <2>2 DEF LockFile, Mirrors
    <3>2. deleted' = deleted \cap r.want
      BY <2>2 DEF Finish
    <3>. QED BY <1>3, <2>1, <3>1, <3>2 DEF Recorded, LockFile
  <2>3. CASE r.gen # generation
    <3>1. /\ lock' \in LockFile /\ lock'.installed = l.installed
          /\ lock'.approved \subseteq l.approved \cup r.mem.approved
          /\ lock'.revoked = l.revoked /\ lock'.adopted = l.adopted
      BY <1>3, <2>1, <2>3 DEF Mirrors
    <3>2. deleted' = deleted
      BY <2>3 DEF Finish
    <3>. QED BY <1>3, <2>1, <3>1, <3>2 DEF Recorded, LockFile
  <2>. QED BY <2>2, <2>3
<1>. QED
  BY <1>2, <1>4, <1>5

LEMMA ProceedKeeps ==
  ASSUME NEW r, NEW l, NEW t, CanProceed(r, l, t), Proceed(r, l, t), IInv, run # None,
         UNCHANGED <<server, auto, url, generation, savedUrl, unsynced>>,
         manifest' = manifest \/ manifest' \in SUBSET Item,
         foreign' \in SUBSET Item, consented' \in SUBSET Item,
         granted' \in SUBSET ConfigItem
  PROVE  IInv'
<1>1. /\ Queued' /\ Current' /\ Recorded' /\ Awaiting'
      /\ loop' \in {"idle", "running", "ending"} /\ syncRequested' \in BOOLEAN
      /\ fastMode' \in URL \cup {None}
  BY ParkKeeps, FinishKeeps DEF Proceed
<1>2. Flags'
  BY <1>1 DEF IInv, Flags
<1>3. generation # 0
  BY ConstantsAssumption DEF IInv, Current, Registration, Run
<1>4. Registration'
  BY <1>1, <1>3 DEF IInv, Registration
<1>. QED
  BY <1>1, <1>2, <1>4 DEF IInv

-----------------------------------------------------------------------------
(***************************************************************************)
(* Requests.                                                               *)
(***************************************************************************)
LEMMA RegisterAndSyncStep ==
  ASSUME IInv, NEW u \in URL, RegisterAndSync(u)
  PROVE  IInv'
<1>1. u # None
  BY ConstantsAssumption
<1>2. /\ generation' \in 1..MaxGeneration /\ generation <= generation'
      /\ generation \in Nat /\ url' = u
      /\ u # url => generation < generation'
  BY <1>1, ConstantsAssumption DEF RegisterAndSync, IInv, Registration
<1>3. Registration'
  BY <1>1, <1>2 DEF RegisterAndSync, IInv, Registration
<1>4. queue \in Seq(Due(generation'))
  BY <1>2, DueGrows DEF IInv, Queued
<1>5. /\ queue' \in Seq(Due(generation'))
      /\ loop' \in {"idle", "running", "ending"} /\ syncRequested' \in BOOLEAN
  <2>1. SyncNow(queue, generation', u # url) /\ (u # url) \in BOOLEAN /\ Flags
    BY DEF RegisterAndSync, IInv
  <2>. QED BY <1>2, <1>4, <2>1, SyncNowKeeps
<1>6. Flags' /\ Queued'
  BY <1>5 DEF RegisterAndSync, IInv, Flags, Queued
<1>7. Current'
  <2>1. run' = run /\ (run # None => run.gen \in Nat)
    BY DEF RegisterAndSync, IInv, Current, Run
  <2>2. CASE u = url
    BY <1>2, <2>1, <2>2 DEF RegisterAndSync, IInv, Current
  <2>3. CASE u # url
    BY <1>2, <2>1, <2>3 DEF IInv, Current
  <2>. QED BY <2>2, <2>3
<1>8. Recorded' /\ Awaiting'
  BY DEF RegisterAndSync, IInv, Recorded, Awaiting
<1>. QED
  BY <1>3, <1>6, <1>7, <1>8 DEF IInv

LEMMA RequestStep ==
  ASSUME IInv,
         \/ RequestSync
         \/ \E i \in Item, adopt \in BOOLEAN : RequestApprove(i, adopt)
         \/ \E i \in Item : RequestDelete(i)
  PROVE  IInv'
<1>1. UNCHANGED <<server, auto, url, generation, manifest, run, fastMode, diskVars,
                  historyVars>>
  BY DEF RequestSync, RequestApprove, RequestDelete
<1>2. Registration' /\ Current' /\ Recorded' /\ Awaiting'
  BY <1>1 DEF IInv, Registration, Current, Recorded, Awaiting, diskVars, historyVars
<1>3. ASSUME NEW op \in Due(generation), queue' = Append(queue, op)
      PROVE  Queued'
  BY <1>1, <1>3, AppendProperties DEF IInv, Queued
<1>4. /\ Queued'
      /\ loop' \in {"idle", "running", "ending"} /\ syncRequested' \in BOOLEAN
  <2>1. CASE RequestSync
    <3>1. generation \in 1..MaxGeneration
      BY <2>1, ConstantsAssumption DEF RequestSync, IInv, Registration
    <3>2. SyncNow(queue, generation, FALSE) /\ Flags /\ queue \in Seq(Due(generation))
      BY <2>1 DEF RequestSync, IInv, Queued
    <3>. QED BY <1>1, <3>1, <3>2, SyncNowKeeps DEF Queued
  <2>2. ASSUME NEW i \in Item, NEW adopt \in BOOLEAN, RequestApprove(i, adopt)
        PROVE  Queued' /\ loop' = loop /\ syncRequested' \in BOOLEAN
    <3> DEFINE op == [kind |-> "approve", item |-> i, gen |-> generation, adopt |-> adopt]
    <3>1. generation \in 1..MaxGeneration
      BY <2>2, ConstantsAssumption DEF RequestApprove, Listed, IInv, Registration
    <3>2. op \in Op
      BY <3>1 DEF Op
    <3>3. op \in Due(generation)
      BY <2>2, <3>2 DEF RequestApprove, Due
    <3>4. queue' = Append(queue, op)
      BY <2>2 DEF RequestApprove
    <3> HIDE DEF op
    <3>5. Queued'
      BY <1>3, <3>3, <3>4
    <3>. QED BY <2>2, <3>5 DEF RequestApprove, IInv, Flags
  <2>3. ASSUME NEW i \in Item, RequestDelete(i)
        PROVE  Queued' /\ loop' = loop /\ syncRequested' \in BOOLEAN
    <3> DEFINE op == [kind |-> "delete", item |-> i]
    <3>1. op \in Due(generation)
      BY DEF Due, Op
    <3>2. queue' = Append(queue, op)
      BY <2>3 DEF RequestDelete
    <3> HIDE DEF op
    <3>3. Queued'
      BY <1>3, <3>1, <3>2
    <3>. QED BY <2>3, <3>3 DEF RequestDelete, IInv, Flags
  <2>. QED BY <2>1, <2>2, <2>3 DEF IInv, Flags
<1>5. Flags'
  BY <1>1, <1>4 DEF IInv, Flags, historyVars
<1>. QED
  BY <1>2, <1>4, <1>5 DEF IInv

-----------------------------------------------------------------------------
(***************************************************************************)
(* The operations the queue serializes: no run is in progress.             *)
(***************************************************************************)
LEMMA ExecApproveStep ==
  ASSUME IInv, ExecApprove
  PROVE  IInv'
<1> DEFINE op == Head(queue)
<1>1. /\ generation \in Nat /\ queue \in Seq(Due(generation))
      /\ run = None /\ run' = None
      /\ UNCHANGED <<server, auto, url, generation, manifest, fastMode, savedUrl, tree,
                     foreign>>
  BY ConstantsAssumption DEF ExecApprove, NextIs, IInv, Registration, Queued
<1>2. /\ op \in Due(generation) /\ op.kind = "approve"
      /\ Tail(queue) \in Seq(Due(generation))
  BY <1>1, NextIsDue DEF ExecApprove
<1>3. /\ op \in Op /\ op.item \in Item /\ op.adopt \in BOOLEAN
      /\ op.adopt => op.item \in ConfigItem
  BY <1>2 DEF Due, Op
<1> HIDE DEF op
<1>4. Registration' /\ Current' /\ Awaiting'
  BY <1>1 DEF IInv, Registration, Current, Awaiting
<1>5. Recorded'
  <2>1. CASE Listed(op.item, op.gen)
    <3>1. /\ lock' = [lock EXCEPT !.revoked = @ \ {op.item},
                                  !.approved = @ \cup {op.item},
                                  !.adopted = IF op.adopt THEN @ \cup {op.item} ELSE @]
          /\ consented' = consented \cup {op.item}
          /\ deleted' = deleted \ {op.item}
          /\ granted' = IF op.adopt THEN granted \cup {op.item} ELSE granted
      BY <2>1 DEF ExecApprove, op
    <3>2. /\ lock'.revoked = lock.revoked \ {op.item}
          /\ lock'.approved = lock.approved \cup {op.item}
          /\ lock'.installed = lock.installed
          /\ lock'.adopted = IF op.adopt THEN lock.adopted \cup {op.item} ELSE lock.adopted
          /\ lock' \in LockFile
      BY <1>3, <3>1 DEF IInv, Recorded, LockFile
    <3>. QED BY <1>1, <1>3, <3>1, <3>2 DEF IInv, Recorded
  <2>2. CASE ~Listed(op.item, op.gen)
    <3>1. UNCHANGED <<lock, consented, deleted, granted>>
      BY <2>2 DEF ExecApprove, historyVars, op
    <3>. QED BY <1>1, <3>1 DEF IInv, Recorded
  <2>. QED BY <2>1, <2>2
<1>6. /\ Queued' /\ unsynced' \in BOOLEAN
      /\ loop' \in {"idle", "running", "ending"} /\ syncRequested' \in BOOLEAN
  <2>1. CASE Listed(op.item, op.gen) /\ server = "up"
    <3>1. generation \in 1..MaxGeneration
      BY <2>1, ConstantsAssumption DEF Listed, IInv, Registration
    <3>2. SyncNow(Tail(queue), generation, FALSE) /\ Flags /\ unsynced' = TRUE
      BY <2>1 DEF ExecApprove, IInv, op
    <3>. QED BY <1>1, <1>2, <3>1, <3>2, SyncNowKeeps DEF Queued
  <2>2. CASE ~(Listed(op.item, op.gen) /\ server = "up")
    <3>1. /\ queue' = Tail(queue) /\ UNCHANGED <<loop, syncRequested>>
          /\ unsynced' = TRUE \/ unsynced' = unsynced
      BY <2>2 DEF ExecApprove, historyVars, op
    <3>. QED BY <1>1, <1>2, <3>1 DEF IInv, Flags, Queued
  <2>. QED BY <2>1, <2>2
<1>7. Flags'
  BY <1>1, <1>6 DEF IInv, Flags
<1>. QED
  BY <1>4, <1>5, <1>6, <1>7 DEF IInv

LEMMA ExecDeleteStep ==
  ASSUME IInv, ExecDelete
  PROVE  IInv'
<1> DEFINE i == Head(queue).item
<1>1. /\ generation \in Nat /\ queue \in Seq(Due(generation))
      /\ run = None /\ run' = None /\ queue' = Tail(queue)
      /\ UNCHANGED <<server, auto, url, generation, manifest, loop, syncRequested,
                     fastMode, savedUrl, foreign, unsynced>>
  BY ConstantsAssumption DEF ExecDelete, NextIs, IInv, Registration, Queued
<1>2. Queued' /\ i \in Item
  <2>1. /\ Head(queue) \in Due(generation) /\ Head(queue).kind = "delete"
        /\ Tail(queue) \in Seq(Due(generation))
    BY <1>1, NextIsDue DEF ExecDelete
  <2>. QED BY <1>1, <2>1 DEF Queued, Due, Op
<1>3. Flags' /\ Registration' /\ Current' /\ Awaiting'
  BY <1>1 DEF IInv, Flags, Registration, Current, Awaiting
<1>4. Recorded'
  <2>1. CASE /\ lock' = Revoked(lock, i) /\ tree' = tree \ {i}
             /\ consented' = consented \ {i} /\ granted' = granted \ {i}
             /\ deleted' = deleted \cup {i}
    <3>1. /\ lock'.revoked = lock.revoked \cup {i} /\ lock'.approved = lock.approved \ {i}
          /\ lock'.installed = lock.installed \ {i} /\ lock'.adopted = lock.adopted \ {i}
          /\ lock' \in LockFile
      BY <1>2, <2>1 DEF Revoked, IInv, Recorded, LockFile
    <3> HIDE DEF i
    <3>. QED BY <1>1, <1>2, <2>1, <3>1 DEF IInv, Recorded
  <2>2. CASE UNCHANGED <<lock, tree, consented, granted, deleted>>
    BY <1>1, <2>2 DEF IInv, Recorded
  <2>. QED BY <2>1, <2>2 DEF ExecDelete
<1>. QED
  BY <1>2, <1>3, <1>4 DEF IInv

LEMMA StartSyncStep ==
  ASSUME IInv, StartSync
  PROVE  IInv'
<1>1. /\ generation \in Nat /\ queue \in Seq(Due(generation)) /\ queue' = Tail(queue)
      /\ UNCHANGED <<server, auto, url, generation, manifest, loop, syncRequested,
                     fastMode, diskVars, consented, deleted, granted>>
  BY ConstantsAssumption DEF StartSync, IInv, Registration, Queued
<1>2. /\ Head(queue) \in Due(generation) /\ Head(queue).kind = "sync"
      /\ Tail(queue) \in Seq(Due(generation))
  BY <1>1, NextIsDue DEF StartSync
<1>3. Head(queue).gen \in 1..MaxGeneration /\ Head(queue).gen <= generation
  BY <1>2 DEF Due, Op
<1>4. url \in URL
  BY <1>1, <1>3, ConstantsAssumption DEF IInv, Registration
<1>5. run' \in Run /\ run'.gen = Head(queue).gen /\ run'.url = url /\ run'.at = None
  BY <1>3, <1>4 DEF StartSync, Run, EmptyLock, LockFile
<1>6. Current' /\ Awaiting'
  BY <1>1, <1>3, <1>5 DEF Current, Awaiting
<1>7. Queued'
  BY <1>1, <1>2 DEF Queued
<1>8. Registration' /\ Recorded'
  BY <1>1 DEF IInv, Registration, Recorded, diskVars
<1>9. Flags'
  BY <1>1 DEF StartSync, IInv, Flags
<1>. QED
  BY <1>6, <1>7, <1>8, <1>9 DEF IInv

-----------------------------------------------------------------------------
(***************************************************************************)
(* The run.                                                                *)
(***************************************************************************)
LEMMA FetchStep ==
  ASSUME IInv, FetchFails \/ \E items \in SUBSET Item : FetchOk(items)
  PROVE  IInv'
<1>1. ASSUME EndRun, run # None,
             UNCHANGED <<server, auto, url, generation, manifest, fastMode, diskVars,
                         historyVars>>
      PROVE  IInv'
  <2>1. /\ Queued' /\ Current' /\ Awaiting'
        /\ loop' \in {"idle", "running", "ending"} /\ syncRequested' \in BOOLEAN
    BY <1>1, EndRunKeeps
  <2>2. Flags' /\ Registration' /\ Recorded'
    BY <1>1, <2>1 DEF IInv, Flags, Registration, Recorded, diskVars, historyVars
  <2>. QED BY <2>1, <2>2 DEF IInv
<1>2. CASE FetchFails
  BY <1>1, <1>2 DEF FetchFails
<1>3. ASSUME NEW items \in SUBSET Item, FetchOk(items) PROVE IInv'
  <2>1. /\ run # None /\ run \in Run
        /\ UNCHANGED <<server, auto, url, generation, savedUrl, foreign, consented,
                       granted, unsynced>>
    BY <1>3 DEF FetchOk, IInv, Current
  <2>2. CASE run.gen # generation
    BY <1>1, <1>3, <2>1, <2>2 DEF FetchOk, diskVars, historyVars
  <2>3. CASE run.gen = generation
    <3> DEFINE r == [run EXCEPT !.want = items, !.todo = items, !.mem = lock]
    <3>1. Proceed(r, lock, tree) /\ manifest' = items
      BY <1>3, <2>3 DEF FetchOk
    <3>2. r \in Run /\ r.gen = run.gen /\ r.url = run.url /\ r.mem = lock
      BY <2>1 DEF Run, IInv, Recorded
    <3> HIDE DEF r
    <3>3. CanProceed(r, lock, tree)
      BY <2>1, <3>2 DEF CanProceed, Mirrors, IInv, Current, Recorded
    <3>. QED
      BY <2>1, <3>1, <3>3, ProceedKeeps DEF IInv, Recorded
  <2>. QED BY <2>2, <2>3
<1>. QED
  BY <1>2, <1>3

\* While an item is awaited the run itself can go on with its copy, whichever
\* of the two lockfiles is on disk; the grant the item carried is spent.
LEMMA AwaitedCanProceed ==
  ASSUME IInv, AtItem, Tried, consented' = consented, NEW l \in {lock, run.mem}
  PROVE  CanProceed(run, l, tree) /\ granted' \in SUBSET ConfigItem
<1>1. /\ run \in Run /\ run.mem \in LockFile /\ lock \in LockFile /\ Mirrors(run.mem, lock)
      /\ run.mem.approved \subseteq consented
      /\ run.at \notin run.mem.adopted
  BY DEF AtItem, IInv, Current, Recorded, Awaiting, Run
<1>2. /\ l \in LockFile /\ Mirrors(run.mem, l) /\ l.installed = lock.installed
      /\ l.revoked = lock.revoked /\ l.adopted = lock.adopted
      /\ l.approved \cup run.mem.approved \subseteq consented
  BY <1>1 DEF Mirrors, IInv, Recorded
<1>3. granted' \in SUBSET ConfigItem /\ lock.adopted \subseteq granted'
  BY <1>1 DEF Tried, Mirrors, IInv, Recorded
<1>. QED
  BY <1>1, <1>2, <1>3 DEF CanProceed, IInv, Current, Recorded, AtItem

LEMMA ItemLeftStep ==
  ASSUME IInv, ItemUnchanged \/ ItemFails
  PROVE  IInv'
<1>1. /\ AtItem /\ Tried
      /\ UNCHANGED <<server, auto, url, generation, manifest, savedUrl, foreign,
                     consented, unsynced>>
  BY DEF ItemUnchanged, ItemFails
<1>2. PICK l \in {lock, run.mem} : Proceed(run, l, tree)
  <2>1. CASE ItemFails
    BY <2>1 DEF ItemFails
  <2>2. CASE ItemUnchanged
    BY <2>2 DEF ItemUnchanged
  <2>. QED BY <2>1, <2>2
<1>3. CanProceed(run, l, tree) /\ granted' \in SUBSET ConfigItem
  BY <1>1, AwaitedCanProceed
<1>. QED
  BY <1>1, <1>2, <1>3, ProceedKeeps DEF IInv, Recorded, AtItem

LEMMA ItemInstalledStep ==
  ASSUME IInv, ItemInstalled
  PROVE  IInv'
<1> DEFINE i == run.at
           owned == [run.mem EXCEPT !.installed = @ \cup {i}]
           mem == [owned EXCEPT !.approved = @ \cup {i}]
           r == [run EXCEPT !.mem = mem]
<1>1. /\ AtItem /\ Tried /\ run.gen = generation
      /\ Proceed(r, owned, tree \cup {i})
      /\ foreign' = foreign \ {i} /\ consented' = consented \cup {i}
      /\ UNCHANGED <<server, auto, url, generation, manifest, savedUrl, unsynced>>
  BY DEF ItemInstalled
<1>2. /\ run # None /\ run \in Run /\ run.mem \in LockFile /\ lock \in LockFile
      /\ i \in Item /\ i \notin run.mem.adopted
      /\ Mirrors(run.mem, lock) /\ run.mem.approved \subseteq consented
  BY <1>1 DEF AtItem, IInv, Current, Recorded, Awaiting, Run
<1>3. /\ owned \in LockFile /\ owned.installed = lock.installed \cup {i}
      /\ owned.approved = run.mem.approved
      /\ owned.revoked = lock.revoked /\ owned.adopted = lock.adopted
  BY <1>2 DEF LockFile, Mirrors
<1> HIDE DEF owned
<1>4. /\ mem \in LockFile /\ mem.approved = run.mem.approved \cup {i}
      /\ Mirrors(mem, owned)
  BY <1>2, <1>3 DEF LockFile, Mirrors
<1> HIDE DEF mem
<1>5. r \in Run /\ r.gen = run.gen /\ r.url = run.url /\ r.mem = mem
  BY <1>2, <1>4 DEF Run
<1> HIDE DEF r, i
<1>6. granted' \in SUBSET ConfigItem /\ lock.adopted \subseteq granted'
  BY <1>1, <1>2 DEF Tried, Mirrors, IInv, Recorded, i
<1>7. consented' \in SUBSET Item /\ foreign' \in SUBSET Item
  BY <1>1, <1>2 DEF IInv, Recorded
<1>8. CanProceed(r, owned, tree \cup {i})
  <2>1. r.gen <= generation /\ (r.gen = generation => r.url = url)
    BY <1>2, <1>5 DEF IInv, Current
  <2>2. tree \cup {i} \subseteq owned.installed /\ deleted \subseteq owned.revoked
        /\ owned.adopted \subseteq granted'
    BY <1>3, <1>6 DEF IInv, Recorded
  <2>3. owned.approved \cup owned.installed \cup r.mem.approved \subseteq consented'
    BY <1>1, <1>2, <1>3, <1>4, <1>5 DEF IInv, Recorded
  <2>. QED BY <1>3, <1>4, <1>5, <2>1, <2>2, <2>3 DEF CanProceed
<1>. QED
  BY <1>1, <1>2, <1>6, <1>7, <1>8, ProceedKeeps

LEMMA ItemSupersededStep ==
  ASSUME IInv, ItemSuperseded
  PROVE  IInv'
<1>1. /\ AtItem /\ Tried /\ EndRun /\ lock' \in {lock, run.mem}
      /\ UNCHANGED <<server, auto, url, generation, manifest, fastMode, savedUrl,
                     tree, foreign, consented, deleted, unsynced>>
  BY DEF ItemSuperseded
<1>2. /\ Queued' /\ Current' /\ Awaiting'
      /\ loop' \in {"idle", "running", "ending"} /\ syncRequested' \in BOOLEAN
  BY <1>1, EndRunKeeps DEF AtItem
<1>3. CanProceed(run, lock', tree) /\ granted' \in SUBSET ConfigItem
  BY <1>1, AwaitedCanProceed
<1>4. Recorded'
  BY <1>1, <1>3 DEF CanProceed, IInv, Recorded
<1>5. Flags' /\ Registration'
  BY <1>1, <1>2 DEF IInv, Flags, Registration
<1>. QED
  BY <1>2, <1>4, <1>5 DEF IInv

-----------------------------------------------------------------------------
(***************************************************************************)
(* The process and the user.                                               *)
(***************************************************************************)
LEMMA StartStep ==
  ASSUME IInv, Start
  PROVE  IInv'
<1> DEFINE u == IF Pinned # None THEN Pinned ELSE savedUrl
<1>1. /\ server' = "up" /\ auto' \in BOOLEAN /\ Booted(u)
      /\ UNCHANGED <<diskVars, consented, deleted, granted>>
  BY DEF Start
<1>2. u \in URL \cup {None}
  BY ConstantsAssumption DEF IInv, Registration
<1> HIDE DEF u
<1>3. url' = u /\ generation' = (IF u = None THEN 0 ELSE 1)
  BY <1>1 DEF Booted
<1>4. Flags' /\ Current' /\ Awaiting'
  BY <1>1 DEF Booted, Flags, Current, Awaiting
<1>5. Registration'
  BY <1>1, <1>2, <1>3, ConstantsAssumption DEF Booted, IInv, Registration, diskVars
<1>6. Queued'
  <2>1. CASE u = None
    BY <1>1, <2>1 DEF Booted, Queued
  <2>2. CASE u # None
    <3>1. 1 \in 1..MaxGeneration
      BY ConstantsAssumption
    <3>2. Sync(1) \in Due(1)
      BY <3>1, SyncIsDue
    <3>. QED BY <1>1, <1>3, <2>2, <3>2 DEF Booted, Queued
  <2>. QED BY <2>1, <2>2
<1>7. Recorded'
  BY <1>1 DEF IInv, Recorded, diskVars
<1>. QED
  BY <1>4, <1>5, <1>6, <1>7 DEF IInv

LEMMA StopStep ==
  ASSUME IInv, ShutdownEnds \/ Crash
  PROVE  IInv'
<1>1. /\ ForgetMemory /\ server' = "down"
      /\ UNCHANGED <<auto, diskVars, consented, deleted>>
  BY DEF ShutdownEnds, Crash
<1>2. /\ granted' \in SUBSET ConfigItem /\ lock.adopted \subseteq granted'
  <2>1. CASE granted' = granted
    BY <2>1 DEF IInv, Recorded
  <2>2. CASE run # None /\ granted' = granted \ {run.at}
    <3>1. run.at = None \/ run.at \notin lock.adopted
      BY <2>2 DEF IInv, Awaiting, Mirrors
    <3>2. None \notin lock.adopted
      BY ConstantsAssumption DEF IInv, Recorded, LockFile
    <3>. QED BY <2>2, <3>1, <3>2 DEF IInv, Recorded
  <2>. QED BY <2>1, <2>2 DEF ShutdownEnds, Crash
<1>3. Recorded'
  BY <1>1, <1>2 DEF IInv, Recorded, diskVars
<1>4. Flags' /\ Current' /\ Awaiting'
  BY <1>1 DEF ForgetMemory, IInv, Flags, Current, Awaiting
<1>5. Registration'
  <2>1. 0 \in 0..MaxGeneration
    BY ConstantsAssumption
  <2>. QED BY <1>1, <2>1 DEF ForgetMemory, IInv, Registration, diskVars
<1>6. Queued'
  BY <1>1 DEF ForgetMemory, Queued
<1>. QED
  BY <1>3, <1>4, <1>5, <1>6 DEF IInv

LEMMA QuietStep ==
  ASSUME IInv, LoopEnds \/ ShutdownBegins \/ UNCHANGED vars
  PROVE  IInv'
<1>1. /\ UNCHANGED <<auto, url, generation, manifest, syncRequested, queue, run, fastMode,
                     diskVars, historyVars>>
      /\ server' \in {server, "stopping"} /\ loop' \in {loop, "idle"}
  BY DEF LoopEnds, ShutdownBegins, vars, memoryVars
<1>2. Registration' /\ Queued' /\ Current' /\ Recorded' /\ Awaiting'
  BY <1>1 DEF IInv, Registration, Queued, Current, Recorded, Awaiting, diskVars, historyVars
<1>3. Flags'
  BY <1>1 DEF IInv, Flags, historyVars
<1>. QED
  BY <1>2, <1>3 DEF IInv

LEMMA UserStep ==
  ASSUME IInv, NEW i \in Item, UserDrifts(i) \/ UserWrites(i)
  PROVE  IInv'
<1>1. /\ UNCHANGED <<server, auto, memoryVars, lock, savedUrl, historyVars>>
      /\ tree' \subseteq tree /\ foreign' \in SUBSET Item
  BY DEF UserDrifts, UserWrites, IInv, Recorded
<1>2. Flags' /\ Registration' /\ Queued' /\ Current' /\ Awaiting'
  BY <1>1 DEF IInv, Flags, Registration, Queued, Current, Awaiting, memoryVars, historyVars
<1>3. Recorded'
  BY <1>1 DEF IInv, Recorded, historyVars
<1>. QED
  BY <1>2, <1>3 DEF IInv

-----------------------------------------------------------------------------
LEMMA InitEstablishes == Init => IInv
<1> SUFFICES ASSUME Init PROVE IInv
  OBVIOUS
<1>1. Flags /\ Current /\ Awaiting
  BY DEF Init, Flags, Current, Awaiting
<1>2. Registration
  <2>1. 0 \in 0..MaxGeneration
    BY ConstantsAssumption
  <2>. QED BY <2>1 DEF Init, Registration
<1>3. Queued /\ Recorded
  BY DEF Init, Queued, Recorded, EmptyLock, LockFile
<1>. QED
  BY <1>1, <1>2, <1>3 DEF IInv

LEMMA StepPreserves == IInv /\ [Next]_vars => IInv'
<1> SUFFICES ASSUME IInv, [Next]_vars PROVE IInv'
  OBVIOUS
<1>1. ASSUME NEW u \in URL, RegisterAndSync(u) PROVE IInv'
  BY <1>1, RegisterAndSyncStep
<1>2. CASE \/ RequestSync
           \/ \E i \in Item, adopt \in BOOLEAN : RequestApprove(i, adopt)
           \/ \E i \in Item : RequestDelete(i)
  BY <1>2, RequestStep
<1>3. CASE ExecApprove \/ ExecDelete \/ StartSync
  BY <1>3, ExecApproveStep, ExecDeleteStep, StartSyncStep
<1>4. CASE FetchFails \/ \E items \in SUBSET Item : FetchOk(items)
  BY <1>4, FetchStep
<1>5. CASE ItemUnchanged \/ ItemFails \/ ItemInstalled \/ ItemSuperseded
  BY <1>5, ItemLeftStep, ItemInstalledStep, ItemSupersededStep
<1>6. CASE Start \/ ShutdownEnds \/ Crash
  BY <1>6, StartStep, StopStep
<1>7. CASE LoopEnds \/ ShutdownBegins \/ UNCHANGED vars
  BY <1>7, QuietStep
<1>8. ASSUME NEW i \in Item, UserDrifts(i) \/ UserWrites(i) PROVE IInv'
  BY <1>8, UserStep
<1>. QED
  BY <1>1, <1>2, <1>3, <1>4, <1>5, <1>6, <1>7, <1>8 DEF Next

LEMMA Invariance == Spec => []IInv
BY InitEstablishes, StepPreserves, PTL DEF Spec

\* Managed files exist only under a lockfile record, wherever the process dies
\* (beforeCommit saves the lockfile before an item's files appear, and a
\* removal saves it after).
THEOREM FilesAreOwned == Spec => []OwnedOnDisk
BY Invariance, InvariantImplies, PTL

-----------------------------------------------------------------------------
(***************************************************************************)
(* The action properties: only one step makes files appear, and only there *)
(* is content of others replaced.                                          *)
(***************************************************************************)
LEMMA ProceedKeepsFiles ==
  ASSUME NEW r, NEW l, NEW t, Proceed(r, l, t)
  PROVE  tree' \subseteq t
BY DEF Proceed, Park, Finish

\* Files appear, or foreign content goes, only when the artifact of the
\* awaited item has arrived and the run is still the present one.
LEMMA OnlyInstallsCreate ==
  ASSUME [Next]_vars, ~(tree' \subseteq tree /\ foreign \subseteq foreign')
  PROVE  ItemInstalled
<1>1. CASE FetchFails \/ \E items \in SUBSET Item : FetchOk(items)
  BY <1>1, ProceedKeepsFiles DEF FetchFails, FetchOk, diskVars
<1>2. CASE ItemUnchanged \/ ItemFails
  BY <1>2, ProceedKeepsFiles DEF ItemUnchanged, ItemFails
<1>3. CASE \/ \E u \in URL : RegisterAndSync(u)
           \/ RequestSync
           \/ \E i \in Item, adopt \in BOOLEAN : RequestApprove(i, adopt)
           \/ \E i \in Item : RequestDelete(i)
           \/ ExecApprove \/ ExecDelete \/ StartSync
  BY <1>3 DEF RegisterAndSync, RequestSync, RequestApprove, RequestDelete, ExecApprove,
              ExecDelete, StartSync, diskVars
<1>4. CASE \/ ItemSuperseded \/ LoopEnds \/ Start \/ ShutdownBegins \/ ShutdownEnds
           \/ Crash \/ UNCHANGED vars
  BY <1>4 DEF ItemSuperseded, LoopEnds, Start, ShutdownBegins, ShutdownEnds, Crash, vars,
              diskVars
<1>5. CASE \E i \in Item : UserDrifts(i) \/ UserWrites(i)
  BY <1>5 DEF UserDrifts, UserWrites
<1>. QED
  BY <1>1, <1>2, <1>3, <1>4, <1>5 DEF Next

\* What such a step may touch, and the authority it has.
LEMMA InstallsWithAuthority ==
  ASSUME IInv, ItemInstalled
  PROVE  /\ tree' \subseteq tree \cup {run.at} /\ foreign \ foreign' \subseteq {run.at}
         /\ auto \/ run.at \in consented
         /\ run.at \notin deleted
         /\ run.url = url
         /\ run.at \in foreign => run.at \in granted
<1>1. AtItem /\ run.gen = generation
  BY DEF ItemInstalled
<1>2. tree' \subseteq tree \cup {run.at} /\ foreign' = foreign \ {run.at}
  BY ProceedKeepsFiles DEF ItemInstalled
<1>3. run.at \in foreign => run.adopt
  BY DEF ItemInstalled
<1>. QED
  BY <1>1, <1>2, <1>3 DEF AtItem, IInv, Current, Recorded, Awaiting, Mirrors

\* Outside auto mode files appear only for a name the operator approved, or
\* that auto mode once installed, and has not DELETEd since (runSync() against
\* approveItem() and deleteItem()).
THEOREM InstallsAreConsented == Spec => ConsentedInstalls
<1>1. IInv /\ [Next]_vars => [\A i \in tree' \ tree : auto \/ i \in consented]_vars
  BY OnlyInstallsCreate, InstallsWithAuthority
<1>. QED
  BY <1>1, Invariance, PTL DEF Spec, ConsentedInstalls

\* No run brings back a DELETEd item while manifests keep listing it, not even
\* one that read the lockfile before (sync.ts:3019).
THEOREM DeletesStand == Spec => DeleteIsNotUndone
<1>1. IInv /\ [Next]_vars => [\A i \in tree' \ tree : i \notin deleted]_vars
  BY OnlyInstallsCreate, InstallsWithAuthority
<1>. QED
  BY <1>1, Invariance, PTL DEF Spec, DeleteIsNotUndone

\* Files come from the URL registered when they appear: beforeMutation asks
\* for the generation, and a run of the present one fetched from that URL.
THEOREM InstallsFromRegistered == Spec => InstalledFromRegistered
<1>1. IInv /\ [Next]_vars => [tree' \subseteq tree \/ run.url = url]_vars
  BY OnlyInstallsCreate, InstallsWithAuthority
<1>. QED
  BY <1>1, Invariance, PTL DEF Spec, InstalledFromRegistered

\* Foreign content is replaced under a grant nobody has used before, also when
\* an earlier attempt was cut short by a crash (sync.ts:2503-2504).
THEOREM AdoptionsAreOneShot == Spec => AdoptionIsOneShot
<1>1. IInv /\ [Next]_vars => [\A i \in foreign \ foreign' : i \in granted]_vars
  BY OnlyInstallsCreate, InstallsWithAuthority
<1>. QED
  BY <1>1, Invariance, PTL DEF Spec, AdoptionIsOneShot

=============================================================================
