------------------------- MODULE ConfigInstall_proofs -------------------------
(***************************************************************************)
(* The safety properties of ConfigInstall for every set of versions and    *)
(* every bound on files, directories and faults.                           *)
(***************************************************************************)
EXTENDS ConfigInstall, TLAPS

(***************************************************************************)
(* The inductive invariant.                                                *)
(***************************************************************************)
\* Files are inodes in use, each under one name of one directory; only names
\* in use are taken.  A directory that does not exist yet is empty.  Under its
\* own name an inode is a candidate, which no user edits.
FilesInv ==
  /\ \A d \in 1..MaxDir, n \in Name :
       /\ file[d][n] <= inodes
       /\ file[d][n] # 0 => d <= dir /\ n <= inodes
       /\ n # Config /\ file[d][n] = n => bytes[n] # "user"
  /\ \A d, e \in 1..MaxDir : \A n, m \in Name :
       file[d][n] # 0 /\ file[d][n] = file[e][m] => d = e /\ n = m

Secret(n) == At(n) # 0 /\ bytes[At(n)] \in Version

\* What SecretsAreRecorded says of the lockfile, of any record.
Records(record) ==
  \A n \in Name :
    Secret(n) => record # None /\ (n = Config \/ record.inode = At(n))

\* A journal names a file that was created in its directory, a stable record
\* none.  During a first install that file is the only one with credentials,
\* those it was to have.
JournalInv(record) ==
  /\ record # None /\ record.status = "stable" => record.inode = 0
  /\ Journaled(record) =>
       /\ record.inode \in 1..inodes
       /\ record.status = "pending" => record.next \in Version
       /\ record.status = "uncommitted" =>
            /\ bytes[record.inode] \in {record.hash, "empty", "user"}
            /\ \A n \in Name : Secret(n) => At(n) = record.inode
            /\ \A d \in 1..MaxDir, n \in Name :
                 file[d][n] = record.inode => d = record.dir

Preparing == {"install", "reserve", "commit"}
Committed == {"write", "publish", "finish", "resolve"}

\* What a run knows in each of its steps, before its journal is on disk and
\* after.
RunInv ==
  /\ pc = "idle" => mem = None
  /\ pc # "idle" => Records(mem)
  /\ pc = "remove" => mem # None
  /\ pc \in Preparing => ~Journaled(mem)
  /\ pc \in Preparing \cup Committed => goal \in Version
  /\ pc \in (Preparing \cup Committed) \ {"install"} => opened \in 1..dir
  /\ pc \in Committed =>
       /\ mem = lock /\ Journaled(mem)
       /\ mem.inode = cand /\ mem.dir = opened
       /\ mem.status = "uncommitted" => mem.hash = goal

\* Where the candidate can be: under its own name until it is published.
CandidateInv ==
  pc \in Committed \cup {"commit"} =>
    /\ cand \in 1..inodes
    /\ \A d \in 1..MaxDir, n \in Name :
         file[d][n] = cand =>
           /\ d = opened
           /\ n = cand \/ (n = Config /\ pc = "finish")
    /\ pc = "commit" => bytes[cand] = "empty"
    /\ pc = "finish" => file[opened][cand] = 0

IInv ==
  /\ TypeOK /\ FilesInv /\ RunInv /\ CandidateInv
  /\ Records(lock) /\ JournalInv(lock) /\ JournalInv(mem)

-----------------------------------------------------------------------------
(***************************************************************************)
(* Types.                                                                  *)
(***************************************************************************)
LEMMA Typed ==
  ASSUME TypeOK
  PROVE  /\ lock \in Record \cup {None} /\ mem \in Record \cup {None}
         /\ dir \in 0..MaxDir /\ opened \in 0..MaxDir /\ cand \in Name /\ inodes \in Name
         /\ inodes \in Nat
         /\ \A d \in 1..MaxDir, n \in Name : file[d][n] \in Name
         /\ \A n \in Name : At(n) \in Name
         /\ \A k \in Inode : bytes[k] \in Bytes
<1>1. 0 \in Name
  BY ConfigAssumption DEF Name
<1>2. inodes \in Nat
  BY ConfigAssumption DEF TypeOK, Name
<1>. QED
  BY <1>1, <1>2, ConfigAssumption DEF TypeOK, At

LEMMA Numbers ==
  /\ MaxInode \in Nat /\ MaxDir \in Nat /\ 0 \in Name /\ Config \in Name /\ Config = 0
  /\ Inode \subseteq Name /\ \A n \in Name : n \in Nat /\ (n # 0 => n \in Inode)
  /\ 0 \in 0..MaxDir
BY ConfigAssumption DEF Name, Inode, Config

\* Versions are bytes of their own.
LEMMA Versions ==
  /\ "user" \notin Version /\ "empty" \notin Version
  /\ None \notin Version /\ None \notin Record
  /\ Version \subseteq Bytes /\ "user" \in Bytes /\ "empty" \in Bytes
BY ConfigAssumption DEF Bytes

LEMMA RecordTypes ==
  ASSUME NEW v \in Version, NEW w \in Version, NEW d \in 0..MaxDir, NEW k \in Name
  PROVE  /\ Stable(v) \in Record /\ ~Journaled(Stable(v)) /\ Stable(v).inode = 0
         /\ FirstJournal(v, d, k) \in Record
         /\ UpgradeJournal(v, w, d, k) \in Record
BY Numbers DEF Stable, FirstJournal, UpgradeJournal, Record, Journaled

-----------------------------------------------------------------------------
(***************************************************************************)
(* The directory between two records.                                      *)
(***************************************************************************)
\* No credentials appear, no file gets a new place, no file in use new bytes
\* other than a user's or none.
Undisturbed ==
  /\ \A n \in Name : Secret(n)' => Secret(n) /\ At(n)' = At(n)
  /\ \A d \in 1..MaxDir, n \in Name : \A k \in 1..inodes :
       file'[d][n] = k => file[d][n] = k
  /\ \A k \in 1..inodes : bytes'[k] \in {bytes[k], "empty", "user"}
  /\ inodes \in Nat /\ inodes' \in Nat /\ inodes <= inodes'

LEMMA LockUndisturbed ==
  ASSUME Undisturbed, UNCHANGED lock, Records(lock), JournalInv(lock)
  PROVE  Records(lock)' /\ JournalInv(lock)'
<1>1. Records(lock)'
  BY DEF Undisturbed, Records
<1>2. ASSUME Journaled(lock)
      PROVE  /\ lock.inode \in 1..inodes'
             /\ lock.status = "pending" => lock.next \in Version
  BY <1>2 DEF Undisturbed, JournalInv
<1>3. ASSUME Journaled(lock), lock.status = "uncommitted"
      PROVE  /\ bytes'[lock.inode] \in {lock.hash, "empty", "user"}
             /\ \A n \in Name : Secret(n)' => At(n)' = lock.inode
             /\ \A d \in 1..MaxDir, n \in Name :
                  file'[d][n] = lock.inode => d = lock.dir
  BY <1>3 DEF Undisturbed, JournalInv
<1>. QED
  BY <1>1, <1>2, <1>3 DEF JournalInv, Journaled

LEMMA MemUndisturbed ==
  ASSUME Undisturbed, UNCHANGED mem, JournalInv(mem)
  PROVE  JournalInv(mem)' /\ (Records(mem) => Records(mem)')
<1>1. Records(mem) => Records(mem)'
  BY DEF Undisturbed, Records
<1>2. ASSUME Journaled(mem)
      PROVE  /\ mem.inode \in 1..inodes'
             /\ mem.status = "pending" => mem.next \in Version
  BY <1>2 DEF Undisturbed, JournalInv
<1>3. ASSUME Journaled(mem), mem.status = "uncommitted"
      PROVE  /\ bytes'[mem.inode] \in {mem.hash, "empty", "user"}
             /\ \A n \in Name : Secret(n)' => At(n)' = mem.inode
             /\ \A d \in 1..MaxDir, n \in Name :
                  file'[d][n] = mem.inode => d = mem.dir
  BY <1>3 DEF Undisturbed, JournalInv
<1>. QED
  BY <1>1, <1>2, <1>3 DEF JournalInv, Journaled

\* A record that takes the place of one it agrees with.
LEMMA LockFromMem ==
  ASSUME lock' = mem', Records(mem)', JournalInv(mem)'
  PROVE  Records(lock)' /\ JournalInv(lock)'
BY DEF Records, JournalInv, Journaled

LEMMA MemForgotten ==
  ASSUME mem' = None
  PROVE  JournalInv(mem)'
BY DEF JournalInv, Journaled

-----------------------------------------------------------------------------
(***************************************************************************)
(* Resolving the journal on disk.                                          *)
(***************************************************************************)
\* A resolved journal erases its candidate, under the name of its own.
LEMMA ErasesCandidate ==
  ASSUME TypeOK, FilesInv, JournalInv(lock), Erases(lock)
  PROVE  /\ dir # 0 /\ lock.inode \in Inode /\ file[dir][lock.inode] = lock.inode
         /\ Erased(lock) = [bytes EXCEPT ![lock.inode] = "empty"]
         /\ bytes[lock.inode] # "user"
<1>1. Journaled(lock) /\ Discardable(lock)
  BY DEF Erases
<1>2. lock.inode \in 1..inodes /\ dir = lock.dir /\ At(lock.inode) = lock.inode
  BY <1>1 DEF JournalInv, Discardable
<1>3. lock.inode \in Inode /\ lock.inode # 0 /\ lock.inode # Config
  BY <1>2, Typed, Numbers DEF Name, Inode
<1>4. dir # 0 /\ dir \in 1..MaxDir /\ file[dir][lock.inode] = lock.inode
  BY <1>2, <1>3, Typed, Numbers DEF At
<1>. QED
  BY <1>2, <1>3, <1>4, Numbers DEF Erased, FilesInv

LEMMA ErasureUndisturbs ==
  ASSUME TypeOK, FilesInv, JournalInv(lock), UNCHANGED <<dir, file, inodes>>,
         bytes' = Erased(lock)
  PROVE  Undisturbed /\ FilesInv' /\ bytes' \in [Inode -> Bytes]
<1>1. CASE ~Erases(lock)
  <2>1. bytes' = bytes
    BY <1>1 DEF Erased
  <2>. QED BY <2>1, Typed, Numbers DEF Undisturbed, FilesInv, Secret, At, TypeOK
<1>2. CASE Erases(lock)
  <2> DEFINE k == lock.inode
  <2>1. bytes' = [bytes EXCEPT ![k] = "empty"] /\ k \in Inode
    BY <1>2, ErasesCandidate
  <2> HIDE DEF k
  <2>2. /\ \A j \in Inode : bytes'[j] = IF j = k THEN "empty" ELSE bytes[j]
        /\ bytes' \in [Inode -> Bytes]
    BY <2>1, Versions DEF TypeOK
  <2>3. \A n \in Name : At(n)' = At(n) /\ At(n) \in Name
    BY Typed DEF At
  <2>4. \A n \in Name : Secret(n)' => Secret(n)
    BY <2>2, <2>3, Numbers, Versions DEF Secret
  <2>5. \A j \in 1..inodes : bytes'[j] \in {bytes[j], "empty", "user"}
    BY <2>2, Typed, Numbers DEF Name, Inode
  <2>6. inodes \in Nat
    BY Typed, Numbers
  <2>7. Undisturbed
    BY <2>3, <2>4, <2>5, <2>6 DEF Undisturbed
  <2>8. \A n \in Name : n # Config /\ bytes[n] # "user" => bytes'[n] # "user"
    BY <2>2, Numbers
  <2>9. FilesInv'
    BY <2>8 DEF FilesInv
  <2>. QED BY <2>2, <2>7, <2>9
<1>. QED
  BY <1>1, <1>2

\* What the journal on disk resolves to has all credentials on record.
LEMMA ReconciledRecords ==
  ASSUME TypeOK, FilesInv, Records(lock), JournalInv(lock),
         UNCHANGED <<dir, file, inodes>>, bytes' = Erased(lock), mem' = Reconciled(lock)
  PROVE  mem' \in Record \cup {None} /\ Records(mem)' /\ JournalInv(mem)'
<1>1. lock \in Record \cup {None} /\ Undisturbed
  BY Typed, ErasureUndisturbs
<1>2. ASSUME mem' = lock PROVE mem' \in Record \cup {None} /\ Records(mem)' /\ JournalInv(mem)'
  <2>1. Records(mem)'
    BY <1>1, <1>2 DEF Undisturbed, Records
  <2>2. ASSUME Journaled(lock)
        PROVE  /\ lock.inode \in 1..inodes'
               /\ lock.status = "pending" => lock.next \in Version
    BY <2>2, <1>1 DEF Undisturbed, JournalInv
  <2>3. ASSUME Journaled(lock), lock.status = "uncommitted"
        PROVE  /\ bytes'[lock.inode] \in {lock.hash, "empty", "user"}
               /\ \A n \in Name : Secret(n)' => At(n)' = lock.inode
               /\ \A d \in 1..MaxDir, n \in Name :
                    file'[d][n] = lock.inode => d = lock.dir
    BY <2>3, <1>1 DEF Undisturbed, JournalInv
  <2>4. JournalInv(mem)'
    BY <1>2, <2>2, <2>3 DEF JournalInv, Journaled
  <2>. QED BY <1>1, <1>2, <2>1, <2>4
<1>3. ASSUME NEW v \in Version, mem' = Stable(v),
             \A n \in Name : Secret(n)' => n = Config
      PROVE  mem' \in Record \cup {None} /\ Records(mem)' /\ JournalInv(mem)'
  <2>1. /\ Stable(v) \in Record /\ Stable(v) # None
        /\ ~Journaled(Stable(v)) /\ Stable(v).inode = 0
    BY RecordTypes, Numbers, Versions
  <2>. QED BY <1>3, <2>1 DEF Records, JournalInv, Journaled
<1>4. CASE ~Journaled(lock)
  BY <1>2, <1>4 DEF Reconciled
<1>5. ASSUME Journaled(lock), dir = lock.dir, At(Config) = lock.inode
      PROVE  \A n \in Name : Secret(n)' => n = Config
  <2>1. lock.inode \in Nat \ {0} /\ dir \in 1..MaxDir
    BY <1>5, Typed, Numbers DEF JournalInv, At, Name
  <2> SUFFICES ASSUME NEW n \in Name, Secret(n), n # Config PROVE FALSE
    BY <1>1 DEF Undisturbed
  <2>2. At(n) = lock.inode
    BY <1>5 DEF Records
  <2>3. file[dir][n] = file[dir][Config] /\ file[dir][n] # 0
    BY <1>5, <2>1, <2>2, Numbers DEF At
  <2>. QED BY <2>1, <2>3, Numbers DEF FilesInv
<1>6. ASSUME Journaled(lock), Erases(lock)
      PROVE  \A n \in Name : ~(Secret(n)' /\ At(n) = lock.inode)
  <2>1. bytes' = [bytes EXCEPT ![lock.inode] = "empty"] /\ lock.inode \in Inode
    BY <1>6, ErasesCandidate
  <2>2. bytes'[lock.inode] = "empty"
    BY <2>1 DEF TypeOK
  <2>. QED BY <2>2, Versions DEF Secret, At
<1>7. CASE Journaled(lock) /\ lock.status = "uncommitted"
  <2>1. lock.hash \in Version
    BY <1>1, <1>7 DEF Journaled, Record
  <2>2. CASE Published(lock, lock.hash)
    <3>1. mem' = Stable(lock.hash)
      BY <1>7, <2>2 DEF Reconciled, FirstReconciled
    <3>. QED BY <1>3, <1>5, <1>7, <2>1, <2>2, <3>1 DEF Published
  <2>3. CASE ~Published(lock, lock.hash) /\ Discardable(lock)
    <3>1. mem' = None /\ Erases(lock)
      BY <1>7, <2>3 DEF Reconciled, FirstReconciled, Erases
    <3>2. \A n \in Name : ~Secret(n)'
      BY <1>1, <1>6, <1>7, <3>1 DEF Undisturbed, JournalInv
    <3>. QED BY <3>1, <3>2 DEF Records, JournalInv, Journaled
  <2>4. CASE ~Published(lock, lock.hash) /\ ~Discardable(lock)
    BY <1>2, <1>7, <2>4 DEF Reconciled, FirstReconciled
  <2>. QED BY <2>2, <2>3, <2>4
<1>8. CASE Journaled(lock) /\ lock.status # "uncommitted"
  <2>1. lock.hash \in Version /\ lock.next \in Version
    BY <1>1, <1>8 DEF Journaled, Record, JournalInv
  <2>2. CASE Published(lock, lock.next)
    <3>1. mem' = Stable(lock.next)
      BY <1>8, <2>2 DEF Reconciled, UpgradeReconciled
    <3>. QED BY <1>3, <1>5, <1>8, <2>1, <2>2, <3>1 DEF Published
  <2>3. CASE ~Published(lock, lock.next) /\ Holds(lock.hash) /\ Discardable(lock)
    <3>1. mem' = Stable(lock.hash) /\ Erases(lock)
      BY <1>8, <2>3 DEF Reconciled, UpgradeReconciled, Erases
    <3>2. \A n \in Name : Secret(n)' => n = Config
      BY <1>1, <1>6, <1>8, <3>1 DEF Undisturbed, Records
    <3>. QED BY <1>3, <2>1, <3>1, <3>2
  <2>4. CASE ~Published(lock, lock.next) /\ ~(Holds(lock.hash) /\ Discardable(lock))
    BY <1>2, <1>8, <2>4 DEF Reconciled, UpgradeReconciled
  <2>. QED BY <2>2, <2>3, <2>4
<1>. QED
  BY <1>4, <1>7, <1>8

-----------------------------------------------------------------------------
(***************************************************************************)
(* What happens to files.                                                  *)
(***************************************************************************)
LEMMA FileCreated ==
  ASSUME TypeOK, FilesInv, dir # 0, inodes < MaxInode, inodes' = inodes + 1,
         NEW n \in Name, n <= inodes \/ n = inodes', NEW b \in {"user", "empty"},
         n = inodes' => b = "empty",
         file' = [file EXCEPT ![dir][n] = inodes'],
         bytes' = [bytes EXCEPT ![inodes'] = b], UNCHANGED dir
  PROVE  /\ Undisturbed /\ FilesInv'
         /\ file' \in [1..MaxDir -> [Name -> Name]] /\ bytes' \in [Inode -> Bytes]
         /\ inodes' \in Name
         /\ \A d \in 1..MaxDir, m \in Name :
              file'[d][m] = IF d = dir /\ m = n THEN inodes' ELSE file[d][m]
         /\ \A k \in Inode : bytes'[k] = IF k = inodes' THEN b ELSE bytes[k]
<1>1. /\ inodes \in Nat /\ inodes' \in Inode /\ inodes' \in Name /\ dir \in 1..MaxDir
      /\ \A m \in Name : m \in Nat
  BY Typed, Numbers DEF Name, Inode
<1>2. /\ \A d \in 1..MaxDir, m \in Name :
           file'[d][m] = IF d = dir /\ m = n THEN inodes' ELSE file[d][m]
      /\ file' \in [1..MaxDir -> [Name -> Name]]
  BY <1>1 DEF TypeOK
<1>3. /\ \A k \in Inode : bytes'[k] = IF k = inodes' THEN b ELSE bytes[k]
      /\ bytes' \in [Inode -> Bytes]
  BY <1>1, Versions DEF TypeOK
<1>4. \A d \in 1..MaxDir, m \in Name : file[d][m] \in Nat /\ file[d][m] <= inodes
  BY <1>1, Typed DEF FilesInv
<1>5. FilesInv'
  <2>1. \A d \in 1..MaxDir, m \in Name :
          /\ file'[d][m] <= inodes'
          /\ file'[d][m] # 0 => d <= dir' /\ m <= inodes'
    BY <1>1, <1>2, <1>4 DEF FilesInv
  <2>2. ASSUME NEW d \in 1..MaxDir, NEW m \in Name, m # Config, file'[d][m] = m
        PROVE  bytes'[m] # "user"
    <3>1. m \in Inode
      BY <2>2, Numbers
    <3>2. CASE d = dir /\ m = n
      BY <1>2, <1>3, <2>2, <3>1, <3>2
    <3>3. CASE ~(d = dir /\ m = n)
      <4>1. file[d][m] = m /\ m <= inodes
        BY <1>2, <1>4, <2>2, <3>3
      <4>2. m # inodes'
        BY <1>1, <4>1
      <4>. QED BY <1>3, <2>2, <3>1, <4>1, <4>2 DEF FilesInv
    <3>. QED BY <3>2, <3>3
  <2>3. ASSUME NEW d \in 1..MaxDir, NEW e \in 1..MaxDir, NEW m \in Name, NEW o \in Name,
               file'[d][m] # 0, file'[d][m] = file'[e][o]
        PROVE  d = e /\ m = o
    <3>1. file[d][m] # inodes' /\ file[e][o] # inodes'
      BY <1>1, <1>4
    <3>. QED BY <1>2, <2>3, <3>1 DEF FilesInv
  <2>. QED BY <2>1, <2>2, <2>3 DEF FilesInv
<1>6. Undisturbed
  <2>1. \A d \in 1..MaxDir, m \in Name : \A k \in 1..inodes :
          file'[d][m] = k => file[d][m] = k
    BY <1>1, <1>2
  <2>2. \A k \in 1..inodes : k \in Inode /\ k # inodes'
    BY <1>1, Numbers DEF Inode
  <2>3. \A k \in 1..inodes : bytes'[k] = bytes[k]
    BY <1>3, <2>2
  <2>4. ASSUME NEW m \in Name, Secret(m)' PROVE Secret(m) /\ At(m)' = At(m)
    <3>1. At(m)' = file'[dir][m] /\ At(m) = file[dir][m]
      BY <1>1 DEF At
    <3>2. m # n
      <4>1. CASE m = n
        <5>1. bytes'[At(m)'] = b
          BY <1>1, <1>2, <1>3, <3>1, <4>1
        <5>. QED BY <2>4, <5>1, Versions DEF Secret
      <4>. QED BY <4>1
    <3>3. At(m)' = At(m) /\ At(m) \in 1..inodes
      BY <1>1, <1>2, <1>4, <2>4, <3>1, <3>2 DEF Secret
    <3>. QED BY <2>3, <2>4, <3>3 DEF Secret
  <2>. QED BY <1>1, <2>1, <2>3, <2>4 DEF Undisturbed
<1>. QED
  BY <1>1, <1>2, <1>3, <1>5, <1>6

LEMMA FileUnlinked ==
  ASSUME TypeOK, FilesInv, dir # 0, NEW n \in Name,
         file' = [file EXCEPT ![dir][n] = 0], UNCHANGED <<dir, bytes, inodes>>
  PROVE  /\ Undisturbed /\ FilesInv' /\ file' \in [1..MaxDir -> [Name -> Name]]
         /\ \A d \in 1..MaxDir, m \in Name :
              file'[d][m] = IF d = dir /\ m = n THEN 0 ELSE file[d][m]
<1>1. inodes \in Nat /\ dir \in 1..MaxDir
  BY Typed, Numbers
<1>2. /\ \A d \in 1..MaxDir, m \in Name :
           file'[d][m] = IF d = dir /\ m = n THEN 0 ELSE file[d][m]
      /\ file' \in [1..MaxDir -> [Name -> Name]]
  BY <1>1, Numbers DEF TypeOK
<1>3. FilesInv'
  <2>1. \A d \in 1..MaxDir, m \in Name :
          /\ file'[d][m] <= inodes'
          /\ file'[d][m] # 0 => d <= dir' /\ m <= inodes'
          /\ m # Config /\ file'[d][m] = m => bytes'[m] # "user"
    BY <1>1, <1>2, Numbers DEF FilesInv
  <2>2. \A d, e \in 1..MaxDir : \A m, o \in Name :
          file'[d][m] # 0 /\ file'[d][m] = file'[e][o] => d = e /\ m = o
    BY <1>2 DEF FilesInv
  <2>. QED BY <2>1, <2>2 DEF FilesInv
<1>4. Undisturbed
  <2>1. \A m \in Name : At(m)' = (IF m = n THEN 0 ELSE At(m))
    BY <1>1, <1>2 DEF At
  <2>2. \A m \in Name : Secret(m)' => Secret(m) /\ At(m)' = At(m)
    BY <2>1 DEF Secret
  <2>3. \A d \in 1..MaxDir, m \in Name : \A k \in 1..inodes :
          file'[d][m] = k => file[d][m] = k
    BY <1>1, <1>2
  <2>. QED BY <1>1, <2>2, <2>3 DEF Undisturbed
<1>. QED
  BY <1>2, <1>3, <1>4

\* Bytes that are no credentials, into one file in use.
LEMMA BytesReplaced ==
  ASSUME TypeOK, FilesInv, NEW k \in Inode, NEW b \in {"user", "empty"},
         bytes' = [bytes EXCEPT ![k] = b], UNCHANGED <<dir, file, inodes>>,
         b = "user" => \A d \in 1..MaxDir, n \in Name : file[d][n] = k => n = Config
  PROVE  /\ Undisturbed /\ FilesInv' /\ bytes' \in [Inode -> Bytes]
         /\ \A j \in Inode : bytes'[j] = IF j = k THEN b ELSE bytes[j]
<1>1. /\ \A j \in Inode : bytes'[j] = IF j = k THEN b ELSE bytes[j]
      /\ bytes' \in [Inode -> Bytes]
  BY Versions DEF TypeOK
<1>2. \A n \in Name : At(n)' = At(n) /\ At(n) \in Name
  BY Typed DEF At
<1>3. \A n \in Name : Secret(n)' => Secret(n)
  BY <1>1, <1>2, Numbers, Versions DEF Secret
<1>4. \A j \in 1..inodes : bytes'[j] \in {bytes[j], "empty", "user"}
  BY <1>1, Typed, Numbers DEF Name, Inode
<1>5. inodes \in Nat
  BY Typed, Numbers
<1>6. Undisturbed
  BY <1>2, <1>3, <1>4, <1>5 DEF Undisturbed
<1>7. \A d \in 1..MaxDir, n \in Name : n # Config /\ file[d][n] = n => bytes'[n] # "user"
  BY <1>1, Numbers DEF FilesInv
<1>8. FilesInv'
  BY <1>7 DEF FilesInv
<1>. QED
  BY <1>1, <1>6, <1>8

LEMMA CandidateUndisturbed ==
  ASSUME CandidateInv, Undisturbed, UNCHANGED <<pc, cand, opened>>,
         pc = "commit" => bytes'[cand] = "empty",
         pc = "finish" => file'[opened][cand] = 0
  PROVE  CandidateInv'
<1> SUFFICES ASSUME pc \in Committed \cup {"commit"} PROVE CandidateInv'
  BY DEF CandidateInv, Committed
<1>1. /\ cand \in 1..inodes
      /\ \A d \in 1..MaxDir, n \in Name :
           file[d][n] = cand => d = opened /\ (n = cand \/ (n = Config /\ pc = "finish"))
  BY DEF CandidateInv
<1>2. /\ cand' \in 1..inodes'
      /\ \A d \in 1..MaxDir, n \in Name : file'[d][n] = cand => file[d][n] = cand
  BY <1>1 DEF Undisturbed
<1>. QED
  BY <1>1, <1>2 DEF CandidateInv

\* The candidate is a file in use.
LEMMA CandidateInUse ==
  ASSUME TypeOK, CandidateInv, pc \in Committed \cup {"commit"}
  PROVE  cand \in Inode /\ cand # Config /\ cand \in 1..inodes
BY Typed, Numbers DEF CandidateInv, Name, Inode

-----------------------------------------------------------------------------
(***************************************************************************)
(* The users of the directory.                                             *)
(***************************************************************************)
LEMMA UserActsStep ==
  ASSUME IInv, UserActs
  PROVE  IInv'
<1> USE DEF IInv
<1>1. /\ dir # 0 /\ dir \in 1..MaxDir
      /\ UNCHANGED <<lock, grant, want, pc, mem, goal, adopt, opened, cand>>
  BY Typed, Numbers DEF UserActs, run
<1>2. ASSUME Undisturbed, FilesInv', dir' \in dir..MaxDir,
             file' \in [1..MaxDir -> [Name -> Name]], bytes' \in [Inode -> Bytes],
             inodes' \in Name,
             pc = "commit" => bytes'[cand] = "empty",
             pc = "finish" => file'[opened][cand] = 0
      PROVE  IInv'
  <2>1. TypeOK'
    BY <1>1, <1>2 DEF TypeOK
  <2>2. CandidateInv'
    BY <1>1, <1>2, CandidateUndisturbed
  <2>3. /\ Records(lock)' /\ JournalInv(lock)' /\ JournalInv(mem)'
        /\ Records(mem) => Records(mem)'
    BY <1>1, <1>2, LockUndisturbed, MemUndisturbed
  <2>4. opened \in 1..dir => opened \in 1..dir'
    BY <1>1, <1>2, Typed
  <2>5. RunInv'
    BY <1>1, <2>3, <2>4 DEF RunInv, Preparing, Committed, Journaled
  <2>. QED BY <1>2, <2>1, <2>2, <2>3, <2>5
<1>3. CASE /\ At(Config) # 0
           /\ bytes' = [bytes EXCEPT ![At(Config)] = "user"]
           /\ UNCHANGED <<dir, file, inodes>>
  <2> DEFINE k == At(Config)
  <2>1. k \in Inode /\ file[dir][Config] = k /\ k # 0
    BY <1>1, <1>3, Typed, Numbers DEF At
  <2>2. \A d \in 1..MaxDir, n \in Name : file[d][n] = k => n = Config
    BY <1>1, <2>1, Numbers DEF FilesInv
  <2>3. bytes' = [bytes EXCEPT ![k] = "user"]
    BY <1>3
  <2> HIDE DEF k
  <2>4. /\ Undisturbed /\ FilesInv' /\ bytes' \in [Inode -> Bytes]
        /\ \A j \in Inode : bytes'[j] = IF j = k THEN "user" ELSE bytes[j]
    BY <1>3, <2>1, <2>2, <2>3, BytesReplaced
  <2>5. pc = "commit" => bytes'[cand] = "empty"
    <3> SUFFICES ASSUME pc = "commit" PROVE bytes'[cand] = "empty"
      OBVIOUS
    <3>1. cand \in Inode /\ cand # Config /\ bytes[cand] = "empty"
      BY CandidateInUse DEF CandidateInv
    <3>2. cand # k
      BY <1>1, <2>1, <3>1, Numbers DEF CandidateInv
    <3>. QED BY <2>4, <3>1, <3>2
  <2>6. pc = "finish" => file'[opened][cand] = 0
    BY <1>3 DEF CandidateInv, Committed
  <2>7. dir' \in dir..MaxDir /\ inodes' \in Name /\ file' \in [1..MaxDir -> [Name -> Name]]
    BY <1>1, <1>3 DEF TypeOK
  <2>. QED BY <1>2, <2>4, <2>5, <2>6, <2>7
<1>4. ASSUME NEW n \in Name, n = Config \/ At(n) # 0,
             inodes < MaxInode, inodes' = inodes + 1,
             file' = [file EXCEPT ![dir][n] = inodes'],
             bytes' = [bytes EXCEPT ![inodes'] = "user"], UNCHANGED dir
      PROVE  IInv'
  <2>1. n <= inodes /\ n # inodes' /\ inodes \in Nat
    BY <1>1, <1>4, Typed, Numbers DEF At, FilesInv
  <2>2. /\ Undisturbed /\ FilesInv'
        /\ file' \in [1..MaxDir -> [Name -> Name]] /\ bytes' \in [Inode -> Bytes]
        /\ inodes' \in Name
        /\ \A d \in 1..MaxDir, m \in Name :
             file'[d][m] = IF d = dir /\ m = n THEN inodes' ELSE file[d][m]
        /\ \A k \in Inode : bytes'[k] = IF k = inodes' THEN "user" ELSE bytes[k]
    BY <1>1, <1>4, <2>1, FileCreated
  <2>3. pc = "commit" => bytes'[cand] = "empty"
    <3> SUFFICES ASSUME pc = "commit" PROVE bytes'[cand] = "empty"
      OBVIOUS
    <3>1. cand \in Inode /\ cand \in 1..inodes /\ bytes[cand] = "empty"
      BY CandidateInUse DEF CandidateInv
    <3>2. cand # inodes'
      BY <1>4, <2>1, <3>1
    <3>. QED BY <2>2, <3>1, <3>2
  <2>4. pc = "finish" => file'[opened][cand] = 0
    <3> SUFFICES ASSUME pc = "finish" PROVE file'[opened][cand] = 0
      OBVIOUS
    <3>1. /\ opened \in 1..MaxDir /\ cand \in Name /\ cand # Config
          /\ file[opened][cand] = 0
      BY Typed, CandidateInUse, Numbers DEF CandidateInv, RunInv, Committed, Preparing
    <3>2. ~(opened = dir /\ cand = n)
      BY <1>1, <1>4, <3>1, Numbers DEF At
    <3>. QED BY <2>2, <3>1, <3>2
  <2>5. dir' \in dir..MaxDir
    BY <1>1, <1>4, Numbers
  <2>. QED BY <1>2, <2>2, <2>3, <2>4, <2>5
<1>5. ASSUME NEW n \in Name, file' = [file EXCEPT ![dir][n] = 0],
             UNCHANGED <<dir, bytes, inodes>>
      PROVE  IInv'
  <2>1. /\ Undisturbed /\ FilesInv' /\ file' \in [1..MaxDir -> [Name -> Name]]
        /\ \A d \in 1..MaxDir, m \in Name :
             file'[d][m] = IF d = dir /\ m = n THEN 0 ELSE file[d][m]
    BY <1>1, <1>5, FileUnlinked
  <2>2. pc = "commit" => bytes'[cand] = "empty"
    BY <1>5 DEF CandidateInv
  <2>3. pc = "finish" => file'[opened][cand] = 0
    BY <2>1, Typed, Numbers DEF CandidateInv, RunInv, Committed, Preparing
  <2>4. dir' \in dir..MaxDir /\ inodes' \in Name /\ bytes' \in [Inode -> Bytes]
    BY <1>1, <1>5 DEF TypeOK
  <2>. QED BY <1>2, <2>1, <2>2, <2>3, <2>4
<1>6. ASSUME dir < MaxDir, dir' = dir + 1, UNCHANGED <<file, bytes, inodes>>
      PROVE  IInv'
  <2>1. dir' \in 1..MaxDir /\ dir' > dir /\ dir' \in dir..MaxDir
    BY <1>1, <1>6, Numbers
  <2>2. \A n \in Name : At(n)' = 0
    BY <1>1, <1>6, <2>1 DEF At, FilesInv
  <2>3. Undisturbed
    <3>1. inodes \in Nat
      BY Typed, Numbers
    <3>. QED BY <1>6, <2>2, <3>1 DEF Undisturbed, Secret
  <2>4. FilesInv'
    BY <1>1, <1>6, <2>1 DEF FilesInv
  <2>5. /\ pc = "commit" => bytes'[cand] = "empty"
        /\ pc = "finish" => file'[opened][cand] = 0
    BY <1>6 DEF CandidateInv, Committed
  <2>6. /\ file' \in [1..MaxDir -> [Name -> Name]] /\ bytes' \in [Inode -> Bytes]
        /\ inodes' \in Name
    BY <1>6 DEF TypeOK
  <2>. QED BY <1>2, <2>1, <2>3, <2>4, <2>5, <2>6
<1>. QED
  BY <1>3, <1>4, <1>5, <1>6 DEF UserActs

-----------------------------------------------------------------------------
(***************************************************************************)
(* The run, up to its journal.                                             *)
(***************************************************************************)
\* The directory and the lockfile stay as they are.
LEMMA NothingMoves ==
  ASSUME IInv, UNCHANGED <<disk, lock>>
  PROVE  /\ Undisturbed /\ FilesInv' /\ Records(lock)' /\ JournalInv(lock)'
         /\ mem' = mem => JournalInv(mem)' /\ (Records(mem) => Records(mem)')
<1>1. inodes \in Nat
  BY Typed, Numbers DEF IInv
<1>2. Undisturbed /\ FilesInv'
  BY <1>1 DEF IInv, disk, Undisturbed, FilesInv, Secret, At
<1>. QED
  BY <1>2, LockUndisturbed, MemUndisturbed DEF IInv

\* An item is given up: what remains is the save of what is on record.
LEMMA GivesUp ==
  ASSUME IInv, UNCHANGED <<disk, lock, grant, want, mem, run>>, pc # "idle", pc' = "save"
  PROVE  IInv'
<1>1. TypeOK'
  BY DEF IInv, TypeOK, disk, run
<1>2. RunInv' /\ CandidateInv'
  BY NothingMoves DEF IInv, RunInv, CandidateInv, Preparing, Committed
<1>. QED
  BY <1>1, <1>2, NothingMoves DEF IInv

LEMMA BeginsStep ==
  ASSUME IInv, Begins
  PROVE  IInv'
<1>1. /\ mem' = Reconciled(lock) /\ bytes' = Erased(lock) /\ goal' = want
      /\ UNCHANGED <<dir, file, inodes, want, opened, cand, bounds>>
      /\ (lock' = mem' /\ grant' = FALSE) \/ UNCHANGED <<lock, grant>>
      /\ pc' \in {"remove", "install", "save"} /\ adopt' \in BOOLEAN
      /\ pc' = "remove" => mem' # None
      /\ pc' = "install" => want # None /\ ~Journaled(mem')
  BY DEF Begins
<1>2. /\ mem' \in Record \cup {None} /\ Records(mem)' /\ JournalInv(mem)'
      /\ Undisturbed /\ FilesInv' /\ bytes' \in [Inode -> Bytes]
  BY <1>1, ReconciledRecords, ErasureUndisturbs DEF IInv
<1>3. Records(lock)' /\ JournalInv(lock)'
  BY <1>1, <1>2, LockFromMem, LockUndisturbed DEF IInv
<1>4. TypeOK'
  BY <1>1, <1>2 DEF IInv, TypeOK
<1>5. RunInv'
  <2>1. pc' = "install" => goal' \in Version
    BY <1>1 DEF IInv, TypeOK
  <2>. QED BY <1>1, <1>2, <2>1 DEF RunInv, Preparing, Committed, Journaled
<1>6. CandidateInv'
  BY <1>1 DEF CandidateInv, Committed
<1>. QED
  BY <1>2, <1>3, <1>4, <1>5, <1>6 DEF IInv

LEMMA OpensTargetStep ==
  ASSUME IInv, OpensTarget
  PROVE  IInv'
<1>1. /\ pc = "install" /\ dir' = (IF dir = 0 THEN 1 ELSE dir) /\ opened' = dir'
      /\ pc' \in {"save", "reserve"}
      /\ UNCHANGED <<want, grant, bounds, file, bytes, inodes, lock, mem, goal, adopt, cand>>
  BY DEF OpensTarget, Proceed
<1>2. dir' \in 1..MaxDir /\ (dir' = dir \/ (dir = 0 /\ dir' = 1)) /\ inodes \in Nat
  BY <1>1, Typed, Numbers, ConfigAssumption DEF IInv
<1>3. \A n \in Name : At(n)' = At(n)
  BY <1>1, <1>2 DEF At, IInv, FilesInv
<1>4. Undisturbed
  BY <1>1, <1>2, <1>3 DEF Undisturbed, Secret
<1>5. FilesInv'
  BY <1>1, <1>2 DEF IInv, FilesInv
<1>6. /\ Records(lock)' /\ JournalInv(lock)' /\ JournalInv(mem)'
      /\ Records(mem) => Records(mem)'
  BY <1>1, <1>4, LockUndisturbed, MemUndisturbed DEF IInv
<1>7. TypeOK'
  BY <1>1, <1>2 DEF IInv, TypeOK
<1>8. RunInv'
  <2>1. opened' \in 1..dir'
    BY <1>1, <1>2, Numbers
  <2>. QED BY <1>1, <1>6, <2>1 DEF IInv, RunInv, Preparing, Committed, Journaled
<1>9. CandidateInv'
  BY <1>1 DEF CandidateInv, Committed
<1>. QED
  BY <1>5, <1>6, <1>7, <1>8, <1>9 DEF IInv

LEMMA ReservesCandidateStep ==
  ASSUME IInv, ReservesCandidate
  PROVE  IInv'
<1>1. /\ pc = "reserve" /\ inodes < MaxInode /\ inodes' = inodes + 1 /\ cand' = inodes'
      /\ file' = [file EXCEPT ![dir][inodes'] = inodes']
      /\ bytes' = [bytes EXCEPT ![inodes'] = "empty"]
      /\ pc' = (IF dir = opened THEN "commit" ELSE "save")
      /\ UNCHANGED <<want, grant, bounds, dir, lock, mem, goal, adopt, opened>>
  BY DEF ReservesCandidate, Proceed, SameTarget
<1>2. /\ opened \in 1..dir /\ dir # 0 /\ dir \in 1..MaxDir /\ inodes \in Nat
      /\ inodes' \in Name /\ inodes' \in Inode /\ inodes' # Config
  BY <1>1, Typed, Numbers DEF IInv, RunInv, Preparing, Committed, Name, Inode
<1>3. /\ Undisturbed /\ FilesInv'
      /\ file' \in [1..MaxDir -> [Name -> Name]] /\ bytes' \in [Inode -> Bytes]
      /\ \A d \in 1..MaxDir, m \in Name :
           file'[d][m] = IF d = dir /\ m = inodes' THEN inodes' ELSE file[d][m]
      /\ \A k \in Inode : bytes'[k] = IF k = inodes' THEN "empty" ELSE bytes[k]
  BY <1>1, <1>2, FileCreated DEF IInv
<1>4. /\ Records(lock)' /\ JournalInv(lock)' /\ JournalInv(mem)'
      /\ Records(mem) => Records(mem)'
  BY <1>1, <1>3, LockUndisturbed, MemUndisturbed DEF IInv
<1>5. TypeOK'
  BY <1>1, <1>2, <1>3 DEF IInv, TypeOK
<1>6. RunInv'
  BY <1>1, <1>4 DEF IInv, RunInv, Preparing, Committed, Journaled
<1>7. CandidateInv'
  <2> SUFFICES ASSUME pc' = "commit" PROVE CandidateInv'
    BY <1>1 DEF CandidateInv, Committed
  <2>1. cand' \in 1..inodes' /\ bytes'[cand'] = "empty" /\ opened' = dir
    BY <1>1, <1>2, <1>3
  <2>2. ASSUME NEW d \in 1..MaxDir, NEW n \in Name, file'[d][n] = cand'
        PROVE  d = opened' /\ n = cand'
    <3>1. file[d][n] \in Nat /\ file[d][n] <= inodes
      BY Typed, Numbers DEF IInv, FilesInv
    <3>. QED BY <1>1, <1>2, <1>3, <2>1, <2>2, <3>1
  <2>. QED BY <2>1, <2>2 DEF CandidateInv
<1>. QED
  BY <1>3, <1>4, <1>5, <1>6, <1>7 DEF IInv

\* The journal is written: the credentials there are are on record in it, and
\* with none on record there are none.
LEMMA CommitsStep ==
  ASSUME IInv, Commits
  PROVE  IInv'
<1>1. /\ pc = "commit" /\ pc' = "write" /\ lock' = mem'
      /\ mem' = IF mem = None THEN FirstJournal(goal, opened, cand)
                ELSE UpgradeJournal(mem.hash, goal, opened, cand)
      /\ UNCHANGED <<want, grant, bounds, disk, run>>
  BY DEF Commits, Proceed
<1>2. /\ goal \in Version /\ opened \in 1..dir /\ Records(mem) /\ ~Journaled(mem)
      /\ mem \in Record \cup {None} /\ opened \in 0..MaxDir /\ cand \in Name
      /\ mem # None => mem.hash \in Version
  BY <1>1, Typed DEF IInv, RunInv, Preparing, Committed, Record
<1>3. /\ mem' \in Record /\ mem' # None /\ mem'.inode = cand
      /\ mem'.dir = opened /\ Journaled(mem')
  <2>1. mem' \in Record
    <3>1. CASE mem = None
      BY <1>1, <1>2, <3>1, RecordTypes
    <3>2. CASE mem # None
      BY <1>1, <1>2, <3>2, RecordTypes
    <3>. QED BY <3>1, <3>2
  <2>2. mem'.inode = cand /\ mem'.dir = opened /\ mem'.status # "stable"
    BY <1>1 DEF FirstJournal, UpgradeJournal
  <2>. QED BY <2>1, <2>2, Versions DEF Journaled
<1>4. /\ mem'.status = "uncommitted" => mem = None /\ mem'.hash = goal
      /\ mem'.status = "pending" => mem'.next = goal
  BY <1>1 DEF FirstJournal, UpgradeJournal
<1>5. \A n \in Name : Secret(n)' => Secret(n) /\ n = Config /\ mem # None
  <2>1. mem # None => mem.inode = 0
    BY <1>2 DEF Journaled, IInv, JournalInv
  <2>2. mem = None \/ \A n \in Name : Secret(n) => n = Config \/ mem.inode = At(n)
    BY <1>2 DEF Records
  <2>3. \A n \in Name : Secret(n)' => Secret(n)
    BY <1>1 DEF Secret, At, disk
  <2>. QED BY <1>2, <2>1, <2>2, <2>3 DEF Records, Secret
<1>6. Records(mem)'
  BY <1>3, <1>5 DEF Records
<1>7. JournalInv(mem)'
  <2>1. cand \in 1..inodes' /\ bytes'[cand] = "empty"
    BY <1>1 DEF IInv, CandidateInv, disk
  <2>2. \A d \in 1..MaxDir, n \in Name : file'[d][n] = cand => d = opened
    BY <1>1 DEF IInv, CandidateInv, disk
  <2>. QED BY <1>2, <1>3, <1>4, <1>5, <2>1, <2>2 DEF JournalInv, Journaled
<1>8. Records(lock)' /\ JournalInv(lock)'
  BY <1>1, <1>6, <1>7, LockFromMem
<1>9. TypeOK' /\ FilesInv'
  BY <1>1, <1>3 DEF IInv, TypeOK, FilesInv, disk, run
<1>10. RunInv'
  BY <1>1, <1>2, <1>3, <1>4, <1>6 DEF RunInv, Preparing, Committed, disk, run
<1>11. CandidateInv'
  BY <1>1 DEF IInv, CandidateInv, Committed, disk, run
<1>. QED
  BY <1>6, <1>7, <1>8, <1>9, <1>10, <1>11 DEF IInv

-----------------------------------------------------------------------------
(***************************************************************************)
(* The run, from its journal on.                                           *)
(***************************************************************************)
\* The candidate is erased through its descriptor.
LEMMA CandidateErased ==
  ASSUME IInv, pc \in {"commit", "write", "publish"}, Discards,
         UNCHANGED <<dir, file, inodes>>
  PROVE  /\ Undisturbed /\ FilesInv' /\ bytes' \in [Inode -> Bytes]
         /\ \A d \in 1..MaxDir, n \in Name :
              file[d][n] # 0 /\ bytes[file[d][n]] = "user" =>
                bytes'[file[d][n]] = "user"
<1>1. cand \in Inode /\ cand # Config
  BY CandidateInUse DEF IInv, Committed
<1>2. /\ Undisturbed /\ FilesInv' /\ bytes' \in [Inode -> Bytes]
      /\ \A j \in Inode : bytes'[j] = IF j = cand THEN "empty" ELSE bytes[j]
  BY <1>1, BytesReplaced DEF Discards, IInv
<1>3. ASSUME NEW d \in 1..MaxDir, NEW n \in Name, file[d][n] # 0, bytes[file[d][n]] = "user"
      PROVE  bytes'[file[d][n]] = "user"
  <2>1. file[d][n] \in Inode
    BY <1>3, Typed, Numbers DEF IInv
  <2>2. file[d][n] # cand
    <3>1. CASE file[d][n] = cand
      <4>1. n = cand
        BY <3>1 DEF IInv, CandidateInv, Committed
      <4>. QED BY <1>1, <1>3, <3>1, <4>1 DEF IInv, FilesInv
    <3>. QED BY <3>1
  <2>. QED BY <1>2, <1>3, <2>1, <2>2
<1>. QED
  BY <1>2, <1>3

LEMMA DiscardsStep ==
  ASSUME IInv, pc \in {"commit", "write", "publish"}, Discards,
         pc' = (IF pc = "commit" THEN "save" ELSE "resolve"),
         UNCHANGED <<dir, file, inodes, lock, grant, want, mem, run>>
  PROVE  IInv'
<1>1. Undisturbed /\ FilesInv' /\ bytes' \in [Inode -> Bytes]
  BY CandidateErased
<1>2. /\ Records(lock)' /\ JournalInv(lock)' /\ JournalInv(mem)'
      /\ Records(mem) => Records(mem)'
  BY <1>1, LockUndisturbed, MemUndisturbed DEF IInv
<1>3. TypeOK'
  BY <1>1 DEF IInv, TypeOK, run
<1>4. RunInv'
  BY <1>2 DEF IInv, RunInv, Preparing, Committed, Journaled, run
<1>5. CandidateInv'
  BY DEF IInv, CandidateInv, Committed, run
<1>. QED
  BY <1>1, <1>2, <1>3, <1>4, <1>5 DEF IInv

\* The credentials go where the journal on disk says.
LEMMA WritesContentStep ==
  ASSUME IInv, Writes, SameTarget
  PROVE  IInv'
<1>1. /\ pc = "write" /\ pc' = "publish" /\ bytes' = [bytes EXCEPT ![cand] = goal]
      /\ UNCHANGED <<dir, file, inodes, lock, mem, run, want, grant>>
  BY DEF Writes, Proceed
<1>2. /\ cand \in Inode /\ cand # Config /\ cand \in 1..inodes /\ goal \in Version
      /\ mem = lock /\ Journaled(lock) /\ lock.inode = cand
      /\ lock.status = "uncommitted" => lock.hash = goal
  BY <1>1, CandidateInUse DEF IInv, RunInv, Preparing, Committed
<1>3. /\ \A k \in Inode : bytes'[k] = IF k = cand THEN goal ELSE bytes[k]
      /\ bytes' \in [Inode -> Bytes]
  BY <1>1, <1>2, Versions DEF IInv, TypeOK
<1>4. \A n \in Name : At(n)' = At(n) /\ At(n) \in Name
  BY <1>1, Typed DEF At, IInv
<1>5. \A n \in Name : Secret(n)' => Secret(n) \/ At(n) = cand
  BY <1>3, <1>4, Numbers DEF Secret
<1>6. FilesInv'
  <2>1. \A n \in Name : n # Config /\ bytes[n] # "user" => bytes'[n] # "user"
    BY <1>2, <1>3, Numbers, Versions
  <2>. QED BY <1>1, <2>1 DEF IInv, FilesInv
<1>7. Records(mem)'
  BY <1>1, <1>2, <1>4, <1>5 DEF IInv, Records, Journaled
<1>8. JournalInv(mem)'
  <2>1. lock.status = "uncommitted" =>
          /\ bytes'[lock.inode] = lock.hash
          /\ \A n \in Name : Secret(n)' => At(n)' = lock.inode
    BY <1>2, <1>3, <1>4, <1>5 DEF IInv, JournalInv
  <2>. QED BY <1>1, <1>2, <2>1 DEF IInv, JournalInv, Journaled
<1>9. Records(lock)' /\ JournalInv(lock)'
  BY <1>1, <1>2, <1>7, <1>8, LockFromMem
<1>10. TypeOK'
  BY <1>1, <1>3 DEF IInv, TypeOK, run
<1>11. RunInv'
  BY <1>1, <1>7 DEF IInv, RunInv, Preparing, Committed, Journaled, run
<1>12. CandidateInv'
  BY <1>1 DEF IInv, CandidateInv, Committed, run
<1>. QED
  BY <1>6, <1>7, <1>8, <1>9, <1>10, <1>11, <1>12 DEF IInv

LEMMA WritesStep ==
  ASSUME IInv, Writes
  PROVE  IInv'
<1>1. CASE SameTarget
  BY <1>1, WritesContentStep
<1>2. CASE ~SameTarget
  BY <1>2, DiscardsStep DEF Writes, Proceed
<1>. QED
  BY <1>1, <1>2

\* The rename that publishes a candidate.
PublishesCandidate ==
  /\ pc = "publish" /\ SameTarget /\ file[opened][cand] # 0
  /\ file' = Renamed /\ bytes' = bytes /\ pc' = "finish"
  /\ mem.status = "uncommitted" /\ ~adopt => file[opened][Config] = 0
  /\ UNCHANGED <<want, grant, dir, inodes, lock, mem, run>>

LEMMA PublishesSplits ==
  ASSUME Publishes
  PROVE  \/ PublishesCandidate
         \/ /\ pc = "publish" /\ Discards /\ pc' = "resolve"
            /\ UNCHANGED <<dir, file, inodes, lock, grant, want, mem, run>>
BY DEF Publishes, PublishesCandidate, Proceed

LEMMA RenamedFiles ==
  ASSUME IInv, PublishesCandidate
  PROVE  /\ dir = opened /\ opened \in 1..MaxDir /\ cand \in Name /\ cand # Config
         /\ file' \in [1..MaxDir -> [Name -> Name]]
         /\ \A d \in 1..MaxDir, n \in Name :
              file'[d][n] = IF d = opened /\ n = Config THEN file[opened][cand]
                            ELSE IF d = opened /\ n = cand THEN 0
                            ELSE file[d][n]
<1>1. opened \in 1..MaxDir /\ cand \in Name /\ cand # Config /\ Config \in Name
  BY Typed, CandidateInUse, Numbers
     DEF IInv, RunInv, Preparing, Committed, PublishesCandidate
<1>2. file[opened][cand] \in Name /\ 0 \in Name
  BY <1>1, Typed, Numbers DEF IInv
<1>. QED
  BY <1>1, <1>2 DEF IInv, TypeOK, Renamed, PublishesCandidate, SameTarget

LEMMA PublishesCandidateStep ==
  ASSUME IInv, PublishesCandidate
  PROVE  IInv'
<1>1. /\ dir = opened /\ opened \in 1..MaxDir /\ cand \in Name /\ cand # Config
      /\ file' \in [1..MaxDir -> [Name -> Name]]
      /\ \A d \in 1..MaxDir, n \in Name :
           file'[d][n] = IF d = opened /\ n = Config THEN file[opened][cand]
                         ELSE IF d = opened /\ n = cand THEN 0
                         ELSE file[d][n]
  BY RenamedFiles
<1>2. /\ pc = "publish" /\ pc' = "finish" /\ bytes' = bytes /\ file[opened][cand] # 0
      /\ UNCHANGED <<want, grant, dir, inodes, lock, mem, goal, adopt, opened, cand>>
      /\ mem = lock /\ Journaled(lock) /\ lock.inode = cand /\ lock.dir = opened
  BY DEF PublishesCandidate, run, IInv, RunInv, Committed
<1>3. FilesInv'
  <2>1. \A d \in 1..MaxDir, n \in Name :
          /\ file'[d][n] <= inodes'
          /\ file'[d][n] # 0 => d <= dir' /\ n <= inodes'
    BY <1>1, <1>2, Typed, Numbers DEF IInv, FilesInv
  <2>2. \A d \in 1..MaxDir, n \in Name : n # Config /\ file'[d][n] = n => bytes'[n] # "user"
    BY <1>1, <1>2, Numbers DEF IInv, FilesInv
  <2>3. ASSUME NEW d \in 1..MaxDir, NEW e \in 1..MaxDir, NEW n \in Name, NEW m \in Name,
               file'[d][n] # 0, file'[d][n] = file'[e][m]
        PROVE  d = e /\ n = m
    <3>1. \A f \in 1..MaxDir, g \in 1..MaxDir, o \in Name, p \in Name :
            file[f][o] # 0 /\ file[f][o] = file[g][p] => f = g /\ o = p
      BY DEF IInv, FilesInv
    <3>2. \A f \in 1..MaxDir, o \in Name :
            file[f][o] = file[opened][cand] => f = opened /\ o = cand
      BY <1>1, <1>2, <3>1
    <3>3. ~(d = opened /\ n = cand /\ n # Config) /\ ~(e = opened /\ m = cand /\ m # Config)
      BY <1>1, <2>3
    <3>4. CASE d = opened /\ n = Config
      <4>1. file[opened][cand] = file'[e][m]
        BY <1>1, <2>3, <3>4
      <4>2. CASE e = opened /\ m = Config
        BY <3>4, <4>2
      <4>3. CASE ~(e = opened /\ m = Config)
        <5>1. file'[e][m] = file[e][m]
          BY <1>1, <3>3, <4>3
        <5>. QED BY <1>1, <3>2, <3>3, <4>1, <5>1
      <4>. QED BY <4>2, <4>3
    <3>5. CASE ~(d = opened /\ n = Config)
      <4>1. file'[d][n] = file[d][n]
        BY <1>1, <3>3, <3>5
      <4>2. CASE e = opened /\ m = Config
        <5>1. file[d][n] = file[opened][cand]
          BY <1>1, <2>3, <4>1, <4>2
        <5>. QED BY <1>1, <3>2, <3>3, <5>1
      <4>3. CASE ~(e = opened /\ m = Config)
        <5>1. file'[e][m] = file[e][m]
          BY <1>1, <3>3, <4>3
        <5>2. file[d][n] # 0 /\ file[d][n] = file[e][m]
          BY <2>3, <4>1, <5>1
        <5>. QED BY <3>1, <5>2
      <4>. QED BY <4>2, <4>3
    <3>. QED BY <3>4, <3>5
  <2>. QED BY <2>1, <2>2, <2>3 DEF FilesInv
<1>4. \A n \in Name : At(n)' = IF n = Config THEN At(cand)
                               ELSE IF n = cand THEN 0 ELSE At(n)
  BY <1>1, <1>2, Numbers DEF At
<1>5. Records(mem)'
  <2>1. \A n \in Name : n # Config /\ Secret(n)' => Secret(n) /\ At(n)' = At(n)
    BY <1>2, <1>4 DEF Secret
  <2>. QED BY <1>2, <2>1 DEF IInv, Records, Journaled
<1>6. JournalInv(mem)'
  <2>1. ASSUME lock.status = "uncommitted"
        PROVE  /\ \A n \in Name : Secret(n)' => At(n)' = lock.inode
               /\ \A d \in 1..MaxDir, n \in Name : file'[d][n] = lock.inode => d = lock.dir
    <3>1. \A n \in Name : Secret(n) => At(n) = lock.inode
      BY <1>2, <2>1 DEF IInv, JournalInv
    <3>2. \A n \in Name : Secret(n)' => At(n)' = lock.inode
      BY <1>1, <1>2, <1>4, <3>1 DEF Secret
    <3>3. \A d \in 1..MaxDir, n \in Name : file'[d][n] = lock.inode => d = lock.dir
      BY <1>1, <1>2, <2>1 DEF IInv, JournalInv
    <3>. QED BY <3>2, <3>3
  <2>. QED BY <1>2, <2>1 DEF IInv, JournalInv, Journaled
<1>7. Records(lock)' /\ JournalInv(lock)'
  BY <1>2, <1>5, <1>6, LockFromMem
<1>8. TypeOK'
  BY <1>1, <1>2 DEF IInv, TypeOK
<1>9. RunInv'
  BY <1>2, <1>5 DEF IInv, RunInv, Preparing, Committed, Journaled
<1>10. CandidateInv'
  <2>1. \A d \in 1..MaxDir, n \in Name : file[d][n] = cand => d = opened /\ n = cand
    BY <1>2 DEF IInv, CandidateInv, Committed
  <2>2. \A d \in 1..MaxDir, n \in Name :
          file'[d][n] = cand => d = opened /\ n \in {cand, Config}
    BY <1>1, <1>2, <2>1
  <2>. QED BY <1>1, <1>2, <2>2 DEF IInv, CandidateInv, Committed
<1>. QED
  BY <1>3, <1>5, <1>6, <1>7, <1>8, <1>9, <1>10 DEF IInv

LEMMA PublishesStep ==
  ASSUME IInv, Publishes
  PROVE  IInv'
BY PublishesSplits, PublishesCandidateStep, DiscardsStep

LEMMA FinishesStep ==
  ASSUME IInv, Finishes
  PROVE  IInv'
<1>1. /\ pc = "finish" /\ pc' = "save" /\ mem = lock /\ Journaled(lock) /\ lock.inode = cand
      /\ goal \in Version
      /\ UNCHANGED <<want, grant, dir, file, inodes, lock, run>>
      /\ mem' = (IF lock.status = "uncommitted" /\ Reconciled(lock) = None THEN None
                 ELSE Stable(goal))
      /\ bytes' = IF lock.status = "uncommitted" THEN Erased(lock) ELSE bytes
  BY DEF Finishes, Proceed, IInv, RunInv, Preparing, Committed
<1>2. Undisturbed /\ FilesInv' /\ bytes' \in [Inode -> Bytes]
  <2>1. CASE bytes' = Erased(lock)
    BY <1>1, <2>1, ErasureUndisturbs DEF IInv
  <2>2. CASE bytes' = bytes
    BY <1>1, <2>2, NothingMoves DEF IInv, TypeOK, disk
  <2>. QED BY <1>1, <2>1, <2>2
<1>3. mem' \in Record \cup {None} /\ Records(mem)' /\ JournalInv(mem)'
  <2>1. CASE lock.status = "uncommitted" /\ Reconciled(lock) = None
    BY <1>1, <2>1, ReconciledRecords DEF IInv
  <2>2. CASE ~(lock.status = "uncommitted" /\ Reconciled(lock) = None)
    <3>1. \A n \in Name : Secret(n) => n = Config
      <4> SUFFICES ASSUME NEW n \in Name, Secret(n), n # Config PROVE FALSE
        OBVIOUS
      <4>1. At(n) = cand /\ At(n) # 0
        BY <1>1 DEF IInv, Records, Secret
      <4>2. dir \in 1..MaxDir /\ file[dir][n] = cand
        BY <4>1, Typed, Numbers DEF IInv, At
      <4>3. dir = opened /\ n = cand
        BY <1>1, <4>2 DEF IInv, CandidateInv, Committed
      <4>. QED BY <1>1, <4>1, <4>2, <4>3 DEF IInv, CandidateInv, Committed
    <3>2. \A n \in Name : Secret(n)' => n = Config
      BY <1>2, <3>1 DEF Undisturbed
    <3>3. mem' = Stable(goal)
      BY <1>1, <2>2
    <3>4. /\ Stable(goal) \in Record /\ Stable(goal) # None
          /\ ~Journaled(Stable(goal)) /\ Stable(goal).inode = 0
      BY <1>1, RecordTypes, Numbers, Versions
    <3>. QED BY <3>2, <3>3, <3>4 DEF Records, JournalInv, Journaled
  <2>. QED BY <2>1, <2>2
<1>4. Records(lock)' /\ JournalInv(lock)'
  BY <1>1, <1>2, LockUndisturbed DEF IInv
<1>5. TypeOK'
  BY <1>1, <1>2, <1>3 DEF IInv, TypeOK, run
<1>6. RunInv' /\ CandidateInv'
  BY <1>1, <1>3 DEF RunInv, CandidateInv, Preparing, Committed
<1>. QED
  BY <1>2, <1>3, <1>4, <1>5, <1>6 DEF IInv

LEMMA ResolvesStep ==
  ASSUME IInv, Resolves
  PROVE  IInv'
<1>1. /\ pc = "resolve" /\ pc' = "save"
      /\ mem' = Reconciled(lock) /\ bytes' = Erased(lock)
      /\ UNCHANGED <<want, grant, dir, file, inodes, lock, run>>
  BY DEF Resolves, Proceed, IInv, RunInv, Committed
<1>2. /\ mem' \in Record \cup {None} /\ Records(mem)' /\ JournalInv(mem)'
      /\ Undisturbed /\ FilesInv' /\ bytes' \in [Inode -> Bytes]
  BY <1>1, ReconciledRecords, ErasureUndisturbs DEF IInv
<1>3. Records(lock)' /\ JournalInv(lock)'
  BY <1>1, <1>2, LockUndisturbed DEF IInv
<1>4. TypeOK'
  BY <1>1, <1>2 DEF IInv, TypeOK, run
<1>5. RunInv' /\ CandidateInv'
  BY <1>1, <1>2 DEF RunInv, CandidateInv, Preparing, Committed
<1>. QED
  BY <1>2, <1>3, <1>4, <1>5 DEF IInv

LEMMA RemovesStep ==
  ASSUME IInv, Removes
  PROVE  IInv'
<1>1. pc = "remove" /\ pc' = "save" /\ UNCHANGED <<want, grant, dir, bytes, inodes, run>>
  BY DEF Removes, Proceed
<1>2. CASE Journaled(mem)
  <2>1. UNCHANGED <<disk, lock, grant, want, mem, run>>
    BY <1>1, <1>2 DEF Removes, disk
  <2>. QED BY <1>1, <2>1, GivesUp
<1>3. CASE ~Journaled(mem)
  <2>1. /\ lock' = mem /\ mem' = None
        /\ file' = IF dir = 0 THEN file ELSE [file EXCEPT ![dir][Config] = 0]
    BY <1>3 DEF Removes
  <2>2. /\ Undisturbed /\ FilesInv' /\ file' \in [1..MaxDir -> [Name -> Name]]
        /\ At(Config)' = 0
    <3>1. CASE dir = 0
      <4>1. file' = file
        BY <2>1, <3>1
      <4>2. inodes \in Nat
        BY Typed DEF IInv
      <4>. QED
        BY <1>1, <3>1, <4>1, <4>2 DEF IInv, TypeOK, FilesInv, Undisturbed, Secret, At
    <3>2. CASE dir # 0
      <4>1. file' = [file EXCEPT ![dir][Config] = 0] /\ Config \in Name /\ dir \in 1..MaxDir
        BY <2>1, <3>2, Typed, Numbers DEF IInv
      <4>2. /\ Undisturbed /\ FilesInv' /\ file' \in [1..MaxDir -> [Name -> Name]]
            /\ \A d \in 1..MaxDir, m \in Name :
                 file'[d][m] = IF d = dir /\ m = Config THEN 0 ELSE file[d][m]
        BY <1>1, <3>2, <4>1, FileUnlinked DEF IInv
      <4>. QED BY <1>1, <4>1, <4>2 DEF At
    <3>. QED BY <3>1, <3>2
  <2>3. mem # None => mem.inode = 0
    BY <1>3 DEF IInv, JournalInv, Journaled
  <2>4. Records(mem)
    BY <1>1 DEF IInv, RunInv
  <2>5. \A n \in Name : ~Secret(n)'
    BY <2>2, <2>3, <2>4 DEF Undisturbed, Records, Secret
  <2>6. Records(lock)' /\ Records(mem)'
    BY <2>5 DEF Records
  <2>7. JournalInv(lock)' /\ JournalInv(mem)'
    BY <1>3, <2>1, <2>3 DEF JournalInv, Journaled
  <2>8. TypeOK'
    BY <1>1, <2>1, <2>2 DEF IInv, TypeOK, run
  <2>9. RunInv' /\ CandidateInv'
    BY <1>1, <2>6 DEF RunInv, CandidateInv, Preparing, Committed
  <2>. QED BY <2>2, <2>6, <2>7, <2>8, <2>9 DEF IInv
<1>. QED
  BY <1>2, <1>3

LEMMA SavesStep ==
  ASSUME IInv, Saves
  PROVE  IInv'
<1>1. /\ pc = "save" /\ pc' = "idle" /\ lock' = mem /\ mem' = None /\ goal' = None
      /\ grant' \in BOOLEAN /\ adopt' = FALSE /\ opened' = 0 /\ cand' = 0
      /\ UNCHANGED <<disk, want>>
  BY DEF Saves, IInv, TypeOK
<1>2. FilesInv'
  BY <1>1 DEF IInv, FilesInv, disk
<1>3. Records(lock)' /\ JournalInv(lock)'
  BY <1>1 DEF IInv, RunInv, Records, JournalInv, Journaled, Secret, At, disk
<1>4. JournalInv(mem)'
  BY <1>1, MemForgotten
<1>5. TypeOK'
  BY <1>1, Numbers DEF IInv, TypeOK, disk
<1>6. RunInv' /\ CandidateInv'
  BY <1>1 DEF RunInv, CandidateInv, Preparing, Committed
<1>. QED
  BY <1>2, <1>3, <1>4, <1>5, <1>6 DEF IInv

LEMMA DiesStep ==
  ASSUME IInv, Dies
  PROVE  IInv'
<1>1. /\ pc' = "idle" /\ mem' = None /\ goal' = None
      /\ adopt' = FALSE /\ opened' = 0 /\ cand' = 0
      /\ UNCHANGED <<disk, lock, grant, want>>
  BY DEF Dies
<1>2. FilesInv' /\ Records(lock)' /\ JournalInv(lock)'
  BY <1>1, NothingMoves
<1>3. JournalInv(mem)'
  BY <1>1, MemForgotten
<1>4. TypeOK'
  BY <1>1, Numbers DEF IInv, TypeOK, disk
<1>5. RunInv' /\ CandidateInv'
  BY <1>1 DEF RunInv, CandidateInv, Preparing, Committed
<1>. QED
  BY <1>2, <1>3, <1>4, <1>5 DEF IInv

-----------------------------------------------------------------------------
\* The operator and the publisher touch nothing of it.
LEMMA OutsideStep ==
  ASSUME IInv, Grants \/ Changes \/ UNCHANGED vars
  PROVE  IInv'
<1>1. /\ UNCHANGED <<disk, lock, pc, mem, run>>
      /\ grant' \in BOOLEAN /\ want' \in Version \cup {None}
  BY DEF Grants, Changes, vars, disk, run, IInv, TypeOK
<1>2. /\ FilesInv' /\ Records(lock)' /\ JournalInv(lock)'
      /\ JournalInv(mem)' /\ (Records(mem) => Records(mem)')
  BY <1>1, NothingMoves
<1>3. TypeOK'
  BY <1>1 DEF IInv, TypeOK, disk, run
<1>4. RunInv' /\ CandidateInv'
  BY <1>1, <1>2
     DEF IInv, RunInv, CandidateInv, Preparing, Committed, Journaled, disk, run
<1>. QED
  BY <1>2, <1>3, <1>4 DEF IInv

LEMMA InitEstablishes == Init => IInv
<1> SUFFICES ASSUME Init PROVE IInv
  OBVIOUS
<1>1. /\ 0 \in Name /\ 1 \in Name /\ Config \in Name /\ Config = 0 /\ 1 \in 1..MaxDir
      /\ 0 \in 0..MaxDir /\ 1 \in 0..MaxDir /\ \A n \in Name : n \in Nat
  BY ConfigAssumption DEF Name, Config
<1>2. /\ NoFiles \in [Name -> Name] /\ UserConfig \in [Name -> Name]
      /\ \A n \in Name : NoFiles[n] = 0 /\ UserConfig[n] = IF n = Config THEN 1 ELSE 0
  BY <1>1 DEF NoFiles, UserConfig
<1>3. /\ dir \in {0, 1} /\ inodes = dir /\ file \in [1..MaxDir -> [Name -> Name]]
      /\ \A d \in 1..MaxDir, n \in Name :
           file[d][n] = IF dir = 1 /\ d = 1 /\ n = Config THEN 1 ELSE 0
  <2>1. CASE dir = 0 /\ file = [d \in 1..MaxDir |-> NoFiles] /\ inodes = 0
    BY <1>2, <2>1
  <2>2. CASE /\ dir = 1
             /\ file = [d \in 1..MaxDir |-> IF d = 1 THEN UserConfig ELSE NoFiles]
             /\ inodes = 1
    BY <1>2, <2>2
  <2>. QED BY <2>1, <2>2 DEF Init
<1>4. bytes = [k \in Inode |-> "user"] /\ bytes \in [Inode -> Bytes]
  BY Versions DEF Init
<1>5. TypeOK
  BY <1>1, <1>3, <1>4 DEF Init, TypeOK
<1>6. FilesInv
  BY <1>1, <1>3 DEF FilesInv
<1>7. \A n \in Name : ~Secret(n)
  <2>1. \A k \in Inode : bytes[k] \notin Version
    BY <1>4, Versions
  <2>. QED BY <1>5, <2>1, Typed, Numbers DEF Secret
<1>8. Records(lock) /\ JournalInv(lock) /\ JournalInv(mem)
  BY <1>7 DEF Init, Records, JournalInv, Journaled
<1>9. RunInv /\ CandidateInv
  BY DEF Init, RunInv, CandidateInv, Preparing, Committed
<1>. QED
  BY <1>5, <1>6, <1>8, <1>9 DEF IInv

LEMMA StepPreserves == IInv /\ [Next]_vars => IInv'
<1> SUFFICES ASSUME IInv, [Next]_vars PROVE IInv'
  OBVIOUS
<1>1. CASE Begins \/ OpensTarget \/ ReservesCandidate \/ Commits
  BY <1>1, BeginsStep, OpensTargetStep, ReservesCandidateStep, CommitsStep
<1>2. CASE IsIntact \/ FetchFails
  BY <1>2, GivesUp DEF IsIntact, FetchFails, Proceed
<1>3. CASE CommitFails \/ PublishFails
  BY <1>3, DiscardsStep DEF CommitFails, PublishFails
<1>4. CASE Writes \/ Publishes \/ Finishes \/ Resolves \/ Removes
  BY <1>4, WritesStep, PublishesStep, FinishesStep, ResolvesStep, RemovesStep
<1>5. CASE Saves \/ Dies
  BY <1>5, SavesStep, DiesStep
<1>6. CASE Grants \/ Changes \/ UNCHANGED vars
  BY <1>6, OutsideStep
<1>7. CASE UserActs
  BY <1>7, UserActsStep
<1>. QED
  BY <1>1, <1>2, <1>3, <1>4, <1>5, <1>6, <1>7 DEF Next, RunStep

LEMMA Invariance == Spec => []IInv
BY InitEstablishes, StepPreserves, PTL DEF Spec

\* Credentials in the item's directory are always on record, also when the
\* process dies between two system calls of installConfig() or removeConfig().
THEOREM CredentialsAreRecorded == Spec => []SecretsAreRecorded
<1>1. IInv => SecretsAreRecorded
  BY DEF IInv, Records, Secret, SecretsAreRecorded
<1>. QED
  BY <1>1, Invariance, PTL

-----------------------------------------------------------------------------
(***************************************************************************)
(* What users have in the directory.                                       *)
(***************************************************************************)
Theirs(d, n) == file[d][n] # 0 /\ bytes[file[d][n]] = "user"

Kept(d, n) ==
  bytes'[file[d][n]] = "user" /\ \E m \in Name : file'[d][m] = file[d][n]

\* The lockfile owns config.json, or an adoption of it was consumed.
Authority ==
  \/ adopt
  \/ lock # None /\ lock.status # "uncommitted"
  \/ mem # None /\ mem.status = "stable"

LEMMA SameFilesKept ==
  ASSUME file' = file,
         \A d \in 1..MaxDir, n \in Name : Theirs(d, n) => bytes'[file[d][n]] = "user"
  PROVE  \A d \in 1..MaxDir, n \in Name : Theirs(d, n) => Kept(d, n)
BY DEF Kept

LEMMA ErasureKeeps ==
  ASSUME IInv, file' = file, bytes' = Erased(lock)
  PROVE  \A d \in 1..MaxDir, n \in Name : Theirs(d, n) => Kept(d, n)
<1>1. CASE ~Erases(lock)
  BY <1>1, SameFilesKept DEF Erased, Theirs
<1>2. CASE Erases(lock)
  <2>1. /\ bytes' = [bytes EXCEPT ![lock.inode] = "empty"]
        /\ lock.inode \in Inode /\ bytes[lock.inode] # "user"
    BY <1>2, ErasesCandidate DEF IInv
  <2>2. \A k \in Inode : bytes[k] = "user" => bytes'[k] = "user"
    BY <2>1 DEF IInv, TypeOK
  <2>3. ASSUME NEW d \in 1..MaxDir, NEW n \in Name, Theirs(d, n)
        PROVE  bytes'[file[d][n]] = "user"
    <3>1. file[d][n] \in Inode
      BY <2>3, Typed, Numbers DEF IInv, Theirs
    <3>. QED BY <2>2, <2>3, <3>1 DEF Theirs
  <2>. QED BY <2>3, SameFilesKept
<1>. QED
  BY <1>1, <1>2

LEMMA ReserveKeeps ==
  ASSUME IInv, ReservesCandidate
  PROVE  \A d \in 1..MaxDir, n \in Name : Theirs(d, n) => Kept(d, n)
<1>1. /\ pc = "reserve" /\ inodes < MaxInode /\ inodes' = inodes + 1
      /\ file' = [file EXCEPT ![dir][inodes'] = inodes']
      /\ bytes' = [bytes EXCEPT ![inodes'] = "empty"]
      /\ UNCHANGED dir
  BY DEF ReservesCandidate
<1>2. /\ dir # 0 /\ inodes \in Nat /\ inodes' \in Name
  BY <1>1, Typed, Numbers DEF IInv, RunInv, Preparing, Committed, Name
<1>3. /\ \A d \in 1..MaxDir, m \in Name :
           file'[d][m] = IF d = dir /\ m = inodes' THEN inodes' ELSE file[d][m]
      /\ \A k \in Inode : bytes'[k] = IF k = inodes' THEN "empty" ELSE bytes[k]
  BY <1>1, <1>2, FileCreated DEF IInv
<1> SUFFICES ASSUME NEW d \in 1..MaxDir, NEW n \in Name, Theirs(d, n) PROVE Kept(d, n)
  OBVIOUS
<1>4. /\ file[d][n] \in Inode /\ file[d][n] # inodes' /\ n # inodes'
  <2>1. file[d][n] \in Inode /\ file[d][n] \in Nat /\ n \in Nat
    BY Typed, Numbers DEF IInv, Theirs
  <2>2. file[d][n] <= inodes /\ n <= inodes
    BY DEF IInv, FilesInv, Theirs
  <2>. QED BY <1>1, <1>2, <2>1, <2>2
<1>. QED
  BY <1>3, <1>4 DEF Theirs, Kept

LEMMA WriteKeeps ==
  ASSUME IInv, Writes, SameTarget
  PROVE  \A d \in 1..MaxDir, n \in Name : Theirs(d, n) => Kept(d, n)
<1>1. pc = "write" /\ bytes' = [bytes EXCEPT ![cand] = goal] /\ file' = file
  BY DEF Writes
<1>2. cand \in Inode /\ cand # Config
  BY <1>1, CandidateInUse DEF IInv, Committed
<1>3. ASSUME NEW d \in 1..MaxDir, NEW n \in Name, Theirs(d, n)
      PROVE  bytes'[file[d][n]] = "user"
  <2>1. file[d][n] \in Inode
    BY <1>3, Typed, Numbers DEF IInv, Theirs
  <2>2. file[d][n] # cand
    <3>1. CASE file[d][n] = cand
      <4>1. n = cand
        BY <1>1, <3>1 DEF IInv, CandidateInv, Committed
      <4>. QED BY <1>2, <1>3, <3>1, <4>1 DEF IInv, FilesInv, Theirs
    <3>. QED BY <3>1
  <2>. QED BY <1>1, <1>3, <2>1, <2>2 DEF IInv, TypeOK, Theirs
<1>. QED
  BY <1>1, <1>3, SameFilesKept

LEMMA PublicationKeeps ==
  ASSUME IInv, PublishesCandidate
  PROVE  \A d \in 1..MaxDir, n \in Name :
           Theirs(d, n) => Kept(d, n) \/ (n = Config /\ Authority)
<1>1. /\ opened \in 1..MaxDir /\ cand \in Name /\ Config \in Name /\ cand # Config
      /\ \A d \in 1..MaxDir, n \in Name :
           file'[d][n] = IF d = opened /\ n = Config THEN file[opened][cand]
                         ELSE IF d = opened /\ n = cand THEN 0
                         ELSE file[d][n]
  BY RenamedFiles, Numbers
<1>2. bytes' = bytes /\ mem = lock /\ Journaled(lock)
  BY DEF PublishesCandidate, IInv, RunInv, Committed
<1> SUFFICES ASSUME NEW d \in 1..MaxDir, NEW n \in Name, Theirs(d, n),
                    ~(n = Config /\ Authority)
             PROVE  Kept(d, n)
  OBVIOUS
<1>3. ~(d = opened /\ n = Config)
  BY <1>2 DEF PublishesCandidate, Authority, Journaled, Theirs
<1>4. file'[d][IF d = opened /\ n = cand THEN Config ELSE n] = file[d][n]
  BY <1>1, <1>3
<1>. QED
  BY <1>1, <1>2, <1>4 DEF Kept, Theirs

LEMMA RemovalKeeps ==
  ASSUME IInv, Removes
  PROVE  \A d \in 1..MaxDir, n \in Name :
           Theirs(d, n) => Kept(d, n) \/ (n = Config /\ Authority)
<1>1. pc = "remove" /\ mem # None /\ bytes' = bytes
  BY DEF Removes, IInv, RunInv
<1>2. CASE file' = file
  BY <1>1, <1>2, SameFilesKept DEF Theirs
<1>3. CASE ~Journaled(mem) /\ dir # 0 /\ file' = [file EXCEPT ![dir][Config] = 0]
  <2>1. Authority
    BY <1>1, <1>3 DEF Authority, Journaled
  <2>2. \A d \in 1..MaxDir, n \in Name : n # Config => file'[d][n] = file[d][n]
    BY <1>3, Typed, Numbers DEF IInv, TypeOK
  <2>. QED BY <1>1, <2>1, <2>2 DEF Kept, Theirs
<1>. QED
  BY <1>2, <1>3 DEF Removes

LEMMA StepKeepsUsersFiles ==
  ASSUME IInv, Next, pc' # pc
  PROVE  \A d \in 1..MaxDir, n \in Name :
           Theirs(d, n) => Kept(d, n) \/ (n = Config /\ Authority)
<1>1. CASE file' = file /\ bytes' = bytes
  BY <1>1, SameFilesKept DEF Theirs
<1>2. CASE bytes' = Erased(lock) /\ file' = file
  BY <1>2, ErasureKeeps
<1>3. CASE /\ pc \in {"commit", "write", "publish"} /\ Discards
           /\ UNCHANGED <<dir, file, inodes>>
  BY <1>3, CandidateErased, SameFilesKept DEF Theirs
<1>4. CASE \/ IsIntact \/ FetchFails \/ OpensTarget \/ Commits \/ Saves \/ Dies
           \/ Grants \/ Changes \/ UserActs
  <2>1. ASSUME Grants \/ Changes \/ UserActs PROVE FALSE
    BY <2>1 DEF Grants, Changes, UserActs
  <2>. QED
    BY <1>1, <1>4, <2>1 DEF IsIntact, FetchFails, OpensTarget, Commits, Saves, Dies, disk
<1>5. CASE Begins
  BY <1>2, <1>5 DEF Begins
<1>6. CASE Finishes \/ Resolves
  <2>1. mem = lock
    BY <1>6 DEF Finishes, Resolves, IInv, RunInv, Committed
  <2>. QED BY <1>1, <1>2, <1>6, <2>1 DEF Finishes, Resolves
<1>7. CASE CommitFails \/ PublishFails
  BY <1>3, <1>7 DEF CommitFails, PublishFails
<1>8. CASE ReservesCandidate
  BY <1>8, ReserveKeeps
<1>9. CASE Writes
  <2>1. CASE SameTarget
    BY <1>9, <2>1, WriteKeeps
  <2>2. CASE ~SameTarget
    BY <1>3, <1>9, <2>2 DEF Writes
  <2>. QED BY <2>1, <2>2
<1>10. CASE Publishes
  BY <1>3, <1>10, PublishesSplits, PublicationKeeps
<1>11. CASE Removes
  BY <1>11, RemovalKeeps
<1>. QED
  BY <1>4, <1>5, <1>6, <1>7, <1>8, <1>9, <1>10, <1>11 DEF Next, RunStep

\* A step of the installer takes a user's file, or its content, only where the
\* lockfile owns config.json or an adoption was consumed for it: not under the
\* name of a candidate, and not when a journal is resolved.
THEOREM UsersFilesAreSafe == Spec => UsersFilesSurvive
<1>1. IInv /\ [Next]_vars =>
        [pc' # pc =>
           \A d \in 1..MaxDir, n \in Name :
             LET k == file[d][n]
                 kept == bytes'[k] = "user" /\ \E m \in Name : file'[d][m] = k
             IN  k # 0 /\ bytes[k] = "user" /\ ~kept
                   => n = Config /\ (adopt \/ (lock # None /\ lock.status # "uncommitted")
                                           \/ (mem # None /\ mem.status = "stable"))]_vars
  BY StepKeepsUsersFiles DEF Theirs, Kept, Authority, vars
<1>. QED
  BY <1>1, Invariance, PTL DEF Spec, UsersFilesSurvive

=============================================================================
