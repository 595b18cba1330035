-------------------------- MODULE RunLifecycle_proofs --------------------------
(***************************************************************************)
(* What clients are told, and what becomes of the history, for every set   *)
(* of requests and engines and every number of starts and of changes of    *)
(* the credential.                                                         *)
(***************************************************************************)
EXTENDS RunLifecycle, SequenceTheorems, FiniteSetTheorems, TLAPS

(***************************************************************************)
(* The inductive invariant, in two halves that share no variable.          *)
(***************************************************************************)
\* What a start of the process goes by: the directory of the new name, or else
\* the one of the old.
Current == IF disk.new # Absent THEN disk.new ELSE disk.legacy

\* Nobody makes the one directory while there is the other.
OneDirectory == disk.new = Absent \/ disk.legacy = Absent

\* load() uses the old name only where nobody can rename it, and the new name
\* only where nothing is left under the old one.
Located ==
  /\ stage \in {"down", "new dir?", "old dir?", "adopt", "recheck"} => dataDir = "new"
  /\ dataDir = "legacy" => disk.new = Absent /\ disk.legacy # Absent /\ ~renameWorks
  /\ stage = "adopt" /\ disk.new = Absent => disk.legacy # Absent
  /\ stage = "recheck" /\ disk.new = Absent => disk.legacy # Absent /\ ~renameWorks
  /\ stage = "open" /\ dataDir = "new" => disk.legacy = Absent
  /\ stage \in {"read", "loaded"} /\ dataDir = "new" => disk.new # Absent

\* Until the file is read, what the start found is still what is current.
Found == stage \notin {"down", "loaded"} => atBoot = Parsed(Current)

\* Whatever is in the file, or on its way there, memory has it too.
Saved ==
  /\ saving # "no" => stage = "loaded"
  /\ stage = "loaded" => IsPrefix(Parsed(disk[dataDir]), records)
  /\ saving = "writing" => IsPrefix(snapshot, records)

UsageInv ==
  /\ UsageTypeOK /\ OneDirectory /\ Located /\ Found /\ Saved
  /\ HistoryIsAdopted

\* The response of q ends with the outcome of its whole run.
Waits(q) == q.mode = "plain" \/ q.engine # "claude"

\* A request as the handlers leave it.
RequestRecord ==
  [mode : Mode, engine : Engine,
   phase : {"idle", "images", "open", "cleaning", "done", "gone"},
   images : BOOLEAN, closed : BOOLEAN, heard : BOOLEAN, ended : BOOLEAN,
   sent : BOOLEAN, answer : {None, "ok", "error"},
   complete : BOOLEAN, result : BOOLEAN, error : BOOLEAN,
   billed : Seq(BOOLEAN),
   runner : {"none", "preparing", "executing", "settling", "thrown", "closed",
             "rejected"},
   killed : BOOLEAN, reported : BOOLEAN, signalled : BOOLEAN, inBand : BOOLEAN,
   failed : BOOLEAN,
   child : {"none", "running", "exited"},
   cwd : BOOLEAN, key : Cred \cup {None}, home : Cred \cup {None}]

\* A success is told when the run has an outcome, and only of one that did not
\* fail; nothing runs before the request is launched.
Truthful(q) ==
  /\ Waits(q) /\ q.answer = "ok" => ~q.failed /\ q.runner \in {"settling", "thrown", "closed"}
  /\ q.phase \in {"idle", "images"} => q.runner = "none"

RequestsInv ==
  /\ req \in [Request -> RequestRecord]
  /\ \A r \in Request : Truthful(req[r])

CredInv == cred \in Cred \cup {None} /\ creds \in 0..MaxCred

IInv == UsageInv /\ RequestsInv /\ CredInv

-----------------------------------------------------------------------------
(***************************************************************************)
(* Sequences of outcomes                                                   *)
(***************************************************************************)
\* The three contents without a history differ, and are no history.
LEMMA UnreadableContents ==
  /\ Absent # NoFile /\ Absent # Torn /\ NoFile # Torn
  /\ Absent \notin Seq(BOOLEAN) /\ NoFile \notin Seq(BOOLEAN) /\ Torn \notin Seq(BOOLEAN)
<1>1. \A x, y : Cardinality({x, y}) <= 2
  <2>. TAKE x, y
  <2>1. IsFiniteSet({y}) /\ Cardinality({y}) = 1
    BY FS_Singleton
  <2>2. Cardinality({y} \cup {x}) <= 2
    BY <2>1, FS_AddElement
  <2>3. {x, y} = {y} \cup {x}
    OBVIOUS
  <2>. QED
    BY <2>2, <2>3
<1>2. Cardinality({Absent, NoFile, Torn}) = 3
  BY UsageAssumption DEF Unreadable
<1>3. ASSUME Absent = NoFile \/ Absent = Torn \/ NoFile = Torn PROVE FALSE
  <2>1. \E x, y : {Absent, NoFile, Torn} = {x, y}
    BY <1>3
  <2>. QED
    BY <2>1, <1>1, <1>2
<1>. QED
  BY <1>3, UsageAssumption DEF Unreadable

\* A history is read back as it was written.
LEMMA ParsedHistory ==
  /\ \A h \in Seq(BOOLEAN) : Readable(h) /\ Parsed(h) = h
  /\ \A c \in Unreadable : ~Readable(c) /\ Parsed(c) = <<>>
  /\ \A c \in Unreadable \cup Seq(BOOLEAN) : Parsed(c) \in Seq(BOOLEAN)
<1>1. <<>> \in Seq(BOOLEAN)
  BY EmptySeq
<1>2. \A h \in Seq(BOOLEAN) : Readable(h) /\ Parsed(h) = h
  BY UsageAssumption DEF Readable, Parsed
<1>3. \A c \in Unreadable : ~Readable(c) /\ Parsed(c) = <<>>
  BY DEF Readable, Parsed
<1>. QED
  BY <1>1, <1>2, <1>3

\* The counts of a history are numbers.
LEMMA RecountedType ==
  ASSUME NEW h \in Seq(BOOLEAN)
  PROVE  Recounted(h) \in [requests : Nat, failed : Nat]
<1>1. Len(h) \in Nat /\ DOMAIN h = 1..Len(h)
  BY LenProperties
<1>2. IsFiniteSet(1..Len(h))
  BY <1>1, FS_Interval
<1>3. IsFiniteSet({i \in DOMAIN h : ~h[i]})
  BY <1>1, <1>2, FS_Subset
<1>4. Cardinality({i \in DOMAIN h : ~h[i]}) \in Nat
  BY <1>3, FS_CardinalityType
<1>. QED
  BY <1>1, <1>4 DEF Recounted

LEMMA PrefixOfItself ==
  ASSUME NEW h \in Seq(BOOLEAN)
  PROVE  IsPrefix(h, h) /\ IsPrefix(<<>>, h)
<1>1. Len(h) \in Nat
  BY LenProperties
<1>2. Len(<<>>) = 0
  BY EmptySeq
<1>3. SubSeq(<<>>, 1, 0) = <<>> /\ SubSeq(h, 1, 0) = <<>>
  BY SubSeqEmpty
<1>. QED
  BY <1>1, <1>2, <1>3 DEF IsPrefix

\* More outcomes do not change what came before.
LEMMA PrefixOfMore ==
  ASSUME NEW g \in Seq(BOOLEAN), NEW h \in Seq(BOOLEAN), NEW more \in Seq(BOOLEAN),
         IsPrefix(g, h)
  PROVE  IsPrefix(g, h \o more)
<1>1. Len(g) \in Nat /\ Len(h) \in Nat /\ Len(more) \in Nat /\ Len(g) <= Len(h)
  BY LenProperties DEF IsPrefix
<1>2. h \o more \in Seq(BOOLEAN) /\ Len(h \o more) = Len(h) + Len(more)
  BY ConcatProperties
<1>3. CASE Len(g) = 0
  <2>1. SubSeq(g, 1, 0) = <<>> /\ SubSeq(h \o more, 1, 0) = <<>>
    BY SubSeqEmpty
  <2>. QED
    BY <1>1, <1>2, <1>3, <2>1 DEF IsPrefix
<1>4. CASE Len(g) # 0
  <2>1. SubSeq(h \o more, 1, Len(g)) = SubSeq(h, 1, Len(g))
    BY <1>1, <1>4, SubSeqOfConcat1
  <2>. QED
    BY <1>1, <1>2, <2>1 DEF IsPrefix
<1>. QED
  BY <1>3, <1>4

\* What is billed between two states of a request.
LEMMA Outcomes ==
  ASSUME NEW old \in Seq(BOOLEAN), NEW new \in Seq(BOOLEAN)
  PROVE  SubSeq(new, Len(old) + 1, Len(new)) \in Seq(BOOLEAN)
<1>1. Len(old) \in Nat /\ Len(new) \in Nat
  BY LenProperties
<1>2. \A i \in (Len(old) + 1)..Len(new) : new[i] \in BOOLEAN
  BY <1>1, ElementOfSeq
<1>. QED
  BY <1>1, <1>2, SubSeqProperties

-----------------------------------------------------------------------------
(***************************************************************************)
(* The history                                                             *)
(***************************************************************************)
LEMMA UsageInitially == UsageInit => UsageInv
<1>. SUFFICES ASSUME UsageInit PROVE UsageInv
  OBVIOUS
<1>1. <<>> \in Seq(BOOLEAN) /\ OldHistory \in Seq(BOOLEAN)
  BY EmptySeq DEF OldHistory
<1>2. /\ disk.new = Absent /\ disk.legacy \in {Absent, OldHistory}
      /\ disk \in [Dir -> {Absent, OldHistory}]
  BY DEF UsageInit, Dir
<1>3. disk \in [Dir -> Unreadable \cup Seq(BOOLEAN)]
  BY <1>1, <1>2 DEF Unreadable
<1>4. atBoot = Parsed(Current) /\ atBoot \in Seq(BOOLEAN)
  BY <1>2, <1>1, ParsedHistory DEF UsageInit, Current, Unreadable
<1>5. UsageTypeOK
  <2>1. 1 \in 1..MaxBoots
    BY UsageAssumption
  <2>2. renameWorks \in BOOLEAN
    BY DEF UsageInit
  <2>3. totals \in [requests : Nat, failed : Nat]
    BY <1>1, RecountedType DEF UsageInit
  <2>. QED
    BY <1>1, <1>3, <1>4, <2>1, <2>2, <2>3 DEF UsageInit, UsageTypeOK, Dir
<1>. QED
  BY <1>2, <1>4, <1>5
  DEF UsageInit, UsageInv, OneDirectory, Located, Found, Saved, HistoryIsAdopted

\* The search for the directory.
LEMMA SearchKeepsHistory ==
  ASSUME UsageInv, SeeksNew \/ SeeksLegacy \/ Rechecks
  PROVE  UsageInv'
<1>1. UsageTypeOK'
  BY DEF UsageInv, UsageTypeOK, SeeksNew, SeeksLegacy, Rechecks, saveVars, Dir
<1>2. OneDirectory' /\ Found' /\ Saved' /\ HistoryIsAdopted'
  BY DEF UsageInv, SeeksNew, SeeksLegacy, Rechecks, saveVars, OneDirectory, Found, Saved,
         HistoryIsAdopted, Current
<1>3. Located'
  <2>. disk.new = Absent \/ disk.legacy = Absent
    BY DEF UsageInv, OneDirectory
  <2>1. CASE SeeksNew
    BY <2>1 DEF UsageInv, SeeksNew, Located
  <2>2. CASE SeeksLegacy
    BY <2>2 DEF UsageInv, SeeksLegacy, Located
  <2>3. CASE Rechecks
    BY <2>3 DEF UsageInv, Rechecks, Located
  <2>. QED
    BY <2>1, <2>2, <2>3
<1>. QED
  BY <1>1, <1>2, <1>3 DEF UsageInv

\* The rename, by this process or by another: nothing was under the new name.
LEMMA AdoptionKeepsHistory ==
  ASSUME UsageInv, CanAdopt, disk' = Adopted,
         stage' = stage \/ (stage = "adopt" /\ stage' = "open"),
         UNCHANGED <<records, totals, saveVars, dataDir, renameWorks, atBoot, boots>>
  PROVE  UsageInv' /\ disk.new = Absent
<1>1. disk.new = Absent /\ disk.legacy # Absent /\ renameWorks
  BY DEF UsageInv, OneDirectory, CanAdopt
<1>2. /\ disk'.new = disk.legacy /\ disk'.legacy = Absent
      /\ disk' \in [Dir -> Unreadable \cup Seq(BOOLEAN)]
  <2>1. disk' = [new |-> disk.legacy, legacy |-> Absent]
    BY DEF Adopted
  <2>2. disk["legacy"] \in Unreadable \cup Seq(BOOLEAN)
    BY DEF UsageInv, UsageTypeOK, Dir
  <2>3. Absent \in Unreadable \cup Seq(BOOLEAN)
    BY DEF Unreadable
  <2>. QED
    BY <2>1, <2>2, <2>3 DEF Dir
<1>3. UsageTypeOK'
  BY <1>2 DEF UsageInv, UsageTypeOK, saveVars
<1>4. OneDirectory' /\ Current' = Current
  BY <1>1, <1>2 DEF OneDirectory, Current
<1>5. dataDir = "new"
  BY <1>1 DEF UsageInv, UsageTypeOK, Located, Dir
<1>6. stage \notin {"read", "loaded"}
  BY <1>1, <1>5 DEF UsageInv, Located
<1>7. Located'
  BY <1>1, <1>2, <1>5 DEF UsageInv, Located
<1>8. Found'
  BY <1>4 DEF UsageInv, Found
<1>9. Saved' /\ HistoryIsAdopted'
  BY <1>6 DEF UsageInv, Saved, HistoryIsAdopted, saveVars
<1>. QED
  BY <1>1, <1>3, <1>4, <1>7, <1>8, <1>9 DEF UsageInv

LEMMA AdoptsKeepsHistory ==
  ASSUME UsageInv, Adopts
  PROVE  UsageInv'
<1>1. CASE CanAdopt
  BY <1>1, AdoptionKeepsHistory DEF Adopts
<1>2. CASE ~CanAdopt
  <2>1. UsageTypeOK'
    BY <1>2 DEF UsageInv, UsageTypeOK, Adopts, saveVars
  <2>2. disk.new = Absent => disk.legacy # Absent /\ ~renameWorks
    BY <1>2 DEF UsageInv, Located, Adopts, CanAdopt
  <2>3. Located'
    BY <1>2, <2>2 DEF UsageInv, Located, Adopts
  <2>4. OneDirectory' /\ Found' /\ Saved' /\ HistoryIsAdopted'
    BY <1>2 DEF UsageInv, Adopts, saveVars, OneDirectory, Found, Saved, HistoryIsAdopted,
                Current
  <2>. QED
    BY <2>1, <2>3, <2>4 DEF UsageInv
<1>. QED
  BY <1>1, <1>2

LEMMA OtherAdoptsKeepsHistory ==
  ASSUME UsageInv, OtherAdopts
  PROVE  UsageInv'
BY AdoptionKeepsHistory DEF OtherAdopts

LEMMA OpensKeepsHistory ==
  ASSUME UsageInv, Opens
  PROVE  UsageInv'
<1>1. disk \in [Dir -> Unreadable \cup Seq(BOOLEAN)] /\ dataDir \in Dir
  BY DEF UsageInv, UsageTypeOK
<1>2. /\ disk' \in [Dir -> Unreadable \cup Seq(BOOLEAN)]
      /\ \A d \in Dir : disk'[d] = IF d = dataDir /\ disk[d] = Absent THEN NoFile ELSE disk[d]
  BY <1>1 DEF Opens, Unreadable
<1>3. UsageTypeOK'
  BY <1>2 DEF UsageInv, UsageTypeOK, Opens, saveVars
<1>4. dataDir = "legacy" => disk.new = Absent /\ disk.legacy # Absent /\ ~renameWorks
  BY DEF UsageInv, Located
<1>5. dataDir = "new" => disk.legacy = Absent
  BY DEF UsageInv, Located, Opens
<1>6. /\ dataDir = "new" => disk'.new # Absent /\ disk'.legacy = Absent
      /\ dataDir = "legacy" => disk' = disk
  BY <1>1, <1>2, <1>4, <1>5, UnreadableContents DEF Dir
<1>7. Located' /\ OneDirectory'
  BY <1>1, <1>4, <1>6 DEF UsageInv, Located, OneDirectory, Opens, Dir
<1>8. Parsed(Current) = Parsed(Current')
  <2>1. CASE dataDir = "legacy"
    BY <2>1, <1>6 DEF Current
  <2>2. CASE dataDir = "new" /\ disk.new # Absent
    BY <2>2, <1>2 DEF Current, Dir
  <2>3. CASE dataDir = "new" /\ disk.new = Absent
    <3>1. Current = Absent /\ Current' = NoFile
      BY <2>3, <1>2, <1>5, UnreadableContents DEF Current, Dir
    <3>. QED
      BY <3>1, ParsedHistory DEF Unreadable
  <2>. QED
    BY <1>1, <2>1, <2>2, <2>3 DEF Dir
<1>9. Found' /\ HistoryIsAdopted' /\ Saved'
  BY <1>8 DEF UsageInv, Found, Opens, HistoryIsAdopted, Saved, saveVars, Parsed
<1>. QED
  BY <1>3, <1>7, <1>9 DEF UsageInv

\* Nothing lies between the file that was found and the one that is read.
LEMMA ReadsKeepsHistory ==
  ASSUME UsageInv, Reads
  PROVE  UsageInv'
<1>1. disk[dataDir] = Current
  BY DEF UsageInv, UsageTypeOK, Located, Reads, Current, Dir
<1>2. records' = Parsed(Current) /\ atBoot = Parsed(Current)
  BY <1>1 DEF UsageInv, Found, Reads
<1>3. records' \in Seq(BOOLEAN)
  BY <1>2 DEF UsageInv, UsageTypeOK
<1>4. UsageTypeOK'
  BY <1>3, RecountedType DEF UsageInv, UsageTypeOK, Reads, saveVars
<1>5. HistoryIsAdopted'
  BY <1>2, <1>3, PrefixOfItself DEF HistoryIsAdopted, Reads
<1>6. disk'[dataDir'] = Current
  BY <1>1 DEF Reads
<1>7. Saved'
  BY <1>2, <1>3, <1>6, PrefixOfItself DEF UsageInv, Saved, Reads, saveVars
<1>8. OneDirectory' /\ Located' /\ Found'
  BY DEF UsageInv, OneDirectory, Located, Found, Reads
<1>. QED
  BY <1>4, <1>5, <1>7, <1>8 DEF UsageInv

LEMMA RecordsKeepHistory ==
  ASSUME UsageInv, NEW outcomes \in Seq(BOOLEAN), RecordAll(outcomes)
  PROVE  UsageInv'
<1>1. records \in Seq(BOOLEAN) /\ snapshot \in Seq(BOOLEAN) /\ atBoot \in Seq(BOOLEAN)
  BY DEF UsageInv, UsageTypeOK
<1>2. records' = records \o outcomes /\ records' \in Seq(BOOLEAN)
  BY <1>1, ConcatProperties DEF RecordAll
<1>3. totals' \in [requests : Nat, failed : Nat]
  <2>1. Len(outcomes) \in Nat
    BY LenProperties
  <2>2. Recounted(outcomes) \in [requests : Nat, failed : Nat]
    BY RecountedType
  <2>3. totals \in [requests : Nat, failed : Nat]
    BY DEF UsageInv, UsageTypeOK
  <2>4. totals' = [requests |-> totals.requests + Len(outcomes),
                   failed   |-> totals.failed + Recounted(outcomes).failed]
    BY DEF RecordAll
  <2>. QED
    BY <2>1, <2>2, <2>3, <2>4
<1>4. UsageTypeOK'
  BY <1>2, <1>3 DEF UsageInv, UsageTypeOK, RecordAll
<1>5. Parsed(disk[dataDir]) \in Seq(BOOLEAN)
  BY ParsedHistory DEF UsageInv, UsageTypeOK
<1>6. \A h \in Seq(BOOLEAN) : IsPrefix(h, records) => IsPrefix(h, records')
  BY <1>1, <1>2, PrefixOfMore
<1>7. disk'[dataDir'] = disk[dataDir]
  BY DEF RecordAll
<1>8. HistoryIsAdopted' /\ Saved'
  BY <1>1, <1>5, <1>6, <1>7 DEF UsageInv, HistoryIsAdopted, Saved, RecordAll
<1>9. OneDirectory' /\ Located' /\ Found'
  BY DEF UsageInv, OneDirectory, Located, Found, Current, RecordAll
<1>. QED
  BY <1>4, <1>8, <1>9 DEF UsageInv

LEMMA TimerKeepsHistory ==
  ASSUME UsageInv, TimerFires \/ SaveFails
  PROVE  UsageInv'
<1>1. UsageTypeOK'
  BY DEF UsageInv, UsageTypeOK, TimerFires, SaveFails
<1>2. OneDirectory' /\ Located' /\ Found' /\ HistoryIsAdopted'
  <2>1. UNCHANGED <<stage, records, dataDir, disk, renameWorks, atBoot>>
    BY DEF TimerFires, SaveFails
  <2>. QED
    BY <2>1 DEF UsageInv, OneDirectory, Located, Found, Current, HistoryIsAdopted
<1>3. Saved'
  BY DEF UsageInv, Saved, TimerFires, SaveFails
<1>. QED
  BY <1>1, <1>2, <1>3 DEF UsageInv

\* A save truncates, or writes, the file of the directory in use.
LEMMA SavingKeepsHistory ==
  ASSUME UsageInv, SaveOpens \/ SaveEnds
  PROVE  UsageInv'
<1>1. disk \in [Dir -> Unreadable \cup Seq(BOOLEAN)] /\ dataDir \in Dir
  BY DEF UsageInv, UsageTypeOK
<1>2. stage = "loaded" /\ records \in Seq(BOOLEAN) /\ snapshot \in Seq(BOOLEAN)
  BY DEF UsageInv, UsageTypeOK, Saved, SaveOpens, SaveEnds
<1>3. PICK content \in Seq(BOOLEAN) \cup {Torn} :
        /\ disk' = [disk EXCEPT ![dataDir] = content]
        /\ content = Torn \/ IsPrefix(content, records)
  BY <1>2 DEF UsageInv, Saved, SaveOpens, SaveEnds
<1>4. content # Absent
  BY UnreadableContents
<1>5. /\ disk' \in [Dir -> Unreadable \cup Seq(BOOLEAN)]
      /\ \A d \in Dir : disk'[d] = IF d = dataDir THEN content ELSE disk[d]
  BY <1>1, <1>3 DEF Unreadable
<1>6. UNCHANGED <<stage, records, totals, saveTimer, dataDir, renameWorks, atBoot, boots>>
  BY DEF SaveOpens, SaveEnds
<1>7. UsageTypeOK'
  BY <1>2, <1>5, <1>6 DEF UsageInv, UsageTypeOK, SaveOpens, SaveEnds
<1>8. disk.new # Absent <=> disk'.new # Absent
  BY <1>1, <1>2, <1>4, <1>5 DEF UsageInv, Located, Dir
<1>9. disk.legacy # Absent <=> disk'.legacy # Absent
  BY <1>1, <1>2, <1>4, <1>5 DEF UsageInv, Located, Dir
<1>10. OneDirectory' /\ Located' /\ Found' /\ HistoryIsAdopted'
  BY <1>2, <1>6, <1>8, <1>9 DEF UsageInv, OneDirectory, Located, Found, HistoryIsAdopted
<1>11. IsPrefix(Parsed(content), records)
  BY <1>2, <1>3, ParsedHistory, PrefixOfItself DEF Unreadable
<1>12. disk'[dataDir'] = content
  BY <1>1, <1>5, <1>6
<1>13. Saved'
  <2>1. IsPrefix(records, records)
    BY <1>2, PrefixOfItself
  <2>2. saving' = "writing" => snapshot' = records
    BY DEF SaveOpens, SaveEnds
  <2>. QED
    BY <1>2, <1>6, <1>11, <1>12, <2>1, <2>2 DEF Saved
<1>. QED
  BY <1>7, <1>10, <1>13 DEF UsageInv

LEMMA ExitsKeepsHistory ==
  ASSUME UsageInv, Exits
  PROVE  UsageInv'
<1>1. <<>> \in Seq(BOOLEAN)
  BY EmptySeq
<1>2. totals' \in [requests : Nat, failed : Nat]
  BY <1>1, RecountedType DEF Exits
<1>3. UsageTypeOK'
  BY <1>1, <1>2 DEF UsageInv, UsageTypeOK, Exits, Dir
<1>. QED
  BY <1>3 DEF UsageInv, OneDirectory, Located, Found, Saved, HistoryIsAdopted, Exits

LEMMA BootsKeepsHistory ==
  ASSUME UsageInv, Boots
  PROVE  UsageInv'
<1>1. atBoot' = Parsed(Current) /\ atBoot' \in Seq(BOOLEAN)
  <2>1. Current \in Unreadable \cup Seq(BOOLEAN)
    BY DEF UsageInv, UsageTypeOK, Current, Dir
  <2>. QED
    BY <2>1, ParsedHistory DEF Boots, Current
<1>2. boots' \in 1..MaxBoots
  <2>1. boots \in 1..MaxBoots /\ MaxBoots \in Nat /\ boots < MaxBoots /\ boots' = boots + 1
    BY UsageAssumption DEF UsageInv, UsageTypeOK, Boots
  <2>. QED
    BY <2>1
<1>3. stage = "down" /\ stage' = "new dir?"
  BY DEF Boots, Up
<1>4. UsageTypeOK'
  BY <1>1, <1>2 DEF UsageInv, UsageTypeOK, Boots, saveVars
<1>5. OneDirectory' /\ Located' /\ Found' /\ Saved' /\ HistoryIsAdopted'
  BY <1>1, <1>3 DEF UsageInv, OneDirectory, Located, Found, Current, Saved, HistoryIsAdopted,
                    Boots, saveVars
<1>. QED
  BY <1>4, <1>5 DEF UsageInv

LEMMA UsageStepKeepsHistory ==
  ASSUME UsageInv, UsageStep
  PROVE  UsageInv'
BY SearchKeepsHistory, AdoptsKeepsHistory, OtherAdoptsKeepsHistory, OpensKeepsHistory,
   ReadsKeepsHistory, TimerKeepsHistory, SavingKeepsHistory, BootsKeepsHistory
   DEF UsageStep

LEMMA UnchangedHistory ==
  ASSUME UsageInv, UNCHANGED usageVars
  PROVE  UsageInv'
BY DEF UsageInv, usageVars, UsageTypeOK, OneDirectory, Located, Found, Current, Saved,
       HistoryIsAdopted

\* Only the start of a save makes a readable history unreadable.
Truncations ==
  \A d \in Dir : Readable(disk[d]) /\ disk'[d] = Torn => IsPrefix(disk[d], records)

LEMMA NoFileNoTruncation ==
  ASSUME UsageInv, disk' = disk
  PROVE  Truncations
<1>1. ~Readable(Torn)
  BY DEF Readable, Unreadable
<1>. QED
  BY <1>1 DEF Truncations

LEMMA UsageStepTruncates ==
  ASSUME UsageInv, UsageStep
  PROVE  Truncations
<1>. disk \in [Dir -> Unreadable \cup Seq(BOOLEAN)] /\ dataDir \in Dir /\ ~Readable(Torn)
  BY DEF UsageInv, UsageTypeOK, Readable, Unreadable
<1>1. CASE Opens
  BY <1>1, UnreadableContents DEF Opens, Truncations
<1>2. CASE SaveOpens
  <2>1. IsPrefix(Parsed(disk[dataDir]), records)
    BY <1>2 DEF UsageInv, Saved, SaveOpens
  <2>2. Readable(disk[dataDir]) => Parsed(disk[dataDir]) = disk[dataDir]
    BY DEF Parsed
  <2>3. \A d \in Dir : d # dataDir => disk'[d] = disk[d]
    BY <1>2 DEF SaveOpens
  <2>. QED
    BY <2>1, <2>2, <2>3 DEF Truncations
<1>3. CASE SaveEnds
  <2>1. snapshot # Torn
    BY UnreadableContents DEF UsageInv, UsageTypeOK
  <2>. QED
    BY <1>3, <2>1 DEF SaveEnds, Truncations
<1>4. CASE CanAdopt /\ disk' = Adopted
  <2>1. ~Readable(disk["new"])
    BY <1>4 DEF CanAdopt, Readable, Unreadable
  <2>2. disk'["legacy"] # Torn
    BY <1>4, UnreadableContents DEF Adopted
  <2>. QED
    BY <2>1, <2>2 DEF Truncations, Dir
<1>5. CASE disk' = disk
  BY <1>5, NoFileNoTruncation
<1>. QED
  BY <1>1, <1>2, <1>3, <1>4, <1>5
  DEF UsageStep, SeeksNew, SeeksLegacy, Adopts, Rechecks, Reads, OtherAdopts, TimerFires,
      SaveFails, Boots

-----------------------------------------------------------------------------
(***************************************************************************)
(* The handlers                                                            *)
(***************************************************************************)
\* q is p after an event: what is asked, and how the run went, stands, unless a
\* listener threw.
Follows(p, q) ==
  /\ q \in RequestRecord
  /\ q.mode = p.mode /\ q.engine = p.engine
  /\ q.runner \in {p.runner, "thrown"} /\ q.failed = p.failed
  /\ q.phase # p.phase => p.phase = "open" /\ q.phase = "cleaning"
  /\ p.phase \in {"idle", "images"} => q.runner = p.runner

\* Its listeners are registered.
Launched(q) == q \in RequestRecord /\ q.phase \notin {"idle", "images"}

\* A response that is over, one way or the other.
Over(q) == q.ended \/ q.sent

\* ... and no success is told.
TellsNoSuccess(p, q) == q.answer = "ok" => p.answer = "ok"

LEMMA FollowsOn ==
  ASSUME NEW p, NEW q, NEW q1, Follows(p, q), Follows(q, q1)
  PROVE  Follows(p, q1)
BY DEF Follows

LEMMA BillFollows ==
  ASSUME NEW q \in RequestRecord, NEW success \in BOOLEAN
  PROVE  /\ Follows(q, Bill(q, success))
         /\ Bill(q, success).answer = q.answer /\ Bill(q, success).ended = q.ended
         /\ Bill(q, success).sent = q.sent /\ Bill(q, success).phase = q.phase
<1>1. Append(q.billed, success) \in Seq(BOOLEAN)
  BY AppendProperties DEF RequestRecord
<1>. QED
  BY <1>1 DEF Bill, Follows, RequestRecord

LEMMA ResolveFollows ==
  ASSUME NEW q \in RequestRecord
  PROVE  /\ Follows(q, Resolve(q))
         /\ Resolve(q).answer = q.answer /\ Resolve(q).ended = q.ended
         /\ Resolve(q).sent = q.sent
BY DEF Resolve, Follows, RequestRecord

LEMMA AnswerFollows ==
  ASSUME NEW q \in RequestRecord, NEW answer \in {"ok", "error"}
  PROVE  /\ Follows(q, Answer(q, answer))
         /\ Answer(q, answer).ended
         /\ Answer(q, answer).phase = q.phase /\ Answer(q, answer).runner = q.runner
         /\ q.ended => Answer(q, answer) = q
         /\ answer = "error" => TellsNoSuccess(q, Answer(q, answer))
<1>. DEFINE sent == ~q.closed
            q1 == [q EXCEPT !.ended = TRUE, !.answer = answer, !.sent = sent]
<1>1. sent \in BOOLEAN
  OBVIOUS
<1>2. Answer(q, answer) = IF q.ended THEN q ELSE q1
  BY DEF Answer
<1>. HIDE DEF sent
<1>3. /\ q1 \in RequestRecord /\ Follows(q, q1) /\ q1.ended /\ q1.answer = answer
      /\ q1.phase = q.phase /\ q1.runner = q.runner
  BY <1>1 DEF Follows, RequestRecord
<1>. HIDE DEF q1
<1>4. Follows(q, q)
  BY DEF Follows
<1>. QED
  BY <1>2, <1>3, <1>4 DEF TellsNoSuccess

\* A second res.json() throws, or is lost: the first one stands.
LEMMA JsonFollows ==
  ASSUME NEW q, Launched(q), NEW answer \in {"ok", "error"}
  PROVE  /\ Follows(q, Json(q, answer)) /\ Launched(Json(q, answer))
         /\ Over(Json(q, answer))
         /\ Over(q) => Json(q, answer).answer = q.answer
         /\ answer = "error" => TellsNoSuccess(q, Json(q, answer))
<1>. DEFINE q1 == [q EXCEPT !.runner = "thrown"]
<1>1. /\ q1 \in RequestRecord /\ Follows(q, q1) /\ q1.answer = q.answer
      /\ q1.sent = q.sent /\ q1.phase = q.phase
  BY DEF Launched, Follows, RequestRecord
<1>2. Json(q, answer) = IF q.sent THEN q1 ELSE Answer(q, answer)
  BY DEF Json
<1>. HIDE DEF q1
<1>3. /\ Follows(q, Answer(q, answer)) /\ Answer(q, answer).ended
      /\ Answer(q, answer).phase = q.phase
      /\ q.ended => Answer(q, answer).answer = q.answer
      /\ answer = "error" => TellsNoSuccess(q, Answer(q, answer))
  BY AnswerFollows DEF Launched
<1>. QED
  BY <1>1, <1>2, <1>3 DEF Over, Launched, Follows, TellsNoSuccess

LEMMA SignalFollows ==
  ASSUME NEW q \in RequestRecord
  PROVE  Follows(q, Signal(q)) /\ Signal(q).answer = q.answer /\ Signal(q).phase = q.phase
BY DEF Signal, Follows, RequestRecord

LEMMA KillFollows ==
  ASSUME NEW q \in RequestRecord
  PROVE  Follows(q, Kill(q)) /\ Kill(q).answer = q.answer /\ Kill(q).phase = q.phase
<1>1. [q EXCEPT !.killed = TRUE] \in RequestRecord
  BY DEF RequestRecord
<1>2. Follows(q, [q EXCEPT !.killed = TRUE]) /\ [q EXCEPT !.killed = TRUE].answer = q.answer
  BY DEF Follows, RequestRecord
<1>3. [q EXCEPT !.killed = TRUE].phase = q.phase
  BY DEF RequestRecord
<1>. QED
  BY <1>1, <1>2, <1>3, SignalFollows DEF Kill, Follows

\* A run that failed is answered as one, or not at all.
LEMMA OnErrorFollows ==
  ASSUME NEW q, Launched(q)
  PROVE  /\ Follows(q, OnError(q)) /\ TellsNoSuccess(q, OnError(q))
         /\ Launched(OnError(q)) /\ OnError(q).mode = q.mode
         /\ q.mode = "stream" => OnError(q).ended
         /\ Over(OnError(q))
<1>. DEFINE q0 == [q EXCEPT !.complete = TRUE]
            q1 == Bill(q0, FALSE)
            q2 == IF q.mode = "stream" THEN Answer(q1, "error") ELSE Json(q1, "error")
<1>1. q0 \in RequestRecord /\ Follows(q, q0) /\ q0.answer = q.answer /\ q0.phase = q.phase
  BY DEF Launched, RequestRecord, Follows
<1>. HIDE DEF q0
<1>2. Launched(q1) /\ Follows(q, q1) /\ q1.answer = q.answer
  <2>1. /\ Follows(q0, q1) /\ q1.answer = q0.answer /\ q1.phase = q0.phase
    BY <1>1, BillFollows
  <2>2. Follows(q, q1)
    BY <1>1, <2>1, FollowsOn
  <2>. QED
    BY <1>1, <2>1, <2>2 DEF Launched, Follows
<1>3. OnError(q) = Resolve(q2)
  BY DEF OnError, q0, q1
<1>. HIDE DEF q1
<1>4. /\ q2 \in RequestRecord /\ Follows(q1, q2) /\ TellsNoSuccess(q1, q2) /\ Over(q2)
      /\ q.mode = "stream" => q2.ended
  BY <1>2, AnswerFollows, JsonFollows DEF Follows, Over, Launched
<1>. HIDE DEF q2
<1>5. Follows(q, q2) /\ TellsNoSuccess(q, q2)
  BY <1>2, <1>4, FollowsOn DEF TellsNoSuccess
<1>6. Follows(q, Resolve(q2)) /\ Resolve(q2).answer = q2.answer
      /\ Resolve(q2).ended = q2.ended /\ Resolve(q2).sent = q2.sent
  BY <1>4, <1>5, ResolveFollows, FollowsOn
<1>. QED
  BY <1>3, <1>4, <1>5, <1>6 DEF Follows, TellsNoSuccess, Over, Launched

\* A response that is over is not answered with a success.
LEMMA OnCloseFollows ==
  ASSUME NEW q, Launched(q)
  PROVE  /\ Follows(q, OnClose(q))
         /\ q.mode = "stream" /\ q.ended => TellsNoSuccess(q, OnClose(q))
         /\ q.mode = "plain" /\ Over(q) => TellsNoSuccess(q, OnClose(q))
<1>1. CASE q.mode = "stream"
  <2>. DEFINE q1 == Answer(q, "ok")
  <2>1. q1 \in RequestRecord /\ Follows(q, q1) /\ (q.ended => q1.answer = q.answer)
    BY AnswerFollows DEF Follows, Launched
  <2>2. OnClose(q) = Resolve(q1)
    BY <1>1 DEF OnClose, OnCloseStream
  <2>. HIDE DEF q1
  <2>3. Follows(q, Resolve(q1)) /\ Resolve(q1).answer = q1.answer
    BY <2>1, ResolveFollows, FollowsOn
  <2>. QED
    BY <1>1, <2>1, <2>2, <2>3 DEF TellsNoSuccess
<1>2. CASE q.mode # "stream"
  <2>. DEFINE q1 == [q EXCEPT !.complete = TRUE]
              q2 == IF q.result THEN Json(Bill(q1, TRUE), "ok")
                    ELSE IF q.sent THEN q1
                    ELSE Json(Bill(q1, FALSE), "error")
  <2>1. /\ Launched(q1) /\ Follows(q, q1) /\ q1.answer = q.answer
        /\ q1.ended = q.ended /\ q1.sent = q.sent
    BY DEF Launched, RequestRecord, Follows
  <2>2. OnClose(q) = Resolve(q2)
    BY <1>2 DEF OnClose, OnClosePlain
  <2>. HIDE DEF q1
  <2>3. ASSUME NEW b \in BOOLEAN
        PROVE  /\ Launched(Bill(q1, b)) /\ Follows(q, Bill(q1, b))
               /\ Bill(q1, b).answer = q.answer
               /\ Over(q) => Over(Bill(q1, b))
    <3>1. q1 \in RequestRecord
      BY <2>1 DEF Launched
    <3>2. /\ Follows(q1, Bill(q1, b)) /\ Bill(q1, b).answer = q1.answer
          /\ Bill(q1, b).ended = q1.ended /\ Bill(q1, b).sent = q1.sent
          /\ Bill(q1, b).phase = q1.phase
      BY <3>1, BillFollows
    <3>. QED
      BY <2>1, <3>2, FollowsOn DEF Launched, Over, Follows
  <2>4. ASSUME NEW b \in BOOLEAN, NEW a \in {"ok", "error"}
        PROVE  /\ Follows(q, Json(Bill(q1, b), a))
               /\ Over(q) => Json(Bill(q1, b), a).answer = q.answer
    BY <2>3, JsonFollows, FollowsOn
  <2>5. q2 \in RequestRecord /\ Follows(q, q2)
    BY <2>1, <2>4 DEF Follows
  <2>6. Over(q) => q2.answer = q.answer
    BY <2>1, <2>4
  <2>. HIDE DEF q2
  <2>7. Follows(q, Resolve(q2)) /\ Resolve(q2).answer = q2.answer
    BY <2>5, ResolveFollows, FollowsOn
  <2>. QED
    BY <1>2, <2>2, <2>6, <2>7 DEF TellsNoSuccess
<1>. QED
  BY <1>1, <1>2

LEMMA OnResultFollows ==
  ASSUME NEW q \in RequestRecord
  PROVE  Follows(q, OnResult(q)) /\ (q.mode = "plain" => TellsNoSuccess(q, OnResult(q)))
<1>. DEFINE q1 == [q EXCEPT !.result = TRUE]
            b == Bill(q1, TRUE)
            q2 == [b EXCEPT !.complete = TRUE]
<1>1. q1 \in RequestRecord /\ Follows(q, q1) /\ q1.answer = q.answer
  BY DEF RequestRecord, Follows
<1>2. OnResult(q) = IF q.mode = "plain" THEN q1 ELSE Resolve(Answer(q2, "ok"))
  BY DEF OnResult
<1>. HIDE DEF q1
<1>3. b \in RequestRecord /\ Follows(q, b)
  BY <1>1, BillFollows, FollowsOn DEF Follows
<1>. HIDE DEF b
<1>4. q2 \in RequestRecord /\ Follows(b, q2)
  BY <1>3 DEF RequestRecord, Follows
<1>. HIDE DEF q2
<1>5. Answer(q2, "ok") \in RequestRecord /\ Follows(q2, Answer(q2, "ok"))
  BY <1>4, AnswerFollows DEF Follows
<1>6. Follows(q, Resolve(Answer(q2, "ok")))
  BY <1>3, <1>4, <1>5, ResolveFollows, FollowsOn
<1>. QED
  BY <1>1, <1>2, <1>6 DEF TellsNoSuccess

LEMMA OnStartRejectedFollows ==
  ASSUME NEW q, Launched(q)
  PROVE  Follows(q, OnStartRejected(q)) /\ TellsNoSuccess(q, OnStartRejected(q))
<1>. DEFINE q1 == Json(q, "error")
<1>1. q1 \in RequestRecord /\ Follows(q, q1) /\ TellsNoSuccess(q, q1)
  BY JsonFollows DEF Follows
<1>2. OnStartRejected(q) = IF q.mode = "stream" THEN OnError(q) ELSE Resolve(q1)
  BY DEF OnStartRejected
<1>. HIDE DEF q1
<1>3. Follows(q, Resolve(q1)) /\ Resolve(q1).answer = q1.answer
  BY <1>1, ResolveFollows, FollowsOn
<1>. QED
  BY <1>1, <1>2, <1>3, OnErrorFollows DEF TellsNoSuccess

LEMMA OnResponseCloseFollows ==
  ASSUME NEW q \in RequestRecord
  PROVE  Follows(q, OnResponseClose(q)) /\ TellsNoSuccess(q, OnResponseClose(q))
<1>. DEFINE q0 == [q EXCEPT !.heard = TRUE]
            q1 == IF q.complete THEN q ELSE Kill(q0)
<1>1. q0 \in RequestRecord /\ Follows(q, q0) /\ q0.answer = q.answer
  BY DEF RequestRecord, Follows
<1>2. OnResponseClose(q) = Resolve(q1)
  BY DEF OnResponseClose
<1>. HIDE DEF q0
<1>3. q1 \in RequestRecord /\ Follows(q, q1) /\ q1.answer = q.answer
  BY <1>1, KillFollows DEF Follows
<1>. HIDE DEF q1
<1>. QED
  BY <1>2, <1>3, ResolveFollows DEF Follows, TellsNoSuccess

-----------------------------------------------------------------------------
(***************************************************************************)
(* The steps of a request                                                  *)
(***************************************************************************)
LEMMA TruthStands ==
  ASSUME NEW p, NEW q, Truthful(p), Follows(p, q), TellsNoSuccess(p, q)
  PROVE  q \in RequestRecord /\ Truthful(q)
BY DEF Truthful, Follows, TellsNoSuccess, Waits

\* Nothing changed that the invariant asks of a request.
Alike(p, q) ==
  /\ q \in RequestRecord
  /\ q.mode = p.mode /\ q.engine = p.engine /\ q.answer = p.answer
  /\ q.phase = p.phase /\ q.runner = p.runner /\ q.failed = p.failed

LEMMA AlikeIsTruthful ==
  ASSUME NEW p, NEW q, Truthful(p), Alike(p, q)
  PROVE  q \in RequestRecord /\ Truthful(q)
BY DEF Truthful, Alike, Waits

\* A step of one request hands what it bills to the tracker.
LEMMA StepKeepsInv ==
  ASSUME IInv, NEW r \in Request, NEW q \in RequestRecord, Truthful(q), Step(r, q), SameCred
  PROVE  IInv' /\ Truncations
<1>1. req \in [Request -> RequestRecord] /\ req' = [req EXCEPT ![r] = q]
  BY DEF IInv, RequestsInv, Step
<1>2. RequestsInv'
  BY <1>1 DEF IInv, RequestsInv
<1>3. CredInv'
  BY DEF IInv, CredInv, SameCred
<1>4. req[r].billed \in Seq(BOOLEAN) /\ q.billed \in Seq(BOOLEAN)
  BY <1>1 DEF RequestRecord
<1>. DEFINE outcomes == SubSeq(q.billed, Len(req[r].billed) + 1, Len(q.billed))
<1>5. outcomes \in Seq(BOOLEAN) /\ RecordAll(outcomes)
  <2>1. req'[r] = q
    BY <1>1
  <2>. QED
    BY <1>4, <2>1, Outcomes DEF Step
<1>. HIDE DEF outcomes
<1>6. UsageInv'
  BY <1>5, RecordsKeepHistory DEF IInv
<1>7. disk' = disk
  BY <1>5 DEF RecordAll
<1>. QED
  BY <1>2, <1>3, <1>6, <1>7, NoFileNoTruncation DEF IInv

\* A failure is told before the end, so that the end does not tell a success.
LEMMA FailureThenEnd ==
  ASSUME NEW q, Launched(q), Truthful(q)
  PROVE  OnClose(OnError(q)) \in RequestRecord /\ Truthful(OnClose(OnError(q)))
<1>. DEFINE q1 == OnError(q)
<1>1. /\ Follows(q, q1) /\ TellsNoSuccess(q, q1) /\ Launched(q1) /\ q1.mode = q.mode
      /\ q.mode = "stream" => q1.ended
      /\ Over(q1)
  BY OnErrorFollows
<1>2. q.mode \in {"stream", "plain"}
  BY DEF Launched, RequestRecord, Mode
<1>. HIDE DEF q1
<1>3. Truthful(q1)
  BY <1>1, TruthStands
<1>4. Follows(q1, OnClose(q1)) /\ TellsNoSuccess(q1, OnClose(q1))
  BY <1>1, <1>2, OnCloseFollows
<1>5. OnClose(q1) \in RequestRecord /\ Truthful(OnClose(q1))
  BY <1>3, <1>4, TruthStands
<1>. QED
  BY <1>5 DEF q1

LEMMA LaunchIsTruthful ==
  ASSUME IInv, NEW q \in RequestRecord, Truthful(q), q.runner = "none"
  PROVE  Launch(q) \in RequestRecord /\ Truthful(Launch(q))
<1>. cred \in Cred \cup {None}
  BY DEF IInv, CredInv
<1>. DEFINE q1 == [q EXCEPT !.phase = "open"]
            q2 == [q1 EXCEPT !.runner = "closed", !.failed = TRUE]
            key == IF q.engine = "codex_custom" THEN cred ELSE None
            q3 == [q1 EXCEPT !.runner = "preparing", !.key = key]
<1>1. ~(Waits(q) /\ q.answer = "ok")
  BY DEF Truthful
<1>2. /\ q1 \in RequestRecord /\ q1.mode = q.mode /\ q1.engine = q.engine
      /\ q1.answer = q.answer /\ q1.phase = "open"
  BY DEF RequestRecord
<1>3. Launch(q) = IF q.engine = "codex_custom" /\ cred = None
                   THEN OnClose(OnError(q2)) ELSE q3
  BY <1>2 DEF Launch
<1>. HIDE DEF q1
<1>4. Launched(q2) /\ Truthful(q2)
  <2>1. /\ q2 \in RequestRecord /\ q2.mode = q.mode /\ q2.engine = q.engine
        /\ q2.answer = q.answer /\ q2.phase = "open"
    BY <1>2 DEF RequestRecord
  <2>. QED
    BY <1>1, <2>1 DEF Truthful, Waits, Launched
<1>5. key \in Cred \cup {None}
  OBVIOUS
<1>. HIDE DEF q2, key
<1>6. /\ q3 \in RequestRecord /\ q3.mode = q.mode /\ q3.engine = q.engine
      /\ q3.answer = q.answer /\ q3.phase = "open"
  BY <1>2, <1>5 DEF RequestRecord
<1>7. Truthful(q3)
  BY <1>1, <1>6 DEF Truthful, Waits
<1>. HIDE DEF q3
<1>. QED
  BY <1>3, <1>4, <1>6, <1>7, FailureThenEnd

\* The request at hand, in a step.
LEMMA AtHand ==
  ASSUME IInv, NEW r \in Request
  PROVE  req[r] \in RequestRecord /\ Truthful(req[r])
BY DEF IInv, RequestsInv

\* handleChatCompletions() outside the run.
LEMMA ArrivesKeepsInv ==
  ASSUME IInv, NEW r \in Request, Arrives(r) \/ ImagesWritten(r)
  PROVE  IInv' /\ Truncations
<1>. DEFINE q == req[r]
            q1 == [q EXCEPT !.phase = "images", !.images = TRUE]
<1>1. q \in RequestRecord /\ Truthful(q) /\ q.phase \in {"idle", "images"}
  BY AtHand DEF Arrives, ImagesWritten
<1>2. q.runner = "none"
  BY <1>1 DEF Truthful
<1>3. q1 \in RequestRecord /\ Truthful(q1)
  <2>1. /\ q1 \in RequestRecord /\ q1.mode = q.mode /\ q1.engine = q.engine
        /\ q1.answer = q.answer /\ q1.runner = q.runner
    BY <1>1 DEF RequestRecord
  <2>. QED
    BY <1>1, <1>2, <2>1 DEF Truthful, Waits
<1>4. Launch(q) \in RequestRecord /\ Truthful(Launch(q))
  BY <1>1, <1>2, LaunchIsTruthful
<1>5. SameCred /\ (Step(r, Launch(q)) \/ Step(r, q1))
  BY DEF Arrives, ImagesWritten
<1>. QED
  BY <1>3, <1>4, <1>5, StepKeepsInv

LEMMA FailsTruthfully ==
  ASSUME NEW q \in RequestRecord, Truthful(q)
  PROVE  /\ Bill(q, FALSE) \in RequestRecord /\ Truthful(Bill(q, FALSE))
         /\ Answer(q, "error") \in RequestRecord /\ Truthful(Answer(q, "error"))
BY BillFollows, AnswerFollows, TruthStands DEF TellsNoSuccess

\* A request that leaves the listeners' part of its life.
LEMMA EndsTruthfully ==
  ASSUME NEW q \in RequestRecord, Truthful(q), NEW phase \in {"cleaning", "done"},
         NEW images \in BOOLEAN, NEW error \in BOOLEAN
  PROVE  LET p == [q EXCEPT !.phase = phase, !.images = images, !.error = error]
         IN  p \in RequestRecord /\ Truthful(p)
<1>. DEFINE p == [q EXCEPT !.phase = phase, !.images = images, !.error = error]
<1>1. phase \in {"idle", "images", "open", "cleaning", "done", "gone"}
  OBVIOUS
<1>2. p \in RequestRecord
  BY <1>1 DEF RequestRecord
<1>3. /\ p.mode = q.mode /\ p.engine = q.engine /\ p.answer = q.answer
      /\ p.phase = phase /\ p.runner = q.runner /\ p.failed = q.failed
  BY DEF RequestRecord
<1>. QED
  BY <1>2, <1>3 DEF Truthful, Waits

LEMMA EndsKeepInv ==
  ASSUME IInv, NEW r \in Request, Refused(r) \/ ImagesFail(r) \/ CleanedUp(r)
  PROVE  IInv' /\ Truncations
<1>. DEFINE q == req[r]
            told == Answer(q, "error")
            billed == Answer(Bill(q, FALSE), "error")
            q1 == [told EXCEPT !.phase = "done"]
            q2 == [billed EXCEPT !.phase = "done", !.images = FALSE]
            q3 == [q EXCEPT !.phase = "cleaning", !.error = TRUE]
            q4 == [q EXCEPT !.phase = "done", !.images = FALSE]
            Fine(p) == p \in RequestRecord /\ Truthful(p)
<1>1. Fine(q)
  BY AtHand
<1>. HIDE DEF q
<1>2. Fine(told) /\ Fine(Bill(q, FALSE)) /\ Fine(billed)
  BY <1>1, FailsTruthfully
<1>. HIDE DEF told, billed
<1>3. Fine(q1)
  <2>1. {told.images, told.error} \subseteq BOOLEAN
        /\ q1 = [told EXCEPT !.phase = "done", !.images = told.images, !.error = told.error]
    BY <1>2 DEF RequestRecord
  <2>. HIDE DEF q1
  <2>. QED
    BY <1>2, <2>1, EndsTruthfully
<1>4. Fine(q2)
  <2>1. billed.error \in BOOLEAN
        /\ q2 = [billed EXCEPT !.phase = "done", !.images = FALSE, !.error = billed.error]
    BY <1>2 DEF RequestRecord
  <2>. HIDE DEF q2
  <2>. QED
    BY <1>2, <2>1, EndsTruthfully
<1>5. Fine(q3)
  <2>1. q.images \in BOOLEAN
        /\ q3 = [q EXCEPT !.phase = "cleaning", !.images = q.images, !.error = TRUE]
    BY <1>1 DEF RequestRecord
  <2>. HIDE DEF q3
  <2>. QED
    BY <1>1, <2>1, EndsTruthfully
<1>6. Fine(q4)
  <2>1. q.error \in BOOLEAN
        /\ q4 = [q EXCEPT !.phase = "done", !.images = FALSE, !.error = q.error]
    BY <1>1 DEF RequestRecord
  <2>. HIDE DEF q4
  <2>. QED
    BY <1>1, <2>1, EndsTruthfully
<1>7. \E p \in {q1, Bill(q1, FALSE), q2, q3, q4, Answer(Bill(q4, FALSE), "error")} :
        Step(r, p)
  BY DEF Refused, ImagesFail, CleanedUp, q, told, billed, q1, q2, q3, q4
<1>8. SameCred
  BY DEF Refused, ImagesFail, CleanedUp
<1>. HIDE DEF q1, q2, q3, q4
<1>9. Fine(Bill(q1, FALSE)) /\ Fine(Answer(Bill(q4, FALSE), "error"))
  BY <1>3, <1>6, FailsTruthfully
<1>. QED
  BY <1>3, <1>4, <1>5, <1>6, <1>7, <1>8, <1>9, StepKeepsInv

\* The runner, up to the outcome of its child.
LEMMA RunsKeepInv ==
  ASSUME IInv, NEW r \in Request, Prepared(r) \/ Spawns(r) \/ Reported(r)
  PROVE  IInv' /\ Truncations
<1>. DEFINE q == req[r]
            q1 == [q EXCEPT !.runner = "executing", !.cwd = TRUE, !.home = q.key]
            q2 == [q EXCEPT !.child = "running"]
            q3 == [q EXCEPT !.reported = TRUE]
<1>1. q \in RequestRecord /\ Truthful(q)
  BY AtHand
<1>2. CASE Prepared(r)
  <2>1. q.runner = "preparing"
    BY <1>2 DEF Prepared
  <2>2. q1 \in RequestRecord
    BY <1>1 DEF RequestRecord
  <2>3. /\ q1.mode = q.mode /\ q1.engine = q.engine /\ q1.answer = q.answer
        /\ q1.phase = q.phase
    BY <1>1 DEF RequestRecord
  <2>4. Truthful(q1)
    BY <1>1, <2>1, <2>3 DEF Truthful, Waits
  <2>. QED
    BY <1>2, <2>2, <2>4, StepKeepsInv DEF Prepared
<1>3. CASE Spawns(r)
  <2>1. Alike(q, q2)
    BY <1>1 DEF RequestRecord, Alike
  <2>. QED
    BY <1>1, <1>3, <2>1, AlikeIsTruthful, StepKeepsInv DEF Spawns
<1>4. CASE Reported(r)
  <2>0. Alike(q, q3)
    BY <1>1 DEF RequestRecord, Alike
  <2>1. q3 \in RequestRecord /\ Truthful(q3)
    BY <1>1, <2>0, AlikeIsTruthful
  <2>2. Step(r, IF q3.killed THEN Signal(q3) ELSE q3) /\ SameCred
    BY <1>4 DEF Reported
  <2>. HIDE DEF q3
  <2>3. Signal(q3) \in RequestRecord /\ Truthful(Signal(q3))
    BY <2>1, SignalFollows, TruthStands DEF TellsNoSuccess
  <2>. QED
    BY <2>1, <2>2, <2>3, StepKeepsInv
<1>. QED
  BY <1>2, <1>3, <1>4

LEMMA PreparationFailsKeepsInv ==
  ASSUME IInv, NEW r \in Request, PreparationFails(r)
  PROVE  IInv' /\ Truncations
<1>. DEFINE q == [req[r] EXCEPT !.runner = "rejected", !.failed = TRUE]
<1>1. Launched(q) /\ Truthful(q)
  <2>1. req[r] \in RequestRecord /\ Truthful(req[r]) /\ req[r].runner = "preparing"
    BY AtHand DEF PreparationFails
  <2>2. /\ q \in RequestRecord /\ q.mode = req[r].mode /\ q.engine = req[r].engine
        /\ q.answer = req[r].answer /\ q.phase = req[r].phase /\ q.runner = "rejected"
    BY <2>1 DEF RequestRecord
  <2>. QED
    BY <2>1, <2>2 DEF Truthful, Waits, Launched
<1>2. Step(r, OnStartRejected(q)) /\ SameCred
  BY DEF PreparationFails
<1>. HIDE DEF q
<1>3. OnStartRejected(q) \in RequestRecord /\ Truthful(OnStartRejected(q))
  BY <1>1, OnStartRejectedFollows, TruthStands
<1>. QED
  BY <1>2, <1>3, StepKeepsInv

LEMMA PrintsResultKeepsInv ==
  ASSUME IInv, NEW r \in Request, PrintsResult(r)
  PROVE  IInv' /\ Truncations
<1>. DEFINE q == req[r]
            q1 == [q EXCEPT !.inBand = TRUE]
<1>1. q \in RequestRecord /\ Truthful(q) /\ q.engine = "claude" /\ q.runner = "executing"
  BY AtHand DEF PrintsResult
<1>2. q1 \in RequestRecord /\ Truthful(q1)
  <2>1. Alike(q, q1)
    BY <1>1 DEF RequestRecord, Alike
  <2>. QED
    BY <1>1, <2>1, AlikeIsTruthful
<1>3. (Step(r, OnResult(q)) \/ Step(r, q1)) /\ SameCred
  BY DEF PrintsResult
<1>. HIDE DEF q, q1
<1>4. OnResult(q) \in RequestRecord /\ Truthful(OnResult(q))
  <2>1. Follows(q, OnResult(q)) /\ (q.mode = "plain" => TellsNoSuccess(q, OnResult(q)))
    BY <1>1, OnResultFollows
  <2>. QED
    BY <1>1, <2>1 DEF Truthful, Follows, TellsNoSuccess, Waits
<1>. QED
  BY <1>2, <1>3, <1>4, StepKeepsInv

\* The run gets its outcome, which a codex run that succeeded tells at once.
LEMMA SettlesKeepsInv ==
  ASSUME IInv, NEW r \in Request, Settles(r)
  PROVE  IInv' /\ Truncations
<1>1. req[r] \in RequestRecord /\ Truthful(req[r]) /\ req[r].runner = "executing"
  BY AtHand DEF Settles
<1>2. ASSUME NEW ok \in BOOLEAN,
             LET q == [Concluded(req[r], ok) EXCEPT !.runner = "settling"]
             IN  Step(r, IF q.engine # "claude" /\ ~q.failed THEN OnResult(q) ELSE q)
      PROVE  IInv' /\ Truncations
  <2>. DEFINE q0 == Concluded(req[r], ok)
              q == [q0 EXCEPT !.runner = "settling"]
  <2>1. /\ q0 \in RequestRecord /\ q0.mode = req[r].mode /\ q0.engine = req[r].engine
        /\ q0.answer = req[r].answer /\ q0.phase = req[r].phase
    <3>. DEFINE failed == ~ok \/ req[r].inBand
    <3>1. failed \in BOOLEAN
      OBVIOUS
    <3>2. q0 = [req[r] EXCEPT !.failed = failed]
      BY DEF Concluded
    <3>. HIDE DEF failed, q0
    <3>. QED
      BY <1>1, <3>1, <3>2 DEF RequestRecord
  <2>2. Step(r, IF q.engine # "claude" /\ ~q.failed THEN OnResult(q) ELSE q) /\ SameCred
    BY <1>2 DEF Settles
  <2>. HIDE DEF q0
  <2>3. q \in RequestRecord /\ Truthful(q) /\ q.runner = "settling"
    <3>1. q \in RequestRecord
      BY <2>1 DEF RequestRecord
    <3>2. /\ q.mode = q0.mode /\ q.engine = q0.engine /\ q.answer = q0.answer
          /\ q.phase = q0.phase /\ q.runner = "settling"
      BY <2>1 DEF RequestRecord
    <3>. QED
      BY <1>1, <2>1, <3>1, <3>2 DEF Truthful, Waits
  <2>. HIDE DEF q
  <2>4. ASSUME ~q.failed PROVE OnResult(q) \in RequestRecord /\ Truthful(OnResult(q))
    <3>1. Follows(q, OnResult(q))
      BY <2>3, OnResultFollows
    <3>. QED
      BY <2>3, <2>4, <3>1 DEF Truthful, Follows
  <2>. QED
    BY <2>2, <2>3, <2>4, StepKeepsInv
<1>3. ASSUME Step(r, [req[r] EXCEPT !.runner = "thrown", !.failed = TRUE])
      PROVE  IInv' /\ Truncations
  <2>. DEFINE q == [req[r] EXCEPT !.runner = "thrown", !.failed = TRUE]
  <2>1. /\ q \in RequestRecord /\ q.mode = req[r].mode /\ q.engine = req[r].engine
        /\ q.answer = req[r].answer /\ q.phase = req[r].phase /\ q.runner = "thrown"
    BY <1>1 DEF RequestRecord
  <2>2. Truthful(q)
    BY <1>1, <2>1 DEF Truthful, Waits
  <2>3. Step(r, q) /\ SameCred
    BY <1>3 DEF Settles
  <2>. QED
    BY <2>1, <2>2, <2>3, StepKeepsInv
<1>. QED
  BY <1>2, <1>3 DEF Settles

LEMMA ClosingIsTruthful ==
  ASSUME NEW q \in RequestRecord, Truthful(q), q.runner \in {"settling", "thrown"}
  PROVE  Launched(Closing(q)) /\ Truthful(Closing(q)) /\ Closing(q).runner = "closed"
<1>. DEFINE p == Closing(q)
<1>1. /\ p \in RequestRecord /\ p.mode = q.mode /\ p.engine = q.engine
      /\ p.answer = q.answer /\ p.phase = q.phase /\ p.runner = "closed"
      /\ p.failed = q.failed
  BY DEF Closing, RequestRecord
<1>. QED
  BY <1>1 DEF Truthful, Waits, Launched

LEMMA RunClosesKeepsInv ==
  ASSUME IInv, NEW r \in Request, RunCloses(r)
  PROVE  IInv' /\ Truncations
<1>. DEFINE q == Closing(req[r])
            q1 == IF q.failed THEN OnError(q) ELSE q
<1>1. Launched(q) /\ Truthful(q) /\ q.runner = "closed"
  BY AtHand, ClosingIsTruthful DEF RunCloses
<1>2. Step(r, OnClose(q1)) /\ SameCred
  BY DEF RunCloses
<1>. HIDE DEF q
<1>3. OnClose(q1) \in RequestRecord /\ Truthful(OnClose(q1))
  <2>1. CASE q.failed
    BY <1>1, <2>1, FailureThenEnd
  <2>2. CASE ~q.failed
    BY <1>1, <2>2, OnCloseFollows DEF Follows, Truthful, Launched
  <2>. QED
    BY <2>1, <2>2
<1>. QED
  BY <1>2, <1>3, StepKeepsInv

\* The runner's last handler, unless it ends the process.
LEMMA RunCatchesKeepsInv ==
  ASSUME IInv, NEW r \in Request, RunCatches(r), ~ProcessExits
  PROVE  IInv' /\ Truncations
<1>. DEFINE q == Closing(req[r])
<1>1. Launched(q) /\ Truthful(q)
  BY AtHand, ClosingIsTruthful DEF RunCatches
<1>2. Step(r, OnClose(OnError(q))) /\ SameCred
  BY DEF RunCatches
<1>. HIDE DEF q
<1>. QED
  BY <1>1, <1>2, FailureThenEnd, StepKeepsInv

LEMMA ResponseClosesKeepsInv ==
  ASSUME IInv, NEW r \in Request, ResponseCloses(r)
  PROVE  IInv' /\ Truncations
<1>. DEFINE q == [req[r] EXCEPT !.closed = TRUE]
<1>1. q \in RequestRecord /\ Truthful(q)
  <2>1. req[r] \in RequestRecord /\ Truthful(req[r])
    BY AtHand
  <2>2. Alike(req[r], q)
    BY <2>1 DEF RequestRecord, Alike
  <2>. QED
    BY <2>1, <2>2, AlikeIsTruthful
<1>2. Step(r, IF q.runner = "none" THEN q ELSE OnResponseClose(q)) /\ SameCred
  BY DEF ResponseCloses
<1>. HIDE DEF q
<1>3. OnResponseClose(q) \in RequestRecord /\ Truthful(OnResponseClose(q))
  BY <1>1, OnResponseCloseFollows, TruthStands
<1>. QED
  BY <1>1, <1>2, <1>3, StepKeepsInv

-----------------------------------------------------------------------------
(***************************************************************************)
(* The invariant and the theorems                                          *)
(***************************************************************************)
LEMMA NewIsTruthful ==
  ASSUME NEW mode \in Mode, NEW engine \in Engine
  PROVE  /\ NewRequest(mode, engine) \in RequestRecord
         /\ [NewRequest(mode, engine) EXCEPT !.phase = "gone"] \in RequestRecord
         /\ Truthful(NewRequest(mode, engine))
         /\ Truthful([NewRequest(mode, engine) EXCEPT !.phase = "gone"])
<1>1. <<>> \in Seq(BOOLEAN)
  BY EmptySeq
<1>2. None # "ok"
  BY RunAssumption
<1>3. NewRequest(mode, engine) \in RequestRecord
  BY <1>1 DEF NewRequest, RequestRecord
<1>4. [NewRequest(mode, engine) EXCEPT !.phase = "gone"] \in RequestRecord
  BY <1>3 DEF RequestRecord
<1>5. /\ NewRequest(mode, engine).answer = None
      /\ NewRequest(mode, engine).runner = "none"
      /\ [NewRequest(mode, engine) EXCEPT !.phase = "gone"].answer = None
      /\ [NewRequest(mode, engine) EXCEPT !.phase = "gone"].runner = "none"
  BY DEF NewRequest
<1>. QED
  BY <1>2, <1>3, <1>4, <1>5 DEF Truthful

LEMMA Initially == Init => IInv
<1>. SUFFICES ASSUME Init PROVE IInv
  OBVIOUS
<1>1. UsageInv
  BY UsageInitially DEF Init
<1>2. PICK mode \in [Request -> Mode], engine \in [Request -> Engine] :
        req = [r \in Request |-> NewRequest(mode[r], engine[r])]
  BY DEF Init
<1>3. \A r \in Request :
        LET q == NewRequest(mode[r], engine[r]) IN q \in RequestRecord /\ Truthful(q)
  BY NewIsTruthful
<1>4. RequestsInv
  BY <1>2, <1>3 DEF RequestsInv
<1>5. CredInv
  BY RunAssumption DEF Init, CredInv, Cred
<1>. QED
  BY <1>1, <1>4, <1>5 DEF IInv

LEMMA CredentialKeepsInv ==
  ASSUME IInv, CredentialChanges
  PROVE  IInv' /\ Truncations
<1>1. creds \in 0..MaxCred /\ MaxCred \in Nat /\ creds < MaxCred /\ creds' = creds + 1
  BY RunAssumption DEF IInv, CredInv, CredentialChanges
<1>2. creds' \in 0..MaxCred /\ creds' + 1 \in Cred
  BY <1>1 DEF Cred
<1>3. CredInv'
  BY <1>2 DEF CredInv, CredentialChanges
<1>4. UNCHANGED req /\ UNCHANGED usageVars
  BY DEF CredentialChanges
<1>5. UsageInv' /\ Truncations
  BY <1>4, UnchangedHistory, NoFileNoTruncation DEF IInv, usageVars
<1>. QED
  BY <1>3, <1>4, <1>5 DEF IInv, RequestsInv

LEMMA ExitKeepsInv ==
  ASSUME IInv, ProcessExits
  PROVE  IInv' /\ Truncations
<1>1. UsageInv' /\ Truncations
  BY ExitsKeepsHistory, NoFileNoTruncation DEF IInv, ProcessExits, Exits
<1>2. CredInv'
  BY DEF IInv, CredInv, ProcessExits
<1>3. req \in [Request -> RequestRecord]
  BY DEF IInv, RequestsInv
<1>4. \A r \in Request : req'[r] \in RequestRecord /\ Truthful(req'[r])
  <2>. TAKE r \in Request
  <2>. DEFINE q == [NewRequest(req[r].mode, req[r].engine) EXCEPT !.phase = "gone"]
  <2>1. req[r].mode \in Mode /\ req[r].engine \in Engine
    BY <1>3 DEF RequestRecord
  <2>2. q \in RequestRecord /\ Truthful(q)
    BY <2>1, NewIsTruthful
  <2>3. req'[r] = IF req[r].phase = "idle" THEN req[r] ELSE q
    BY DEF ProcessExits
  <2>. QED
    BY <2>2, <2>3 DEF IInv, RequestsInv
<1>5. req' \in [Request -> RequestRecord]
  BY <1>4 DEF ProcessExits
<1>. QED
  BY <1>1, <1>2, <1>4, <1>5 DEF IInv, RequestsInv

LEMMA ChildExitsKeepsInv ==
  ASSUME IInv, NEW r \in Request, ChildExits(r)
  PROVE  IInv' /\ Truncations
<1>. DEFINE q == [req[r] EXCEPT !.child = "exited"]
<1>1. req[r] \in RequestRecord /\ Truthful(req[r]) /\ req \in [Request -> RequestRecord]
  BY DEF IInv, RequestsInv
<1>2. Alike(req[r], q)
  BY <1>1 DEF RequestRecord, Alike
<1>3. q \in RequestRecord /\ Truthful(q)
  BY <1>1, <1>2, AlikeIsTruthful
<1>4. req' = [req EXCEPT ![r] = q] /\ UNCHANGED <<cred, creds>> /\ UNCHANGED usageVars
  BY DEF ChildExits, SameCred
<1>. HIDE DEF q
<1>5. RequestsInv' /\ CredInv'
  BY <1>1, <1>3, <1>4 DEF IInv, RequestsInv, CredInv
<1>6. UsageInv' /\ Truncations
  BY <1>4, UnchangedHistory, NoFileNoTruncation DEF IInv, usageVars
<1>. QED
  BY <1>5, <1>6 DEF IInv

LEMMA NextKeepsInv ==
  ASSUME IInv, [Next]_vars
  PROVE  IInv' /\ Truncations
<1>1. CASE Next
  <2>1. CASE UsageStep /\ UNCHANGED <<req, cred, creds>>
    BY <2>1, UsageStepKeepsHistory, UsageStepTruncates DEF IInv, RequestsInv, CredInv
  <2>. QED
    BY <1>1, <2>1, ArrivesKeepsInv, EndsKeepInv, RunsKeepInv, PreparationFailsKeepsInv,
       PrintsResultKeepsInv, ChildExitsKeepsInv, SettlesKeepsInv, RunClosesKeepsInv,
       RunCatchesKeepsInv,
       ResponseClosesKeepsInv, CredentialKeepsInv, ExitKeepsInv
       DEF Next
<1>2. CASE UNCHANGED vars
  <2>1. UsageInv' /\ Truncations
    BY <1>2, UnchangedHistory, NoFileNoTruncation DEF IInv, vars, usageVars
  <2>. QED
    BY <1>2, <2>1 DEF vars, IInv, RequestsInv, CredInv
<1>. QED
  BY <1>1, <1>2

THEOREM Invariance == Spec => []IInv
<1>1. IInv /\ [Next]_vars => IInv'
  BY NextKeepsInv
<1>. QED
  BY <1>1, Initially, PTL DEF Spec

\* Whoever gets a whole answer is not told that a failed run succeeded, in
\* whatever order the results, errors and ends of a run and the disconnect of
\* its client come.
THEOREM SuccessIsTrue == Spec => []SuccessIsSuccess
<1>1. IInv => SuccessIsSuccess
  <2>. SUFFICES ASSUME IInv PROVE SuccessIsSuccess
    OBVIOUS
  <2>1. TypeOK
    BY DEF IInv, UsageInv, RequestsInv, CredInv, RequestRecord, TypeOK
  <2>2. \A r \in Request :
          req[r].answer = "ok" /\ (req[r].mode = "plain" \/ req[r].engine # "claude")
            => ~req[r].failed
    BY DEF IInv, RequestsInv, Truthful, Waits
  <2>. QED
    BY <2>1, <2>2 DEF SuccessIsSuccess
<1>. QED
  BY <1>1, Invariance, PTL

\* No start of the process serves less history than it found, whoever renames
\* the directory of the former name and whenever.
THEOREM HistoriesAreAdopted == Spec => []HistoryIsAdopted
<1>1. IInv => HistoryIsAdopted
  BY DEF IInv, UsageInv
<1>. QED
  BY <1>1, Invariance, PTL

\* No save truncates a history that is not in memory as well.
THEOREM HistoriesAreKept == Spec => HistoryIsKept
<1>1. IInv /\ [Next]_vars =>
        [\A d \in Dir :
           Readable(disk[d]) /\ disk'[d] = Torn => IsPrefix(disk[d], records)]_usageVars
  BY NextKeepsInv DEF Truncations
<1>. QED
  BY <1>1, Invariance, PTL DEF Spec, HistoryIsKept

=============================================================================
