---------------------------- MODULE UsageTracker ----------------------------
(***************************************************************************)
(* The usage history of src/src/usage/tracker.ts: records in memory, saved *)
(* by a debounced rewrite of usage.json that is not atomic, read back when *)
(* the process starts, after adopting the directory of the product's       *)
(* former name.                                                            *)
(*                                                                         *)
(* A record is whether its request succeeded.  Two timing assumptions, in  *)
(* the guards: reading and writing one file takes less than the 5 s of the *)
(* debounce.  A rename of the old directory fails for a reason that lasts. *)
(***************************************************************************)
EXTENDS Naturals, Sequences, FiniteSets, SequencesExt

CONSTANTS
  Absent,  \* no such directory
  NoFile,  \* a directory without usage.json
  Torn,    \* a usage.json that JSON.parse refuses
  MaxBoots \* bound: starts of the process

Dir == {"new", "legacy"}

\* What another version of the product may have left behind.
OldHistory == <<TRUE>>

\* What stands for the contents that hold no history is none itself.
Unreadable == {Absent, NoFile, Torn}

ASSUME UsageAssumption ==
  /\ Cardinality(Unreadable) = 3
  /\ Unreadable \cap Seq(BOOLEAN) = {}
  /\ MaxBoots \in Nat \ {0}

VARIABLES
  stage,       \* where load() is; "down" without a process
  records,     \* as in the code
  totals,      \* totalRequests and failedRequests
  saveTimer,   \* saveDebounce is armed
  saving,      \* None-like "no", or where save() is
  snapshot,    \* what the running save() serialized
  dataDir,     \* the directory in use
  disk,        \* directory -> content of its usage.json
  renameWorks, \* whether this host lets the old directory be renamed
  atBoot,      \* history: what this start found on disk
  boots

usageVars == <<stage, records, totals, saveTimer, saving, snapshot, dataDir,
               disk, renameWorks, atBoot, boots>>
saveVars == <<saveTimer, saving, snapshot>>

Up == stage # "down"

Readable(content) == content \notin Unreadable

\* `parsed.records`, or the catch block's empty list.
Parsed(content) == IF Readable(content) THEN content ELSE <<>>

\* recountTotals()
Recounted(history) ==
  [requests |-> Len(history),
   failed   |-> Cardinality({i \in DOMAIN history : ~history[i]})]

UsageInit ==
  /\ stage = "new dir?"
  /\ records = <<>>
  /\ totals = Recounted(<<>>)
  /\ saveTimer = FALSE
  /\ saving = "no"
  /\ snapshot = <<>>
  /\ dataDir = "new"
  /\ disk \in [new : {Absent}, legacy : {Absent, OldHistory}]
  /\ renameWorks \in {TRUE, disk.legacy = Absent}
  /\ atBoot = Parsed(IF disk.new # Absent THEN disk.new ELSE disk.legacy)
  /\ boots = 1

-----------------------------------------------------------------------------
(* load()                                                                  *)

\* migrateLegacyDataDir(): access() of the new directory ...
SeeksNew ==
  /\ stage = "new dir?"
  /\ stage' = IF disk.new # Absent THEN "open" ELSE "old dir?"
  /\ UNCHANGED <<records, totals, saveVars, dataDir, disk, renameWorks, atBoot, boots>>

\* ... of the old one ...
SeeksLegacy ==
  /\ stage = "old dir?"
  /\ stage' = IF disk.legacy # Absent THEN "adopt" ELSE "open"
  /\ UNCHANGED <<records, totals, saveVars, dataDir, disk, renameWorks, atBoot, boots>>

CanAdopt ==
  /\ renameWorks
  /\ disk.legacy # Absent
  /\ disk.new \in {Absent, NoFile}

Adopted == [new |-> disk.legacy, legacy |-> Absent]

\* ... and the rename, which another process may have done first.
Adopts ==
  /\ stage = "adopt"
  /\ IF CanAdopt
     THEN disk' = Adopted /\ stage' = "open"
     ELSE disk' = disk /\ stage' = "recheck"
  /\ UNCHANGED <<records, totals, saveVars, dataDir, renameWorks, atBoot, boots>>

\* Mutant of Rechecks: reads in place without another look.
RechecksNothing ==
  /\ stage = "recheck"
  /\ dataDir' = "legacy"
  /\ stage' = "open"
  /\ UNCHANGED <<records, totals, saveVars, disk, renameWorks, atBoot, boots>>

\* The rename failed: another process won, or the old directory is used as is.
Rechecks ==
  /\ stage = "recheck"
  /\ dataDir' = IF disk.new # Absent THEN "new" ELSE "legacy"
  /\ stage' = "open"
  /\ UNCHANGED <<records, totals, saveVars, disk, renameWorks, atBoot, boots>>

\* mkdir of the directory in use.
Opens ==
  /\ stage = "open"
  /\ disk' = [disk EXCEPT ![dataDir] = IF @ = Absent THEN NoFile ELSE @]
  /\ stage' = "read"
  /\ UNCHANGED <<records, totals, saveVars, dataDir, renameWorks, atBoot, boots>>

\* Mutant of Reads: looks for the history under another key.
ReadsNothing ==
  /\ stage = "read"
  /\ records' = <<>>
  /\ totals' = Recounted(records')
  /\ stage' = "loaded"
  /\ UNCHANGED <<saveVars, dataDir, disk, renameWorks, atBoot, boots>>

\* The file is read; records made meanwhile are overwritten.
Reads ==
  /\ stage = "read"
  /\ records' = Parsed(disk[dataDir])
  /\ totals' = Recounted(records')
  /\ stage' = "loaded"
  /\ UNCHANGED <<saveVars, dataDir, disk, renameWorks, atBoot, boots>>

\* Another process of this user adopts the old directory.
OtherAdopts ==
  /\ CanAdopt
  /\ disk.new = Absent
  /\ disk' = Adopted
  /\ UNCHANGED <<stage, records, totals, saveVars, dataDir, renameWorks, atBoot, boots>>

-----------------------------------------------------------------------------
(* record() and save()                                                     *)

\* record(), once per outcome of the sequence, and debouncedSave().
RecordAll(outcomes) ==
  /\ records' = records \o outcomes
  /\ totals' = [requests |-> totals.requests + Len(outcomes),
                failed   |-> totals.failed + Recounted(outcomes).failed]
  /\ saveTimer' = (saveTimer \/ outcomes # <<>>)
  /\ UNCHANGED <<stage, saving, snapshot, dataDir, disk, renameWorks, atBoot, boots>>

\* The debounce ends.  No read and no write takes that long.
TimerFires ==
  /\ saveTimer
  /\ stage = "loaded"
  /\ saving = "no"
  /\ saveTimer' = FALSE
  /\ saving' = "begun"
  /\ UNCHANGED <<stage, records, totals, snapshot, dataDir, disk, renameWorks, atBoot, boots>>

\* mkdir, JSON.stringify, and writeFile's open, which truncates the file.
SaveOpens ==
  /\ saving = "begun"
  /\ snapshot' = records
  /\ disk' = [disk EXCEPT ![dataDir] = Torn]
  /\ saving' = "writing"
  /\ UNCHANGED <<stage, records, totals, saveTimer, dataDir, renameWorks, atBoot, boots>>

SaveEnds ==
  /\ saving = "writing"
  /\ disk' = [disk EXCEPT ![dataDir] = snapshot]
  /\ saving' = "no"
  /\ UNCHANGED <<stage, records, totals, saveTimer, snapshot, dataDir, renameWorks, atBoot, boots>>

\* save() catches what mkdir or writeFile throws.
SaveFails ==
  /\ saving # "no"
  /\ saving' = "no"
  /\ UNCHANGED <<stage, records, totals, saveTimer, snapshot, dataDir, disk, renameWorks, atBoot, boots>>

\* The process ends, killed or after stopServer(), which saves nothing.
Exits ==
  /\ Up
  /\ stage' = "down"
  /\ records' = <<>>
  /\ totals' = Recounted(<<>>)
  /\ saveTimer' = FALSE
  /\ saving' = "no"
  /\ snapshot' = <<>>
  /\ dataDir' = "new"
  /\ UNCHANGED <<disk, renameWorks, atBoot, boots>>

Boots ==
  /\ ~Up
  /\ boots < MaxBoots
  /\ boots' = boots + 1
  /\ stage' = "new dir?"
  /\ atBoot' = Parsed(IF disk.new # Absent THEN disk.new ELSE disk.legacy)
  /\ UNCHANGED <<records, totals, saveVars, dataDir, disk, renameWorks>>

UsageStep ==
  \/ SeeksNew \/ SeeksLegacy \/ Adopts \/ Rechecks \/ Opens \/ Reads
  \/ OtherAdopts
  \/ TimerFires \/ SaveOpens \/ SaveEnds \/ SaveFails
  \/ Boots

-----------------------------------------------------------------------------
UsageTypeOK ==
  /\ stage \in {"down", "new dir?", "old dir?", "adopt", "recheck", "open", "read", "loaded"}
  /\ records \in Seq(BOOLEAN)
  /\ totals \in [requests : Nat, failed : Nat]
  /\ saveTimer \in BOOLEAN
  /\ saving \in {"no", "begun", "writing"}
  /\ snapshot \in Seq(BOOLEAN)
  /\ dataDir \in Dir
  /\ disk \in [Dir -> Unreadable \cup Seq(BOOLEAN)]
  /\ renameWorks \in BOOLEAN
  /\ atBoot \in Seq(BOOLEAN)
  /\ boots \in 1..MaxBoots

\* A process never starts from less history than it found on disk, whoever
\* renames the old directory and whenever: it would serve, and save, a reset
\* history (migrateLegacyDataDir).
HistoryIsAdopted == stage = "loaded" => IsPrefix(atBoot, records)

\* A save never replaces a readable history by one that lacks some of it
\* (save() rewrites the whole file from memory).
HistoryIsKept ==
  [][\A d \in Dir : Readable(disk[d]) /\ disk'[d] = Torn => IsPrefix(disk[d], records)]_usageVars
=============================================================================
