------------------------- MODULE ArtifactStore -------------------------
(***************************************************************************)
(* The files of the system: artifacts, and copies of the database.         *)
(***************************************************************************)
EXTENDS Integers, FiniteSets, FiniteSetsExt, TLC, Ordered

-----------------------------------------------------------------------------
(***************************************************************************)
(* The content-addressed artifact store (packages/core/src/data/artifacts/ *)
(* store.ts): a file per content, a metadata row per file, and a budget of *)
(* bytes that every write is held against.  A store instance measures the  *)
(* disk once and from then on counts its own writes.                       *)
(*                                                                         *)
(* A content stands for its hash, and every compressed file is one unit.   *)
(* A file is good, bad (it does not decompress to its hash) or gone.       *)
(***************************************************************************)

CONSTANT Budget   \* budgetBytes

ASSUME BudgetAssumption == Budget \in Nat \ {0}

VARIABLES files,   \* on the disk, by content
          meta     \* contents with a row in artifacts

storeVars == <<files, meta>>

Unmeasured == -1

OnDisk == {c \in DOMAIN files : files[c] # "gone"}

DiskUsage == Cardinality(OnDisk)

(* The usage an instance knows; used is its cache.                         *)
UsageBytes(used) == IF used = Unmeasured THEN DiskUsage ELSE used

WithinBudget(used, additional) == UsageBytes(used) <= Budget /\ UsageBytes(used) + additional <= Budget

(* Slip: a write is checked as a run is, by what is there already.         *)
MayWriteAnyhow(used) == WithinBudget(used, 0)

MayWrite(used) == WithinBudget(used, 1)

(* Slip: the file alone tells that a content is stored.                    *)
DeduplicatedByFile(c) == c \in OnDisk

Deduplicated(c) == c \in meta /\ c \in OnDisk

(* The file is written, over an orphan of the same content too.            *)
WriteFile(c) == files' = [x \in DOMAIN files \cup {c} |-> IF x = c THEN "good" ELSE files[x]]

(* The row is inserted, unless it was there before the file was restored.  *)
InsertRow(c) == meta' = meta \cup {c}

(* get, verify: the file is there and decompresses to its hash.            *)
Verified(c) == c \in meta /\ c \in DOMAIN files /\ files[c] = "good"

-----------------------------------------------------------------------------
(***************************************************************************)
(* Copies of the database (packages/core/src/db/backup.ts). A file is its  *)
(* [day, time], its name but for the pattern, and a day counts from a      *)
(* Monday.                                                                 *)
(***************************************************************************)

NewerFile(a, b) == a.day > b.day \/ (a.day = b.day /\ a.time > b.time)

Week(day) == day \div 7

(* The newest of each group of copies.                                     *)
NewestOf(groups) == UNION {{f \in g : \A o \in g \ {f} : NewerFile(f, o)} : g \in groups}

(* The first n from the newest.                                            *)
FirstOf(copies, n) == {f \in copies : Cardinality({o \in copies : NewerFile(o, f)}) < n}

Kept(copies, keepDaily, keepWeekly) ==
  LET days == {{f \in copies : f.day = c.day} : c \in copies}
      weeks == {{f \in copies : Week(f.day) = Week(c.day)} : c \in copies}
  IN FirstOf(NewestOf(days), keepDaily) \cup FirstOf(NewestOf(weeks), keepWeekly)

PruneBackups(copies, keepDaily, keepWeekly) ==
  [kept |-> Kept(copies, keepDaily, keepWeekly), deleted |-> copies \ Kept(copies, keepDaily, keepWeekly)]

(* The copy is checked before it is reported, and stays if it is bad.      *)
BackupDatabase(copies, now, intact) == [copies |-> copies \cup {now}, ok |-> intact]

(* Where a copy stands: the database, the chain and the seals.             *)
VerifyRestore(copy) == copy.integrity /\ copy.chain /\ copy.seals

=============================================================================
