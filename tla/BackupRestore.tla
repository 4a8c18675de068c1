---------------------------- MODULE BackupRestore ----------------------------
(***************************************************************************)
(* Backup, restore and reset of softcopies and their files.  The rows live *)
(* in the database and the files on disk, and no lock holds the two        *)
(* together: a backup reads its tables one statement after the other and   *)
(* packs the files last; a restore replaces the rows in one transaction    *)
(* and then the files one by one.  A crash may come between any two steps. *)
(*                                                                         *)
(* A document has one file and keeps it; restoring gives it a new id.      *)
(* Hardcopies, the catalog, users and roles are left out of the snapshot:  *)
(* they are restored in the same transaction, by name.                     *)
(***************************************************************************)
EXTENDS Naturals

CONSTANTS
  File,        \* the files of softcopies, one for each document
  Package,      \* packages
  Worker,      \* how many handlers can run at once
  MaxRestores  \* bound: restores committed

ASSUME RestoreAssumption == MaxRestores \in Nat

VARIABLES
  rows,         \* documents with softcopy and revision: [file, id]
  disk,         \* files on disk
  era,          \* restores committed: ids differ from one to the next
  definitions,  \* whether there are workflow definitions, which name their creator
  packages,     \* the backups
  jobs,         \* the handlers in flight
  cut,          \* whether a restore ever ended before it had replaced the files
  crossed,      \* whether a restore or a reset ever overlapped another handler
  refused       \* whether the database ever refused to clear itself

pvars == <<rows, disk, era, definitions, packages, jobs, cut, crossed, refused>>

FilesOf(rs) == {r.file : r \in rs}
NoPackage == [status |-> "none", documents |-> {}, softcopies |-> {}, revisions |-> {},
              files |-> {}, raced |-> FALSE]
Rest == [at |-> "rest", pack |-> NoPackage, todo |-> {}, for |-> "none", file |-> "none"]
Lost == ~(FilesOf(rows) \subseteq disk)

Replacing == {"restore", "wipe", "write", "clear", "sweep"}

Reading == {"softcopies", "revisions", "pack"}

Enter(w, job) ==
  /\ jobs[w] = Rest /\ jobs' = [jobs EXCEPT ![w] = job]
  /\ crossed' = (crossed \/ \E v \in Worker : jobs[v] # Rest /\ (job.at \in Replacing \/ jobs[v].at \in Replacing))

Leave(w) == jobs' = [jobs EXCEPT ![w] = Rest]

\* A change of the rows reaches the backups that are being read
Racing(js) ==
  [v \in Worker |-> IF js[v].at \in Reading THEN [js[v] EXCEPT !.pack.raced = TRUE] ELSE js[v]]

-----------------------------------------------------------------------------
(* Documents: the file is uploaded, then the rows are committed *)

BeginCreation(w, f) ==
  /\ f \notin FilesOf(rows) /\ \A v \in Worker : jobs[v].file # f
  /\ Enter(w, [Rest EXCEPT !.at = "save", !.file = f])
  /\ disk' = disk \cup {f}
  /\ UNCHANGED <<rows, era, definitions, packages, cut, refused>>

CommitCreation(w) ==
  /\ jobs[w].at = "save"
  /\ rows' = rows \cup {[file |-> jobs[w].file, id |-> era]}
  /\ jobs' = Racing([jobs EXCEPT ![w] = Rest])
  /\ UNCHANGED <<disk, era, definitions, packages, cut, crossed, refused>>

-----------------------------------------------------------------------------
(* createBackup, on its own or before a reset *)

BeginBackup(w, b, for) ==
  /\ packages[b] = NoPackage /\ \A v \in Worker : jobs[v].for # b
  /\ Enter(w, [Rest EXCEPT !.at = "softcopies", !.for = for, !.file = b,
                           !.pack = [NoPackage EXCEPT !.status = "kept", !.documents = rows]])
  /\ \A v \in Worker : jobs[v].file # b
  /\ UNCHANGED <<rows, disk, era, definitions, packages, cut, refused>>

ReadSoftcopies(w) ==
  /\ jobs[w].at = "softcopies"
  /\ jobs' = [jobs EXCEPT ![w].at = "revisions", ![w].pack.softcopies = rows]
  /\ UNCHANGED <<rows, disk, era, definitions, packages, cut, crossed, refused>>

ReadRevisions(w) ==
  /\ jobs[w].at = "revisions"
  /\ jobs' = [jobs EXCEPT ![w].at = "pack", ![w].pack.revisions = rows]
  /\ UNCHANGED <<rows, disk, era, definitions, packages, cut, crossed, refused>>

\* Mutant: as in the legacy snapshots
Packed_RowsOnly(w) == {}

\* A revision whose file is not there is passed over
Packed(w) == FilesOf(jobs[w].pack.revisions) \cap disk

WriteBackup(w) ==
  /\ jobs[w].at = "pack"
  /\ packages' = [packages EXCEPT ![jobs[w].file] = [jobs[w].pack EXCEPT !.files = Packed(w)]]
  /\ jobs' = [jobs EXCEPT ![w] = IF jobs[w].for = "none" THEN Rest
                                 ELSE [Rest EXCEPT !.at = "clear", !.for = jobs[w].for]]
  /\ crossed' = (crossed \/ (jobs[w].for # "none" /\ \E v \in Worker \ {w} : jobs[v] # Rest))
  /\ UNCHANGED <<rows, disk, era, definitions, cut, refused>>

\* deleteBackup, or the retention of BackupAutomation
DeleteBackup(b) ==
  /\ packages[b].status = "kept"
  /\ packages' = [packages EXCEPT ![b].status = "gone"]
  /\ UNCHANGED <<rows, disk, era, definitions, jobs, cut, crossed, refused>>

-----------------------------------------------------------------------------
(* restoreBackupPackageSafely *)

BeginRestore(w, b) ==
  /\ packages[b].status = "kept"
  /\ Enter(w, [Rest EXCEPT !.at = "restore", !.pack = packages[b], !.for = b])
  /\ UNCHANGED <<rows, disk, era, definitions, packages, cut, refused>>

\* A row whose parent is missing in the snapshot refuses it
Restorable(p) == p.softcopies \subseteq p.documents /\ p.revisions \subseteq p.softcopies

\* Every user gets a new id: what other handlers mean to insert is refused
CommitRestore(w) ==
  LET p == jobs[w].pack
      others == [v \in Worker |-> IF jobs[v].at = "save" THEN Rest ELSE jobs[v]] IN
  /\ jobs[w].at = "restore"
  /\ IF Restorable(p)
     THEN /\ era < MaxRestores /\ era' = era + 1
          /\ rows' = {[file |-> f, id |-> era + 1] : f \in FilesOf(p.revisions)}
          /\ jobs' = Racing([others EXCEPT ![w].at = "wipe"])
     ELSE Leave(w) /\ UNCHANGED <<rows, era>>
  /\ UNCHANGED <<disk, definitions, packages, cut, crossed, refused>>

\* The package is opened again; if it is gone the files stay as they are
WipeUploads(w) ==
  /\ jobs[w].at = "wipe"
  /\ IF packages[jobs[w].for].status = "kept"
     THEN /\ disk' = {}
          /\ jobs' = [jobs EXCEPT ![w].at = "write", ![w].todo = jobs[w].pack.files]
          /\ UNCHANGED cut
     ELSE /\ Leave(w) /\ cut' = TRUE
          /\ UNCHANGED disk
  /\ UNCHANGED <<rows, era, definitions, packages, crossed, refused>>

WriteUpload(w) ==
  \E f \in jobs[w].todo :
    /\ jobs[w].at = "write"
    /\ disk' = disk \cup {f}
    /\ jobs' = [jobs EXCEPT ![w].todo = @ \ {f}]
    /\ UNCHANGED <<rows, era, definitions, packages, cut, crossed, refused>>

EndRestore(w) ==
  /\ jobs[w].at = "write" /\ jobs[w].todo = {}
  /\ Leave(w)
  /\ UNCHANGED <<rows, disk, era, definitions, packages, cut, crossed, refused>>

-----------------------------------------------------------------------------
(* factoryReset, after its safety backup *)

\* Scope ALL: clearDatabase leaves the workflow definitions, which keep their creators
ClearAll(w) ==
  /\ jobs[w].at = "clear" /\ jobs[w].for = "ALL"
  /\ IF definitions THEN /\ refused' = TRUE /\ Leave(w)
                         /\ UNCHANGED rows
     ELSE /\ rows' = {} /\ jobs' = Racing([jobs EXCEPT ![w].at = "sweep"])
          /\ UNCHANGED refused
  /\ UNCHANGED <<disk, era, definitions, packages, cut, crossed>>

ClearSoftcopies(w) ==
  /\ jobs[w].at = "clear" /\ jobs[w].for = "SOFTCOPY"
  /\ rows' = {} /\ jobs' = Racing([jobs EXCEPT ![w].at = "sweep"])
  /\ UNCHANGED <<disk, era, definitions, packages, cut, crossed, refused>>

\* The uploads are removed, and with scope ALL the seed creates its definitions
SweepUploads(w) ==
  /\ jobs[w].at = "sweep"
  /\ disk' = {} /\ definitions' = (definitions \/ jobs[w].for = "ALL")
  /\ Leave(w)
  /\ UNCHANGED <<rows, era, packages, cut, crossed, refused>>

ProcessEnds ==
  /\ jobs' = [w \in Worker |-> Rest]
  /\ cut' = (cut \/ \E w \in Worker : jobs[w].at \in {"wipe", "write"})
  /\ UNCHANGED <<rows, disk, era, definitions, packages, crossed, refused>>

-----------------------------------------------------------------------------

\* The seed creates the default workflow definitions; a database may have none
RestoreInit ==
  /\ rows = {} /\ disk = {} /\ era = 0 /\ definitions \in BOOLEAN
  /\ packages = [b \in Package |-> NoPackage]
  /\ jobs = [w \in Worker |-> Rest]
  /\ cut = FALSE /\ crossed = FALSE /\ refused = FALSE

RestoreNext ==
  \/ ProcessEnds
  \/ \E b \in Package : DeleteBackup(b)
  \/ \E w \in Worker :
       \/ \E f \in File : BeginCreation(w, f)
       \/ \E b \in Package : BeginRestore(w, b) \/ \E for \in {"none", "ALL", "SOFTCOPY"} : BeginBackup(w, b, for)
       \/ CommitCreation(w) \/ ReadSoftcopies(w) \/ ReadRevisions(w) \/ WriteBackup(w)
       \/ CommitRestore(w) \/ WipeUploads(w) \/ WriteUpload(w) \/ EndRestore(w)
       \/ ClearAll(w) \/ ClearSoftcopies(w) \/ SweepUploads(w)

RestoreSpec == RestoreInit /\ [][RestoreNext]_pvars

-----------------------------------------------------------------------------
(* Properties *)

Replaced == \E w \in Worker : jobs[w].at \in {"wipe", "write"}

\* Every row has its file on disk, across backups, restores, resets and crashes, unless
\* a restore is replacing the files, was ever cut short, or a restore or reset ran
\* while another handler did.
RowsHaveFiles == Lost => Replaced \/ cut \/ crossed

\* A backup restores all that was there, rows and files, unless rows were committed
\* while it was read or files were already missing.
BackupIsWhole ==
  \A b \in Package : LET p == packages[b] IN
    p.status = "kept" /\ ~p.raced =>
      /\ Restorable(p) /\ p.revisions = p.documents
      /\ FilesOf(p.revisions) \subseteq p.files \/ cut \/ crossed

\* Both: rows keep their files, and backups bring them back.
FilesAreKept == RowsHaveFiles /\ BackupIsWhole

\* What the README of the API says: a reset of all data resets it.
ResetAllResets == ~refused

-----------------------------------------------------------------------------
(* Inductive invariant *)

RowRecord == [file : File, id : Nat]

PackageRecord == [status : {"none", "kept", "gone"}, documents : SUBSET RowRecord,
                  softcopies : SUBSET RowRecord, revisions : SUBSET RowRecord,
                  files : SUBSET File, raced : BOOLEAN]

RestoreJob == [at : {"rest", "save", "softcopies", "revisions", "pack", "restore", "wipe",
                     "write", "clear", "sweep"},
               pack : PackageRecord, todo : SUBSET File,
               for : Package \cup {"none", "ALL", "SOFTCOPY"}, file : File \cup Package \cup {"none"}]

RestoreTypeOK ==
  /\ rows \subseteq RowRecord /\ disk \subseteq File /\ era \in Nat
  /\ packages \in [Package -> PackageRecord] /\ jobs \in [Worker -> RestoreJob]
  /\ \A w \in Worker : jobs[w].at = "save" => jobs[w].file \in File
  /\ \A w \in Worker : jobs[w].at \in Reading => jobs[w].file \in Package
  /\ \A w \in Worker : jobs[w].at \in {"restore", "wipe"} => jobs[w].for \in Package

\* What a backup has read is what there is, unless rows were committed since.
ReadsOK ==
  \A w \in Worker : ~jobs[w].pack.raced =>
    /\ jobs[w].at \in Reading => jobs[w].pack.documents = rows
    /\ jobs[w].at \in {"revisions", "pack"} => jobs[w].pack.softcopies = rows
    /\ jobs[w].at = "pack" => jobs[w].pack.revisions = rows

PackagesOK ==
  \A b \in Package : packages[b].status = "kept" /\ ~packages[b].raced =>
    Restorable(packages[b]) /\ packages[b].revisions = packages[b].documents

HasFiles(p) == FilesOf(p.revisions) \subseteq p.files

\* The rows and the files on disk are those that a handler needs at its step.
Fits(j, rs, files) ==
  /\ j.at = "save" => j.file \in files
  /\ j.at = "pack" => FilesOf(j.pack.revisions) \subseteq FilesOf(rs)
  /\ j.at \in {"restore", "wipe", "write"} => HasFiles(j.pack)
  /\ j.at \in {"wipe", "write"} => FilesOf(rs) \subseteq FilesOf(j.pack.revisions)
  /\ j.at = "write" => j.pack.files \subseteq files \cup j.todo
  /\ j.at = "sweep" => rs = {}

\* While no restore was cut short and none crossed another handler, what replaces rows or
\* files is alone, and rows, files and packages fit together at each of its steps.
Undisturbed ==
  /\ \A w, v \in Worker : jobs[w].at \in Replacing /\ v # w => jobs[v] = Rest
  /\ Lost => Replaced
  /\ \A b \in Package : packages[b].status = "kept" => HasFiles(packages[b])
  /\ \A w \in Worker : Fits(jobs[w], rows, disk)

\* FilesAreKept with what makes it inductive
RestoreInv ==
  /\ RestoreTypeOK /\ ReadsOK /\ PackagesOK
  /\ ~cut /\ ~crossed => Undisturbed

=============================================================================
