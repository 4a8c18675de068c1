--------------------------- MODULE RevisionStorage ---------------------------
(***************************************************************************)
(* Where the file of a revision lies.  It moves to the folder of its       *)
(* softcopy's category when an update sets that, and when the server       *)
(* starts: organizeRevisionStorage reads the rows, looks for each file,    *)
(* renames it and then updates its row.  The folder also changes with no   *)
(* run: an upload may set the category, and a category's folder may be     *)
(* renamed.  Nothing excludes two updates, the row's update may fail, and  *)
(* the process may end in between.                                         *)
(***************************************************************************)
EXTENDS Naturals

CONSTANTS
  Folder,        \* folders of categories
  Organizer,     \* runs of organizeRevisionStorage at once
  Start,         \* the folder that the file is first in
  MaxCrashes     \* bound: ends of the process

ASSUME StorageAssumption == Start \in Folder /\ MaxCrashes \in Nat

VARIABLES
  category,   \* the folder of the softcopy's category
  filePath,   \* file_path: the folder that the row names
  lies,       \* the folder that the file is in
  organizers, \* the runs in flight
  booting,    \* the server organizes before it listens
  crashes,
  failed,     \* whether an update of the row has failed since it last named the file's folder
  drifted     \* whether the folder was set while a run was under way or changed while the row
              \* was behind, since the row last named the file's folder with no run under way

ovars == <<category, filePath, lies, organizers, booting, crashes, failed, drifted>>

Still == [at |-> "still", from |-> Start, to |-> Start]

-----------------------------------------------------------------------------
(* organizeRevisionStorage *)

AllStill == organizers = [p \in Organizer |-> Still]

SetFolder(c) ==
  /\ ~booting
  /\ category' = c
  /\ drifted' = (drifted \/ ~AllStill \/ (c # category /\ filePath # lies))

\* An update commits the category, then organizes
ChangeCategory(o, c) ==
  /\ organizers[o] = Still
  /\ SetFolder(c)
  /\ organizers' = [organizers EXCEPT ![o].at = "read"]
  /\ UNCHANGED <<filePath, lies, booting, crashes, failed>>

\* An upload sets the category, or the category's folder is renamed: nothing organizes
Refile(c) ==
  /\ c # category /\ SetFolder(c)
  /\ UNCHANGED <<filePath, lies, organizers, booting, crashes, failed>>

ReadRows(o) ==
  /\ organizers[o].at = "read"
  /\ organizers' = [organizers EXCEPT ![o] = [at |-> "find", from |-> filePath, to |-> category]]
  /\ UNCHANGED <<category, filePath, lies, booting, crashes, failed, drifted>>

EndRun(o, fails) ==
  /\ organizers' = [organizers EXCEPT ![o] = Still]
  /\ failed' = ((failed \/ fails) /\ filePath' # lies)
  /\ drifted' = (drifted /\ ~(AllStill' /\ filePath' = lies))

\* Mutant: only the path of the row is looked at
Candidates_Row(o) == {organizers[o].from}

\* The path of the row, then the folder the file is meant for
Candidates(o) == {organizers[o].from, organizers[o].to}

\* firstExistingFile: without a source the file is passed over
FindFile(o) ==
  /\ organizers[o].at = "find"
  /\ UNCHANGED <<category, filePath, lies, booting, crashes>>
  /\ IF lies \notin Candidates(o) THEN EndRun(o, FALSE)
     ELSE /\ organizers' = [organizers EXCEPT ![o].at = IF lies = organizers[o].to THEN "update" ELSE "move"]
          /\ UNCHANGED <<failed, drifted>>

\* The rename fails if the file has been moved meanwhile
MoveFile(o) ==
  /\ organizers[o].at = "move"
  /\ UNCHANGED <<category, filePath, booting, crashes>>
  /\ IF lies = organizers[o].from
     THEN /\ lies' = organizers[o].to
          /\ organizers' = [organizers EXCEPT ![o].at = "update"]
          /\ UNCHANGED <<failed, drifted>>
     ELSE UNCHANGED lies /\ EndRun(o, FALSE)

UpdateRow(o) ==
  /\ organizers[o].at = "update"
  /\ filePath' = IF organizers[o].from # organizers[o].to THEN organizers[o].to ELSE filePath
  /\ EndRun(o, FALSE)
  /\ UNCHANGED <<category, lies, booting, crashes>>

\* The database refuses the update of the row (at the start this ends the process: Crash)
RowFails(o) ==
  /\ organizers[o].at = "update" /\ organizers[o].from # organizers[o].to /\ ~booting
  /\ UNCHANGED <<category, filePath, lies, booting, crashes>>
  /\ EndRun(o, TRUE)

\* The process ends and starts again: main.ts organizes every file, then listens
Crash ==
  /\ crashes < MaxCrashes /\ crashes' = crashes + 1
  /\ \E boot \in Organizer :
       organizers' = [o \in Organizer |-> IF o = boot THEN [Still EXCEPT !.at = "read"] ELSE Still]
  /\ booting' = TRUE
  /\ UNCHANGED <<category, filePath, lies, failed, drifted>>

ListenAgain ==
  /\ booting /\ AllStill
  /\ booting' = FALSE
  /\ UNCHANGED <<category, filePath, lies, organizers, crashes, failed, drifted>>

-----------------------------------------------------------------------------

StorageInit ==
  /\ category = Start /\ filePath = Start /\ lies = Start
  /\ organizers = [o \in Organizer |-> Still]
  /\ booting = FALSE /\ crashes = 0 /\ failed = FALSE /\ drifted = FALSE

StorageNext ==
  \/ Crash \/ ListenAgain
  \/ \E c \in Folder : Refile(c) \/ \E o \in Organizer : ChangeCategory(o, c)
  \/ \E o \in Organizer : ReadRows(o) \/ FindFile(o) \/ MoveFile(o) \/ UpdateRow(o) \/ RowFails(o)

StorageSpec == StorageInit /\ [][StorageNext]_ovars

-----------------------------------------------------------------------------
(* Properties *)

\* While the server listens the row names the folder that the file is in, or a run that
\* has moved the file is about to name it, or the row's update failed and the file is in
\* the folder of its category, where the next run finds it, wherever the process ended
\* and started again; only a folder that is set while a run is under way, or changes
\* while the row is behind, may leave the row behind for good.
RowFindsFile ==
  ~booting /\ ~drifted =>
    \/ filePath = lies
    \/ \E o \in Organizer : organizers[o].at = "update" /\ organizers[o].to = lies
    \/ failed /\ lies = category

-----------------------------------------------------------------------------
(* Inductive invariant *)

StorageTypeOK ==
  /\ organizers \in [Organizer -> [at : {"still", "read", "find", "move", "update"},
                                   from : Folder, to : Folder]]
  /\ category \in Folder /\ filePath \in Folder /\ lies \in Folder
  /\ failed \in BOOLEAN /\ drifted \in BOOLEAN
  /\ \A o \in Organizer : organizers[o].at = "still" => organizers[o] = Still

\* What a run has read still holds, and what it found.
RunHolds(o) ==
  /\ organizers[o].at \in {"find", "move", "update"} =>
       organizers[o].from = filePath /\ organizers[o].to = category
  /\ organizers[o].at = "move" => lies = filePath
  /\ organizers[o].at = "update" => lies = category

\* One run at a time: the row names the file's folder, or else the file is where the
\* category says, and a run that has moved it or that the start began will name it, or
\* the row's update failed.
OneRun ==
  /\ \A o, p \in Organizer : organizers[o] # Still /\ organizers[p] # Still => o = p
  /\ \A o \in Organizer : RunHolds(o)
  /\ \/ lies = filePath
     \/ /\ lies = category
        /\ \/ failed
           \/ \E o \in Organizer : organizers[o].at = "update" \/ (booting /\ organizers[o] # Still)

\* RowFindsFile with what makes it inductive
StorageInv == StorageTypeOK /\ (~drifted => OneRun)

=============================================================================
