----------------------------- MODULE PageDialogs -----------------------------
(***************************************************************************)
(* Two dialogs of the documents page that something asynchronous fills and *)
(* that send what they hold: the revision dialog, filled by the answer to  *)
(* a request for the document and emptied by the answer to an upload, and  *)
(* the preview of a batch import, filled by a file reader.  Several of     *)
(* each may be under way, and they end in any order.                       *)
(***************************************************************************)
CONSTANTS
  Doc,         \* documents that a revision dialog is opened for
  Workbook,    \* workbooks to choose from
  None         \* no document, no workbook

ASSUME DialogsAssumption == None \notin Doc \cup Workbook

VARIABLES
  asked,      \* documents whose details are on their way to the revision dialog
  target,     \* revisionTargetDocumentId
  contextOf,  \* the document whose status, current revision and form the dialog holds
  dialogOpen,
  uploads,    \* revisions being uploaded: [to, for], for = the document they were made for
  batchFile,
  batchRows,  \* the workbook whose rows the preview shows, or None for no rows
  readers,    \* workbooks being read
  mixed       \* whether the latest choice found another reader at work

dialogVars == <<asked, target, contextOf, dialogOpen, uploads>>
batchVars == <<batchFile, batchRows, readers, mixed>>

-----------------------------------------------------------------------------
(* openRevisionDialog, uploadRevision *)

\* Mutant: the target is set when the dialog is asked for
TargetAtClick_Set(d) == d

TargetAtClick(d) == target

AskRevisions(d) ==
  /\ d \notin asked
  /\ asked' = asked \cup {d}
  /\ target' = TargetAtClick(d)
  /\ UNCHANGED <<batchVars, contextOf, dialogOpen, uploads>>

ShowRevisions(d) ==
  /\ d \in asked
  /\ asked' = asked \ {d}
  /\ target' = d /\ contextOf' = d /\ dialogOpen' = TRUE
  /\ UNCHANGED <<batchVars, uploads>>

\* A click beside it closes the dialog, while an upload is under way as well
CloseRevisions ==
  /\ dialogOpen /\ dialogOpen' = FALSE
  /\ UNCHANGED <<batchVars, asked, target, contextOf, uploads>>

\* The current revision and whether this is a correction of it go with the upload.  All
\* dialogs of the page share isSaving: the end of another's request enables the button.
UploadRevision ==
  /\ dialogOpen /\ target # None
  /\ uploads' = uploads \cup {[to |-> target, for |-> contextOf]}
  /\ UNCHANGED <<batchVars, asked, target, contextOf, dialogOpen>>

\* Mutant: the dialog stays open
OpenAfterUpload_Still == dialogOpen

OpenAfterUpload == FALSE

\* Whichever document the dialog is open for by then is forgotten, and it is closed
RevisionUploaded(u) ==
  /\ u \in uploads
  /\ uploads' = uploads \ {u}
  /\ contextOf' = None /\ dialogOpen' = OpenAfterUpload
  /\ UNCHANGED <<batchVars, asked, target>>

UploadFails(u) ==
  /\ u \in uploads
  /\ uploads' = uploads \ {u}
  /\ UNCHANGED <<batchVars, asked, target, contextOf, dialogOpen>>

-----------------------------------------------------------------------------
(* onBatchFileSelected, uploadBatchHardcopy *)

\* A file of another kind or too large, or none
RejectFile ==
  /\ batchFile' = None /\ batchRows' = None
  /\ UNCHANGED <<dialogVars, readers, mixed>>

\* The rows of an earlier choice stay until the reader is done
ChooseFile(f) ==
  /\ f \notin readers
  /\ batchFile' = f
  /\ readers' = readers \cup {f}
  /\ mixed' = (readers # {})
  /\ UNCHANGED <<dialogVars, batchRows>>

\* The workbook may have no row to import
ReadFile(f) ==
  /\ f \in readers
  /\ readers' = readers \ {f}
  /\ batchRows' \in {f, None}
  /\ UNCHANGED <<dialogVars, batchFile, mixed>>

\* Mutant: the choice is left as it was
ChosenAfterFailure_Left == batchFile

ChosenAfterFailure == None

\* It cannot be read or parsed
FailRead(f) ==
  /\ f \in readers
  /\ readers' = readers \ {f}
  /\ batchFile' = ChosenAfterFailure
  /\ batchRows' = IF batchFile' = None THEN None ELSE batchRows
  /\ UNCHANGED <<dialogVars, mixed>>

\* What uploadBatchHardcopy asks: a file and rows, whether or not a reader is at work
MayUploadBatch == batchFile # None /\ batchRows # None

-----------------------------------------------------------------------------

DialogsInit ==
  /\ asked = {} /\ target = None /\ contextOf = None /\ dialogOpen = FALSE /\ uploads = {}
  /\ batchFile = None /\ batchRows = None /\ readers = {} /\ mixed = FALSE

DialogsNext ==
  \/ CloseRevisions \/ UploadRevision \/ \E u \in uploads : RevisionUploaded(u) \/ UploadFails(u)
  \/ \E d \in Doc : AskRevisions(d) \/ ShowRevisions(d)
  \/ RejectFile \/ \E f \in Workbook : ChooseFile(f) \/ ReadFile(f) \/ FailRead(f)

DialogsSpec == DialogsInit /\ [][DialogsNext]_<<dialogVars, batchVars>>

-----------------------------------------------------------------------------
(* Properties *)

\* A revision goes to the document that the dialog was filled for, as the correction or
\* the new revision that this document called for, although the details of several are on
\* their way and the end of an upload empties the dialog of whichever is open by then.
RevisionsGoWhereMeant == \A u \in uploads : u.for = u.to

\* A batch that can be uploaded is the workbook whose rows are shown, except in two cases
\* that the button does not wait for: the workbook chosen is still being read and the rows
\* are those of an earlier choice; or it was chosen while another was being read, and the
\* rows are of the one read last.
PreviewOfFile ==
  MayUploadBatch => batchRows = batchFile \/ batchFile \in readers \/ mixed

\* What both dialogs send.
DialogsAgree == RevisionsGoWhereMeant /\ PreviewOfFile

=============================================================================
