------------------------- MODULE DocumentLifecycle -------------------------
(***************************************************************************)
(* A document beyond its approval: the revisions of a softcopy             *)
(* (createRevision, finalizeRevision) and its disposal (dispose,           *)
(* requestDisposal, reviewDisposalRequest, restore), together with the     *)
(* approval workflow of DocumentWorkflow.  These handlers read the         *)
(* documents row, check its status and later write it unconditionally.     *)
(*                                                                         *)
(* A slot runs one handler at a time, of this module or of DocumentWorkflow.*)
(* The clients' operations, here too, are those in Offered.                *)
(***************************************************************************)
EXTENDS DocumentWorkflow

CONSTANTS
  Rev, NoRev,      \* document_revisions rows of the document
  Ticket           \* document_disposal_requests rows of the document

ASSUME RevisionAssumption == NoRev \notin Rev

VARIABLES
  revs,      \* [Rev -> RevStatus]: is_current, is_historical and approved_at
  current,   \* softcopy_documents.current_revision_id
  before,    \* documents.status_before_disposal
  tickets,   \* [Ticket -> TicketStatus]
  job        \* the handlers of this module in flight

lvars == <<revs, current, before, tickets, job>>

RevStatus    == {"NONE", "UPLOADED", "CURRENT", "HISTORICAL"}
TicketStatus == {"NONE", "Pending", "Approved", "Rejected"}
UploadKind   == {"upload", "correct-file", "upload-current"}
LifecycleOps == UploadKind \cup {"finalize", "dispose", "restore", "request", "review"}

NoTicket == "none"

NoJob == [pc |-> "idle", op |-> "none", status |-> "none", before |-> "none",
          rev |-> NoRev, current |-> NoRev, ticket |-> NoTicket, agreed |-> FALSE]

JobFree(r) == Free(r) /\ job[r].pc = "idle"

\* What a handler keeps of the documents row it read
Noted(o) == [NoJob EXCEPT !.pc = "run", !.op = o,
                          !.status = doc.status, !.before = before]

Start(r, j) ==
  /\ JobFree(r) /\ j.op \in Offered
  /\ job' = [job EXCEPT ![r] = j]
  /\ UNCHANGED <<vars, revs, current, before, tickets>>

At(r, o, pc) == job[r].op = o /\ job[r].pc = pc

Finish(r) == job' = [job EXCEPT ![r] = NoJob]

WorkflowRows == <<steps, stepPlan, atts, files, tx>>

History(j, to) == [from |-> j.status, to |-> to, action |-> j.op, by |-> NoUser]

-----------------------------------------------------------------------------
(* createRevision *)

\* Editors may upload in any status; a correction names the revision it replaces
BeginUpload(r, v, kind) ==
  /\ IsSoftcopy /\ revs[v] = "NONE" /\ \A q \in Req : job[q].rev # v
  /\ kind = "correct-file" =>
       doc.status \in Finalized /\ \E w \in Rev : revs[w] # "NONE"
  /\ Start(r, [Noted(kind) EXCEPT !.rev = v])

\* The row is committed on its own; the request is touched afterwards
StoreRevision(r) ==
  LET j == job[r] IN
  /\ j.op \in UploadKind /\ j.pc = "run"
  /\ revs' = [revs EXCEPT ![j.rev] = "UPLOADED"]
  /\ job' = [job EXCEPT ![r] =
       IF j.op = "correct-file" \/ (j.op = "upload-current" /\ j.status = "Approved")
       THEN [j EXCEPT !.pc = "stored"] ELSE NoJob]
  /\ UNCHANGED <<vars, current, before, tickets>>

\* A correction sends the request back for revision
CommitCorrection(r) ==
  /\ At(r, "correct-file", "stored")
  /\ doc' = [doc EXCEPT !.status = "ForRevision", !.node = NoNode]
  /\ audit' = History(job[r], "ForRevision")
  /\ Finish(r)
  /\ UNCHANGED <<WorkflowRows, revs, current, before, tickets>>

-----------------------------------------------------------------------------
(* finalizeRevision *)

Finalizable(v) == IsSoftcopy /\ doc.status = "Approved" /\ revs[v] = "UPLOADED"

Finalizing(v) == [Noted("finalize") EXCEPT !.rev = v, !.current = current]

BeginFinalize(r, v) == Finalizable(v) /\ Start(r, Finalizing(v))

\* set_as_current: the upload goes on to finalize its revision
ContinueFinalize(r) ==
  /\ At(r, "upload-current", "stored")
  /\ job' = [job EXCEPT ![r] =
       IF Finalizable(job[r].rev) THEN Finalizing(job[r].rev) ELSE NoJob]
  /\ UNCHANGED <<vars, revs, current, before, tickets>>

\* Mutant: the copy that was current stays so
FinalizedRevs_TwoCurrent(j) == [revs EXCEPT ![j.rev] = "CURRENT"]

FinalizedRevs(j) ==
  [v \in Rev |-> IF v = j.rev THEN "CURRENT"
                 ELSE IF v = j.current THEN "HISTORICAL" ELSE revs[v]]

CommitFinalize(r) ==
  LET j == job[r] IN
  /\ At(r, "finalize", "run")
  /\ revs' = FinalizedRevs(j)
  /\ current' = j.rev
  /\ doc' = [doc EXCEPT !.status = "Completed", !.node = NoNode, !.current = TRUE]
  /\ audit' = History(j, "Completed")
  /\ Finish(r)
  /\ UNCHANGED <<WorkflowRows, before, tickets>>

-----------------------------------------------------------------------------
(* Disposal.  Nothing of it is written to the status history. *)

\* buildWorkflowStateUpdateData(Disposed, status_before_disposal ?? status)
Disposing(j) ==
  /\ doc' = [doc EXCEPT !.status = "Disposed"]
  /\ before' = IF j.before # "none" THEN j.before ELSE j.status

BeginDispose(r) == doc.status \in Finalized /\ Start(r, Noted("dispose"))

CommitDispose(r) ==
  /\ At(r, "dispose", "run")
  /\ Disposing(job[r])
  /\ Finish(r)
  /\ UNCHANGED <<audit, WorkflowRows, revs, current, tickets>>

\* requestDisposal, bounded by the tickets there are
BeginRequest(r) ==
  /\ doc.status \in Finalized /\ \A k \in Ticket : tickets[k] # "Pending"
  /\ \E k \in Ticket : tickets[k] = "NONE"
  /\ Start(r, Noted("request"))

CommitRequest(r) ==
  /\ At(r, "request", "run")
  /\ \E k \in Ticket : tickets[k] = "NONE" /\ tickets' = [tickets EXCEPT ![k] = "Pending"]
  /\ Finish(r)
  /\ UNCHANGED <<vars, revs, current, before>>

\* reviewDisposalRequest
BeginReview(r, k, agreed) ==
  /\ tickets[k] = "Pending" /\ (agreed => doc.status \in Finalized)
  /\ Start(r, [Noted("review") EXCEPT !.ticket = k, !.agreed = agreed])

CommitReview(r) ==
  LET j == job[r] IN
  /\ At(r, "review", "run")
  /\ IF j.agreed THEN Disposing(j) ELSE UNCHANGED <<doc, before>>
  /\ tickets' = [tickets EXCEPT ![j.ticket] = IF j.agreed THEN "Approved" ELSE "Rejected"]
  /\ Finish(r)
  /\ UNCHANGED <<audit, WorkflowRows, revs, current>>

\* restore: whatever the status of the document is
BeginRestore(r) == Start(r, Noted("restore"))

\* Mutant: the disposal columns are not cleared
CommitRestore_Keeps(r) ==
  /\ At(r, "restore", "run")
  /\ doc' = [doc EXCEPT !.status = IF job[r].before = "none" THEN "Approved" ELSE job[r].before]
  /\ Finish(r)
  /\ UNCHANGED <<audit, WorkflowRows, revs, current, before, tickets>>

CommitRestore(r) ==
  /\ At(r, "restore", "run")
  /\ doc' = [doc EXCEPT !.status = IF job[r].before = "none" THEN "Approved" ELSE job[r].before]
  /\ before' = "none"
  /\ Finish(r)
  /\ UNCHANGED <<audit, WorkflowRows, revs, current, tickets>>

CrashJob(r) ==
  /\ Crashes /\ job[r].pc # "idle"
  /\ Finish(r)
  /\ UNCHANGED <<vars, revs, current, before, tickets>>

-----------------------------------------------------------------------------

OneRev(v, s) == [w \in Rev |-> IF w = v THEN s ELSE "NONE"]

\* createRequest: a directly created copy has a current revision, another
\* softcopy request may have an uploaded file
LifecycleInit ==
  /\ Init
  /\ \/ doc.current /\ \E v \in Rev : revs = OneRev(v, "CURRENT") /\ current = v
     \/ ~doc.current /\ current = NoRev /\ revs = OneRev(NoRev, "NONE")
     \/ ~doc.current /\ current = NoRev /\ IsSoftcopy
          /\ \E v \in Rev : revs = OneRev(v, "UPLOADED")
  /\ before = "none"
  /\ tickets = [k \in Ticket |-> "NONE"]
  /\ job = [r \in Req |-> NoJob]

Revising(r) ==
  \/ \E v \in Rev, kind \in UploadKind : BeginUpload(r, v, kind)
  \/ StoreRevision(r) \/ CommitCorrection(r)
  \/ \E v \in Rev : BeginFinalize(r, v)
  \/ ContinueFinalize(r) \/ CommitFinalize(r)

Disposal(r) ==
  \/ BeginDispose(r) \/ CommitDispose(r)
  \/ BeginRequest(r) \/ CommitRequest(r)
  \/ \E k \in Ticket, agreed \in BOOLEAN : BeginReview(r, k, agreed)
  \/ CommitReview(r)
  \/ BeginRestore(r) \/ CommitRestore(r)

LifecycleNext ==
  \E r \in Req :
    \/ job[r].pc = "idle" /\ Step(r) /\ UNCHANGED lvars
    \/ Revising(r) \/ Disposal(r) \/ CrashJob(r)

LifecycleSpec == LifecycleInit /\ [][LifecycleNext]_<<vars, lvars>>

-----------------------------------------------------------------------------
(* Properties *)

JobRecord ==
  [pc : {"idle", "run", "stored"}, op : LifecycleOps \cup {"none"},
   status : Status \cup {"none"}, before : Finalized \cup {"none"},
   rev : Rev \cup {NoRev}, current : Rev \cup {NoRev},
   ticket : Ticket \cup {NoTicket}, agreed : BOOLEAN]

\* The revisions, the disposal columns and the handlers have the shapes above.
LifecycleTypeOK ==
  /\ revs \in [Rev -> RevStatus]
  /\ current \in Rev \cup {NoRev}
  /\ before \in Finalized \cup {"none"}
  /\ tickets \in [Ticket -> TicketStatus]
  /\ job \in [Req -> JobRecord]

\* A completed softcopy has a finalized controlled copy, however uploads,
\* finalizations, disposals, restores and new revision requests overlap.
CompletedHasCopy ==
  doc.status = "Completed" /\ IsSoftcopy =>
    current # NoRev /\ revs[current] \in {"CURRENT", "HISTORICAL"}

\* The revision marked current is the one the softcopy points to.
OneCurrentRevision == \A v \in Rev : revs[v] = "CURRENT" <=> v = current

\* The status to restore is kept exactly while the document is disposed.
DisposedRemembers == doc.status = "Disposed" <=> before # "none"

\* A document has at most one disposal request waiting for review.
OnePendingTicket ==
  \A k, l \in Ticket : tickets[k] = "Pending" /\ tickets[l] = "Pending" => k = l

\* The disposal, its requests and the status a restore gives back agree when handlers
\* do not overlap, whichever of them crash; with the types of the lifecycle's state.
DisposalSound == LifecycleTypeOK /\ DisposedRemembers /\ OnePendingTicket

-----------------------------------------------------------------------------
(* Inductive invariants *)

Uploading(j) == j.pc = "run" /\ j.op \in UploadKind

\* What a handler of this module has checked, the revision rows being rows
JobOK(j, rows) ==
  /\ j.pc # "idle" => j.op \in LifecycleOps /\ j.status \in Status
  /\ Uploading(j) => j.rev \in Rev /\ rows[j.rev] = "NONE"
  /\ j.pc = "run" /\ j.op = "finalize" =>
       /\ j.status = "Approved" /\ j.rev \in Rev /\ rows[j.rev] # "NONE"
       /\ j.current \in Rev => rows[j.current] # "NONE"
  /\ j.pc = "stored" => j.rev \in Rev
  /\ j.pc # "idle" /\ (j.op \in {"correct-file", "dispose"} \/ (j.op = "review" /\ j.agreed)) =>
       j.status \in Finalized
  /\ j.pc # "idle" /\ j.op = "review" => j.ticket \in Ticket

\* A revision being uploaded is named by one handler only
OwnRevision == \A q, r \in Req : q # r /\ Uploading(job[q]) => job[r].rev # job[q].rev

CurrentStored == current \in Rev => revs[current] # "NONE"

\* Whatever overlaps: the request's own invariant, and what its jobs rely on
LifecycleInv ==
  /\ WorkflowInv /\ LifecycleTypeOK /\ OwnRevision /\ CurrentStored
  /\ \A r \in Req : JobOK(job[r], revs)

\* The document's type is never edited
TypeFixed == "edit" \notin Offered \/ \A d, e \in Data : d.type = e.type

Copied == current # NoRev /\ revs[current] \in {"CURRENT", "HISTORICAL"}

\* A handler that completes a softcopy, or brings it back to completed, has seen its copy
CopyKnown(r) ==
  /\ tx[r].pc = "run" /\ tx[r].op = "complete" => doc.current
  /\ job[r].pc # "idle" /\ "Completed" \in {job[r].status, job[r].before} => doc.current

\* CompletedHasCopy with what makes it inductive, if TypeFixed: a copy once recorded
\* stays, and whoever is about to complete the document has seen it.
CopyInv ==
  /\ LifecycleInv
  /\ \A r \in Req : Checked(tx[r]) /\ (tx[r].pc = "run" => tx[r].op \in Offered)
  /\ IsSoftcopy =>
       /\ doc.current => Copied
       /\ doc.status = "Completed" \/ before = "Completed" => doc.current
       /\ \A r \in Req : CopyKnown(r)

\* What a handler that works alone read still holds
JobCurrent(r) ==
  job[r].pc # "idle" =>
    /\ Free(r) /\ job[r].status = doc.status /\ job[r].before = before
    /\ job[r].pc = "run" /\ job[r].op = "finalize" => job[r].current = current
    /\ job[r].op = "request" => \A k \in Ticket : tickets[k] # "Pending"

\* OneCurrentRevision and DisposalSound with what makes them inductive, if OneAtATime
AloneInv ==
  /\ LifecycleInv /\ OneCurrentRevision /\ DisposedRemembers /\ OnePendingTicket
  /\ \A r \in Req : JobCurrent(r) /\ Checked(tx[r])

\* Restoring changes the status of disposed documents only.
RestoredWhenDisposed ==
  [][\A r \in Req : At(r, "restore", "run") /\ job'[r] = NoJob /\ doc'.status # doc.status
        => doc.status = "Disposed"]_<<vars, lvars>>

=============================================================================
